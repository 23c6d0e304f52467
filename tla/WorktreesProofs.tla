-------------------------- MODULE WorktreesProofs --------------------------
(***************************************************************************)
(* Theorems about Worktrees, for every set of worktrees and branches and   *)
(* every history.                                                          *)
(***************************************************************************)
EXTENDS Worktrees, Walks

-----------------------------------------------------------------------------
(***************************************************************************)
(* The log as a value.                                                     *)
(***************************************************************************)

Files == [commit : Nat, edit : Nat]
Effects == [do : {"none", "add", "remove"}, tree : Trees, branch : Branches \cup {None},
            capture : Nat, held : Files]
Kinds == {"note", "foreign", "capture", "op"}
Drafts ==
  [kind : Kinds, branch : Branches, head : Branches, table : [Branches -> Nat], files : Files,
   effect : Effects]
Written ==
  [kind : Kinds, branch : Branches, head : Branches, table : [Branches -> Nat], files : Files,
   effect : Effects, prev : Nat, onBranch : Nat, born : Nat]

(* A verb says at most one thing of a worktree; what it says was captured  *)
(* when one was removed is what the worktree held.                         *)
Sane(st, op) ==
  /\ op.effect.do # "none" => op.kind = "op" /\ op.effect.branch \in Branches
  /\ op.effect.capture \in 0..Len(st)
  /\ op.effect.do = "remove" /\ op.effect.capture # None =>
       st[op.effect.capture].files = op.effect.held

StoreOK(st) ==
  /\ st \in Seq(Written)
  /\ \A k \in 1..Len(st) :
       st[k].prev \in 0..(k - 1) /\ st[k].onBranch \in 0..Len(st) /\ Sane(st, st[k])

Extends(su, st) == Len(st) <= Len(su) /\ \A k \in 1..Len(st) : su[k] = st[k]

AtMostOne(st, S) ==
  \A i, j \in S : st[i].effect.do # "none" /\ st[j].effect.do # "none" => i = j

(* What was left at the k-th of the tips that undo has left.               *)
Lower(L, w, k) == IF k = Len(L.ahead[w]) THEN L.ops[w] ELSE L.ahead[w][k + 1]

(* An undo left no more than one operation that says something of a        *)
(* worktree.                                                               *)
OneStep(st, hi, lo) == lo <= hi /\ AtMostOne(st, Reached(st, hi) \ Reached(st, lo))
AheadOK(L, w) ==
  \A k \in 1..Len(L.ahead[w]) : OneStep(L.store, L.ahead[w][k], Lower(L, w, k))

LogOK(L) ==
  /\ L = [store |-> L.store, ops |-> L.ops, snap |-> L.snap, ahead |-> L.ahead]
  /\ StoreOK(L.store)
  /\ L.ops \in [Trees -> 0..Len(L.store)]
  /\ L.snap \in [Branches -> 0..Len(L.store)]
  /\ L.ahead \in [Trees -> Seq(1..Len(L.store))]
  /\ \A w \in Trees : AheadOK(L, w)

WorldOK(W) ==
  /\ DOMAIN W = {"tips", "live", "at", "files"}
  /\ W.tips \in [Branches -> Nat]
  /\ W.live \subseteq Trees
  /\ W.at \in [Trees -> Branches]
  /\ W.files \in [Trees -> Files]

(* What w writes on its own log, and nothing else.                         *)
Wrote(L, M, w) ==
  /\ LogOK(M) /\ Extends(M.store, L.store)
  /\ \A v \in Trees \ {w} : M.ops[v] = L.ops[v] /\ M.ahead[v] = L.ahead[v]
  /\ Reached(L.store, L.ops[w]) \subseteq Reached(M.store, M.ops[w])
  /\ M = L \/ (M.ahead[w] = << >> /\ L.ops[w] < M.ops[w])

LEMMA StoreIsOlder == ASSUME NEW st, StoreOK(st) PROVE Older(st)
  BY DEF StoreOK, Older

LEMMA ChainIsDescent ==
  \A st, i : ChainIn(st, i) = DescentIn(st, i) /\ ToSet(ChainIn(st, i)) = Reached(st, i)
BY DEF ChainIn, DescentIn, Reached, None

(* A store that grows leaves every walk in it what it was.                 *)
LEMMA ReachedStays ==
  ASSUME NEW st, StoreOK(st), NEW su, StoreOK(su), Extends(su, st)
  PROVE  \A i \in 0..Len(st) : /\ Reached(su, i) = Reached(st, i) /\ Reached(st, i) \subseteq 1..i
                               /\ ChainIn(su, i) = ChainIn(st, i)
<1>1. Older(st) /\ Older(su) /\ Len(st) <= Len(su) /\ \A k \in 1..Len(st) : su[k].prev = st[k].prev
  BY StoreIsOlder DEF Extends
<1>2. \A i \in 0..Len(st) : Reached(st, i) \subseteq 1..i
  BY <1>1, ReachedFacts
<1>3. \A i \in 0..Len(st) : DescentIn(su, i) = DescentIn(st, i) /\ Reached(su, i) = Reached(st, i)
  BY ONLY <1>1, DescentStays
<1> QED
  BY <1>2, <1>3, ChainIsDescent

LEMMA OneStepStays ==
  ASSUME NEW st, StoreOK(st), NEW su, StoreOK(su), Extends(su, st),
         NEW hi \in 0..Len(st), NEW lo \in 0..Len(st), OneStep(st, hi, lo)
  PROVE  OneStep(su, hi, lo)
<1>1. /\ Reached(su, hi) = Reached(st, hi) /\ Reached(su, lo) = Reached(st, lo)
      /\ Reached(st, hi) \subseteq 1..hi
  BY ReachedStays
<1>2. 1..hi \subseteq 1..Len(st)
  BY DEF StoreOK
<1>3. \A i \in Reached(st, hi) : su[i] = st[i]
  BY <1>1, <1>2 DEF Extends
<1> QED
  BY <1>1, <1>3 DEF OneStep, AtMostOne

LEMMA SaneStays ==
  ASSUME NEW st, StoreOK(st), NEW su, StoreOK(su) \/ Len(su) \in Nat, Extends(su, st), NEW op, Sane(st, op)
  PROVE  Sane(su, op)
<1>1. Len(st) \in Nat /\ Len(su) \in Nat
  BY DEF StoreOK
<1> QED
  BY <1>1 DEF Sane, Extends, None

(* A store that grows leaves what undo had left ahead of a log there.      *)
LEMMA AheadStays ==
  ASSUME NEW L, LogOK(L), NEW M, StoreOK(M.store), Extends(M.store, L.store),
         NEW w \in Trees, M.ops[w] = L.ops[w], M.ahead[w] = L.ahead[w]
  PROVE  AheadOK(M, w)
<1> DEFINE a == L.ahead[w]
<1>1. a \in Seq(1..Len(L.store)) /\ L.ops[w] \in 0..Len(L.store) /\ StoreOK(L.store)
  BY DEF LogOK
<1>2. Len(a) \in Nat /\ \A k \in 1..Len(a) : a[k] \in 0..Len(L.store) /\ Lower(L, w, k) \in 0..Len(L.store)
  <2>1. ASSUME NEW k \in 1..Len(a) PROVE a[k] \in 1..Len(L.store) /\ (k # Len(a) => k + 1 \in 1..Len(a))
    BY <1>1
  <2> QED
    BY <1>1, <2>1 DEF Lower
<1>3. ASSUME NEW k \in 1..Len(a)
      PROVE  OneStep(M.store, M.ahead[w][k], Lower(M, w, k))
  <2>1. OneStep(L.store, a[k], Lower(L, w, k))
    BY DEF LogOK, AheadOK
  <2>2. Lower(M, w, k) = Lower(L, w, k)
    BY DEF Lower
  <2> QED
    BY <1>1, <1>2, <2>1, <2>2, OneStepStays
<1> QED
  BY <1>3 DEF AheadOK

LEMMA Grown ==
  ASSUME NEW st, StoreOK(st), NEW e \in Written, e.prev \in 0..Len(st), e.onBranch \in 0..Len(st),
         Sane(st, e)
  PROVE  /\ StoreOK(Append(st, e)) /\ Extends(Append(st, e), st)
         /\ Len(Append(st, e)) = Len(st) + 1 /\ Append(st, e)[Len(st) + 1] = e
<1> DEFINE n == Len(st)
           su == Append(st, e)
<1>1. /\ st \in Seq(Written) /\ n \in Nat
      /\ \A k \in 1..n : st[k].prev \in 0..(k - 1) /\ st[k].onBranch \in 0..n /\ Sane(st, st[k])
  BY DEF StoreOK
<1>2. su \in Seq(Written) /\ Len(su) = n + 1 /\ su[n + 1] = e /\ \A k \in 1..n : su[k] = st[k]
  BY <1>1
<1>3. Extends(su, st)
  BY <1>1, <1>2 DEF Extends
<1> HIDE DEF su
<1>4. ASSUME NEW k \in 1..(n + 1)
      PROVE  su[k].prev \in 0..(k - 1) /\ su[k].onBranch \in 0..(n + 1) /\ Sane(su, su[k])
  <2>1. k = n + 1 \/ k \in 1..n
    BY <1>1
  <2>2. Sane(st, su[k])
    BY <1>1, <1>2, <2>1
  <2>3. Sane(su, su[k])
    <3>1. Len(su) \in Nat
      BY <1>1, <1>2
    <3> QED
      BY <1>3, <2>2, <3>1, SaneStays
  <2>4. CASE k = n + 1
    BY <1>1, <1>2, <2>3, <2>4
  <2>5. CASE k \in 1..n
    BY <1>1, <1>2, <2>3, <2>5
  <2> QED
    BY <2>1, <2>4, <2>5
<1>5. StoreOK(su)
  BY <1>2, <1>4 DEF StoreOK
<1> QED
  BY <1>2, <1>3, <1>5 DEF su

LEMMA CarriedType ==
  ASSUME NEW W, NEW w, NEW table \in [Branches -> Nat], NEW prior \in [Branches -> Nat]
  PROVE  CarryingHeld(W, w, table, prior) \in [Branches -> Nat]
BY DEF CarryingHeld

LEMMA ObservedType ==
  ASSUME NEW W, WorldOK(W), NEW w
  PROVE  Observe(W, w) \in [Branches -> Nat]
BY DEF Observe, WorldOK, None

(* What commit_op does to a log.                                           *)
Pushed(L, M, w, draft) ==
  /\ Wrote(L, M, w) /\ M # L /\ M.ops[w] = Len(L.store) + 1 /\ Len(M.store) = Len(L.store) + 1
  /\ M.ahead[w] = << >>
  /\ M.snap = [L.snap EXCEPT ![draft.branch] = M.ops[w]]
  /\ LET op == M.store[M.ops[w]]
     IN /\ op.kind = draft.kind /\ op.branch = draft.branch /\ op.head = draft.head
        /\ op.files = draft.files /\ op.effect = draft.effect /\ op.prev = L.ops[w]
        /\ op.born = M.ops[w] /\ op.onBranch = L.snap[draft.branch]
  /\ Reached(M.store, M.ops[w]) = {M.ops[w]} \cup Reached(L.store, L.ops[w])

LEMMA PushOK ==
  ASSUME NEW L, LogOK(L), NEW W, NEW w \in Trees, NEW draft \in Drafts, Sane(L.store, draft)
  PROVE  Pushed(L, Push(L, W, w, draft), w, draft)
<1> DEFINE st == L.store
           id == Len(st) + 1
           prev == L.ops[w]
           table == IF prev = None THEN draft.table
                    ELSE CarryingHeld(W, w, draft.table, st[prev].table)
           on == L.snap[draft.branch]
           e == [kind |-> draft.kind, branch |-> draft.branch, head |-> draft.head, table |-> table,
                 files |-> draft.files, effect |-> draft.effect,
                 prev |-> prev, onBranch |-> on, born |-> id]
           su == Append(st, e)
           M == Push(L, W, w, draft)
           ops == [L.ops EXCEPT ![w] = id]
           snaps == [L.snap EXCEPT ![draft.branch] = id]
           aheads == [L.ahead EXCEPT ![w] = << >>]
<1>1. /\ StoreOK(st) /\ st \in Seq(Written) /\ Len(st) \in Nat
      /\ prev \in 0..Len(st) /\ on \in 0..Len(st) /\ draft.branch \in Branches
      /\ L.ops \in [Trees -> 0..Len(st)] /\ L.snap \in [Branches -> 0..Len(st)]
      /\ L.ahead \in [Trees -> Seq(1..Len(st))]
  BY DEF LogOK, StoreOK, Drafts
<1>2. M = [store |-> su, ops |-> ops, snap |-> snaps, ahead |-> aheads]
  BY DEF Push
<1>3. table \in [Branches -> Nat]
  <2>1. ASSUME prev # None PROVE st[prev].table \in [Branches -> Nat]
    <3>1. prev \in 1..Len(st)
      BY <1>1, <2>1 DEF None
    <3>2. st[prev] \in Written
      BY ONLY <1>1, <3>1, ElementOfSeq
    <3> QED
      BY <3>2 DEF Written
  <2>2. draft.table \in [Branches -> Nat]
    BY DEF Drafts
  <2> QED
    BY <2>1, <2>2, CarriedType
<1> HIDE DEF table, prev, on
<1>4. e \in Written /\ Sane(st, e)
  <2>1. prev \in Nat /\ on \in Nat /\ id \in Nat
    BY <1>1
  <2> HIDE DEF id, st
  <2>2. e \in Written
    BY <1>3, <2>1 DEF Drafts, Written
  <2>3. Sane(st, e)
    BY DEF Sane, st
  <2> QED
    BY <2>2, <2>3
<1>5. e.prev = prev /\ e.onBranch = on
  OBVIOUS
<1>6. /\ StoreOK(su) /\ Extends(su, st) /\ Len(su) = id /\ su[id] = e
  <2> HIDE DEF e, st
  <2> QED
    BY <1>1, <1>4, <1>5, Grown DEF id
<1>7. /\ e.kind = draft.kind /\ e.branch = draft.branch /\ e.head = draft.head
      /\ e.files = draft.files /\ e.effect = draft.effect /\ e.born = id
  OBVIOUS
<1> HIDE DEF e, su, M
<1>8. Reached(su, id) = {id} \cup Reached(st, prev)
  <2>1. Older(su) /\ id \in 1..Len(su) /\ su[id].prev = prev
    BY <1>1, <1>5, <1>6, StoreIsOlder
  <2>2. Reached(su, id) = {id} \cup Reached(su, su[id].prev)
    BY ONLY <2>1, ReachedFacts
  <2>3. Reached(su, prev) = Reached(st, prev)
    BY ONLY <1>1, <1>6, ReachedStays
  <2> QED
    BY <2>1, <2>2, <2>3
<1>9. /\ ops \in [Trees -> 0..id] /\ snaps \in [Branches -> 0..id] /\ aheads \in [Trees -> Seq(1..id)]
      /\ ops[w] = id /\ aheads[w] = << >>
  <2>1. id \in 0..id /\ 0..Len(st) \subseteq 0..id /\ 1..Len(st) \subseteq 1..id
    BY <1>1
  <2>2. \A v \in Trees : L.ahead[v] \in Seq(1..id)
    BY ONLY <1>1, <2>1, SeqMonotone
  <2>3. << >> \in Seq(1..id)
    OBVIOUS
  <2> HIDE DEF id, st
  <2> QED
    BY <1>1, <2>1, <2>2, <2>3
<1>10. \A v \in Trees \ {w} : ops[v] = L.ops[v] /\ aheads[v] = L.ahead[v]
  BY <1>1
<1>11. M.store = su /\ M.ops = ops /\ M.snap = snaps /\ M.ahead = aheads
  BY <1>2
<1> HIDE DEF ops, snaps, aheads
<1>12. ASSUME NEW v \in Trees PROVE AheadOK(M, v)
  <2>1. CASE v = w
    BY <1>9, <1>11, <2>1 DEF AheadOK
  <2>2. CASE v # w
    <3>1. M.ops[v] = L.ops[v] /\ M.ahead[v] = L.ahead[v]
      BY <1>10, <1>11, <2>2
    <3>2. StoreOK(M.store) /\ Extends(M.store, L.store)
      BY <1>6, <1>11
    <3> QED
      BY ONLY LogOK(L), <3>1, <3>2, v \in Trees, AheadStays
  <2> QED
    BY <2>1, <2>2
<1>13. LogOK(M)
  BY <1>2, <1>6, <1>9, <1>11, <1>12 DEF LogOK
<1>14. prev < id
  BY <1>1
<1>15. Wrote(L, M, w)
  <2>1. M # L
    BY <1>9, <1>11, <1>14 DEF prev
  <2> QED
    BY <1>6, <1>8, <1>9, <1>10, <1>11, <1>13, <1>14 DEF Wrote, prev
<1>16. M # L
  BY <1>9, <1>11, <1>14 DEF prev
<1>17. M.ops[w] = id /\ M.store[id] = e /\ Len(M.store) = id /\ M.ahead[w] = << >>
  BY <1>6, <1>9, <1>11
<1>18. M.snap = [L.snap EXCEPT ![draft.branch] = M.ops[w]]
  BY <1>11, <1>17 DEF snaps
<1>19. /\ Reached(M.store, id) = {id} \cup Reached(L.store, L.ops[w])
       /\ e.prev = L.ops[w] /\ e.onBranch = L.snap[draft.branch]
  BY <1>5, <1>8, <1>11 DEF prev, on
<1> HIDE DEF id
<1>20. Pushed(L, M, w, draft)
  <2>1. M.ops[w] = Len(L.store) + 1 /\ Len(M.store) = Len(L.store) + 1
    BY <1>17 DEF id
  <2> QED
    BY ONLY <1>7, <1>15, <1>16, <1>17, <1>18, <1>19, <2>1 DEF Pushed
<1> QED
  BY ONLY <1>20 DEF M

LEMMA WroteTwice ==
  ASSUME NEW L, LogOK(L), NEW w \in Trees, NEW M, Wrote(L, M, w), NEW N, Wrote(M, N, w)
  PROVE  Wrote(L, N, w)
<1>1. /\ StoreOK(L.store) /\ StoreOK(M.store) /\ StoreOK(N.store) /\ Len(L.store) \in Nat
      /\ Len(M.store) \in Nat /\ Len(N.store) \in Nat
      /\ Extends(M.store, L.store) /\ Extends(N.store, M.store)
  BY DEF LogOK, Wrote, StoreOK
<1>2. Extends(N.store, L.store)
  BY <1>1 DEF Extends
<1>3. L.ops[w] \in Nat /\ M.ops[w] \in Nat /\ N.ops[w] \in Nat
  BY DEF LogOK, Wrote
<1>4. Reached(L.store, L.ops[w]) \subseteq Reached(N.store, N.ops[w])
  BY DEF Wrote
<1>5. \A v \in Trees \ {w} : N.ops[v] = L.ops[v] /\ N.ahead[v] = L.ahead[v]
  BY DEF Wrote
<1>6. N = L \/ (N.ahead[w] = << >> /\ L.ops[w] < N.ops[w])
  BY <1>3 DEF Wrote
<1> QED
  BY <1>2, <1>4, <1>5, <1>6 DEF Wrote

LEMMA WroteNothing == ASSUME NEW L, LogOK(L), NEW w PROVE Wrote(L, L, w)
<1>1. Len(L.store) \in Nat
  BY DEF LogOK, StoreOK
<1> QED
  BY <1>1 DEF Wrote, Extends

LEMMA DraftIs ==
  ASSUME NEW W, WorldOK(W), NEW w \in Trees, NEW kind \in Kinds, NEW table \in [Branches -> Nat]
  PROVE  /\ Draft(W, w, kind, table) \in Drafts
         /\ \A st : Len(st) \in Nat => Sane(st, Draft(W, w, kind, table))
         /\ Draft(W, w, kind, table).branch = W.at[w]
         /\ Draft(W, w, kind, table).files = W.files[w]
         /\ Draft(W, w, kind, table).effect = NoEffect
         /\ NoEffect \in Effects
<1>1. CleanAt(None) \in Files
  BY DEF CleanAt, None, Files
<1>2. NoEffect \in Effects /\ NoEffect.do = "none" /\ NoEffect.capture = None
  BY <1>1, MainAssumption DEF NoEffect, Effects, None
<1>3. W.at[w] \in Branches /\ W.files[w] \in Files
  BY DEF WorldOK
<1> DEFINE a == W.at[w]
           f == W.files[w]
           d == Draft(W, w, kind, table)
<1>4. d = [kind |-> kind, branch |-> a, head |-> a, table |-> table, files |-> f, effect |-> NoEffect]
  BY DEF Draft
<1> HIDE DEF a, f, d
<1>5. d \in Drafts /\ d.effect = NoEffect /\ d.branch = a /\ d.files = f
  BY <1>2, <1>3, <1>4 DEF Drafts, a, f
<1>6. \A st : Len(st) \in Nat => Sane(st, d)
  BY <1>2, <1>5 DEF Sane, None
<1> QED
  BY <1>2, <1>5, <1>6 DEF d, a, f

LEMMA CleanIs == ASSUME NEW c \in Nat PROVE CleanAt(c) \in Files /\ CleanAt(c).edit = None
  BY DEF CleanAt, Files, None

(* An operation of w that says nothing of a worktree.                      *)
Plain(L, W, w, draft, M) ==
  draft \in Drafts /\ Sane(L.store, draft) /\ draft.effect = NoEffect /\ M = Push(L, W, w, draft)

LEMMA ReconcileIs ==
  ASSUME NEW L, LogOK(L), NEW W, WorldOK(W), NEW w \in Trees
  PROVE  \/ L.ops[w] # None /\ Reconciled(L, W, w) = L
         \/ \E d : Plain(L, W, w, d, Reconciled(L, W, w))
<1> DEFINE M == Reconciled(L, W, w)
<1>1. /\ Observe(W, w) \in [Branches -> Nat] /\ Len(L.store) \in Nat /\ StoreOK(L.store)
      /\ L.ops[w] \in 0..Len(L.store) /\ L.store \in Seq(Written)
      /\ W.tips[W.at[w]] \in Nat
  <2>1. Observe(W, w) \in [Branches -> Nat]
    BY ObservedType
  <2>2. W.tips[W.at[w]] \in Nat
    BY DEF WorldOK
  <2>3. StoreOK(L.store) /\ L.ops[w] \in 0..Len(L.store)
    BY DEF LogOK
  <2> QED
    BY <2>1, <2>2, <2>3 DEF StoreOK
<1>2. CASE L.ops[w] = None
  <2> DEFINE d == Draft(W, w, "note", Observe(W, w))
             f == CleanAt(W.tips[W.at[w]])
             e == [d EXCEPT !.files = f]
  <2>1. d \in Drafts /\ Sane(L.store, d) /\ f \in Files /\ d.effect = NoEffect
    BY <1>1, DraftIs, CleanIs DEF Kinds
  <2>2. M = Push(L, W, w, e)
    BY <1>2 DEF Reconciled
  <2> HIDE DEF d, f, M
  <2>3. e \in Drafts /\ e.effect = d.effect /\ e.kind = d.kind
    BY <2>1 DEF Drafts
  <2>4. Sane(L.store, e)
    BY <2>1, <2>3 DEF Sane
  <2> HIDE DEF e
  <2>5. Plain(L, W, w, e, M)
    BY <2>1, <2>2, <2>3, <2>4 DEF Plain
  <2> QED
    BY <2>5 DEF M
<1>3. CASE L.ops[w] # None
  <2> DEFINE last == L.store[L.ops[w]]
             seen == CarryingHeld(W, w, Observe(W, w), last.table)
             d == Draft(W, w, "foreign", seen)
  <2>1. M = IF last.head = W.at[w] /\ last.table = seen THEN L ELSE Push(L, W, w, d)
    BY <1>3 DEF Reconciled
  <2>2. last \in Written
    <3>1. L.ops[w] \in 1..Len(L.store)
      BY <1>1, <1>3 DEF None
    <3> QED
      BY ONLY <1>1, <3>1, ElementOfSeq
  <2>3. seen \in [Branches -> Nat]
    BY <1>1, <2>2, CarriedType DEF Written
  <2>4. d \in Drafts /\ Sane(L.store, d) /\ d.effect = NoEffect
    BY <1>1, <2>3, DraftIs DEF Kinds
  <2> HIDE DEF d, last, seen, M
  <2>5. M = L \/ Plain(L, W, w, d, M)
    BY <2>1, <2>4 DEF Plain
  <2> QED
    BY <1>3, <2>5 DEF M
<1> QED
  BY <1>2, <1>3

LEMMA ReconcileOK ==
  ASSUME NEW L, LogOK(L), NEW W, WorldOK(W), NEW w \in Trees
  PROVE  Wrote(L, Reconciled(L, W, w), w) /\ Reconciled(L, W, w).ops[w] # None
<1> DEFINE M == Reconciled(L, W, w)
<1>1. Len(L.store) \in Nat
  BY DEF LogOK, StoreOK
<1>2. (L.ops[w] # None /\ M = L) \/ \E d : Plain(L, W, w, d, M)
  BY ReconcileIs
<1> HIDE DEF M
<1>3. CASE L.ops[w] # None /\ M = L
  BY <1>3, WroteNothing DEF M
<1>4. ASSUME NEW d, Plain(L, W, w, d, M) PROVE Wrote(L, M, w) /\ M.ops[w] # None
  <2>1. Pushed(L, M, w, d)
    BY <1>4, PushOK DEF Plain
  <2> QED
    BY <1>1, <2>1 DEF Pushed, None
<1> QED
  BY <1>2, <1>3, <1>4 DEF M

(* Capture before courage: afterwards the branch's pointer names an        *)
(* operation with the files, or there are no edits.                        *)
Captures(M, W, w) ==
  LET c == M.snap[W.at[w]]
  IN IF c = None THEN W.files[w].edit = None ELSE M.store[c].files = W.files[w]

(* What capture_with appends to: a log that is there.                      *)
Founded(L, W, w) == IF L.ops[w] = None THEN Reconciled(L, W, w) ELSE L

LEMMA CaptureIs ==
  ASSUME NEW L, LogOK(L), NEW W, WorldOK(W), NEW w \in Trees
  PROVE  /\ Wrote(L, Founded(L, W, w), w)
         /\ \/ NothingNew(L, W, w) /\ Captured(L, W, w) = L
            \/ \E d : /\ Plain(Founded(L, W, w), W, w, d, Captured(L, W, w))
                      /\ d.branch = W.at[w] /\ d.files = W.files[w]
<1> DEFINE M == Founded(L, W, w)
           last == M.store[M.ops[w]]
           d == Draft(W, w, "capture", last.table)
           e == [d EXCEPT !.head = last.head]
           C == Captured(L, W, w)
<1>1. C = IF NothingNew(L, W, w) THEN L ELSE Push(M, W, w, e)
  BY DEF Captured, Founded
<1>2. Wrote(L, M, w) /\ M.ops[w] # None
  BY ReconcileOK, WroteNothing DEF Founded
<1> HIDE DEF M
<1>3. /\ StoreOK(M.store) /\ M.store \in Seq(Written) /\ Len(M.store) \in Nat
      /\ M.ops[w] \in 0..Len(M.store)
  <2>1. StoreOK(M.store) /\ M.ops[w] \in 0..Len(M.store)
    BY <1>2 DEF Wrote, LogOK
  <2> QED
    BY <2>1 DEF StoreOK
<1>4. last \in Written
  <2>1. M.ops[w] \in 1..Len(M.store)
    BY <1>2, <1>3 DEF None
  <2> QED
    BY ONLY <1>3, <2>1, ElementOfSeq
<1>5. last.table \in [Branches -> Nat] /\ last.head \in Branches
  BY <1>4 DEF Written
<1> HIDE DEF last
<1>6. /\ d \in Drafts /\ Sane(M.store, d) /\ d.branch = W.at[w] /\ d.files = W.files[w]
      /\ d.effect = NoEffect
  BY <1>3, <1>5, DraftIs DEF Kinds
<1> HIDE DEF d
<1>7. e \in Drafts /\ e.effect = d.effect /\ e.kind = d.kind /\ e.branch = W.at[w]
      /\ e.files = W.files[w]
  BY <1>5, <1>6 DEF Drafts
<1>8. Sane(M.store, e)
  BY <1>6, <1>7 DEF Sane
<1> HIDE DEF e, C
<1>9. (NothingNew(L, W, w) /\ C = L) \/ Plain(M, W, w, e, C)
  BY <1>1, <1>6, <1>7, <1>8 DEF Plain
<1> QED
  BY <1>2, <1>7, <1>9 DEF M, C

LEMMA CaptureOK ==
  ASSUME NEW L, LogOK(L), NEW W, WorldOK(W), NEW w \in Trees
  PROVE  Wrote(L, Captured(L, W, w), w) /\ Captures(Captured(L, W, w), W, w)
<1> DEFINE M == Founded(L, W, w)
           C == Captured(L, W, w)
<1>1. /\ Wrote(L, M, w)
      /\ \/ NothingNew(L, W, w) /\ C = L
         \/ \E d : Plain(M, W, w, d, C) /\ d.branch = W.at[w] /\ d.files = W.files[w]
  BY CaptureIs
<1> HIDE DEF M, C
<1>2. CASE NothingNew(L, W, w) /\ C = L
  <2>1. W.tips[W.at[w]] \in Nat
    BY DEF WorldOK
  <2>2. Captures(L, W, w)
    BY <1>2, <2>1, CleanIs DEF NothingNew, Captures
  <2> QED
    BY <1>2, <2>2, WroteNothing DEF C
<1>3. ASSUME NEW d, Plain(M, W, w, d, C), d.branch = W.at[w], d.files = W.files[w]
      PROVE  Wrote(L, C, w) /\ Captures(C, W, w)
  <2>1. LogOK(M) /\ Len(M.store) \in Nat
    BY <1>1 DEF Wrote, LogOK, StoreOK
  <2>2. Pushed(M, C, w, d)
    BY <1>3, <2>1, PushOK DEF Plain
  <2>3. Wrote(L, C, w)
    BY <1>1, <2>2, WroteTwice DEF Pushed
  <2>4. C.snap[W.at[w]] = C.ops[w] /\ C.ops[w] # None /\ C.store[C.ops[w]].files = W.files[w]
    <3>1. M.snap \in [Branches -> 0..Len(M.store)] /\ W.at[w] \in Branches
      BY <2>1 DEF LogOK, WorldOK
    <3>2. C.snap = [M.snap EXCEPT ![W.at[w]] = C.ops[w]] /\ C.ops[w] = Len(M.store) + 1
          /\ C.store[C.ops[w]].files = W.files[w]
      BY <1>3, <2>2 DEF Pushed
    <3> QED
      BY <2>1, <3>1, <3>2 DEF None
  <2> QED
    BY <2>3, <2>4 DEF Captures
<1> QED
  BY <1>1, <1>2, <1>3 DEF C

LEMMA PreambleOK ==
  ASSUME LogOK(Log), WorldOK(World), NEW w \in Trees
  PROVE  Wrote(Log, Preamble(w), w) /\ Preamble(w).ops[w] # None
<1> DEFINE M == Reconciled(Log, World, w)
           L == Log
           W == World
<1>1. Wrote(L, M, w) /\ M.ops[w] # None
  BY ReconcileOK
<1>2. LogOK(M)
  BY <1>1 DEF Wrote
<1> HIDE DEF M, L, W
<1>3. Wrote(M, Captured(M, W, w), w)
  BY <1>2, CaptureOK DEF W
<1>4. Wrote(L, Captured(M, W, w), w)
  BY <1>1, <1>3, WroteTwice DEF L
<1>5. Captured(M, W, w).ops[w] # None
  <2>1. M.ops[w] \in Nat /\ Captured(M, W, w).ops[w] \in Nat
    BY <1>2, <1>3 DEF Wrote, LogOK
  <2> QED
    BY <1>1, <1>3, <2>1 DEF Wrote, None
<1> QED
  BY <1>4, <1>5 DEF Preamble, M, L, W

-----------------------------------------------------------------------------
(***************************************************************************)
(* Worktrees put back and taken away by a move.                            *)
(***************************************************************************)

(* What a move makes of the worktree an operation speaks of: it is put     *)
(* back or taken away, and nothing else.                                   *)
Affected(L, W, R, op) ==
  LET t == op.effect.tree
      c == op.effect.capture
  IN /\ R = Both(R.log, R.world) /\ WorldOK(R.world)
     /\ R.world.tips = W.tips
     /\ op.effect.do = "none" => R = Both(L, W)
     /\ Wrote(L, R.log, t) /\ (R.log # L => t \in W.live)
     /\ \A v \in Trees \ {t} : /\ R.world.at[v] = W.at[v] /\ R.world.files[v] = W.files[v]
                               /\ v \in R.world.live <=> v \in W.live
     /\ t \notin R.world.live => R.world.at[t] = W.at[t] /\ R.world.files[t] = W.files[t]
     /\ t \in W.live /\ t \notin R.world.live => Captures(R.log, W, t)
     /\ t \in W.live /\ t \in R.world.live => R = Both(L, W)
     /\ t \in R.world.live /\ t \notin W.live =>
          R.log = L /\ (c # None => R.world.files[t] = L.store[c].files)

LEMMA RetiredOK ==
  ASSUME NEW L, LogOK(L), NEW W, WorldOK(W), NEW op, op.effect.tree \in Trees,
         op.effect.do # "none"
  PROVE  Affected(L, W, Retired(Both(L, W), op.effect.tree), op)
<1> DEFINE t == op.effect.tree
           R == Retired(Both(L, W), t)
           C == Captured(L, W, t)
<1>0. t \in Trees
  OBVIOUS
<1>1. Both(L, W).log = L /\ Both(L, W).world = W
  BY DEF Both
<1>2. CASE t \notin W.live
  <2>1. R = Both(L, W)
    BY <1>1, <1>2 DEF Retired
  <2> HIDE DEF R, t
  <2>2. Wrote(L, L, t)
    BY WroteNothing
  <2> QED
    BY <1>1, <1>2, <2>1, <2>2 DEF Affected, R, t
<1>3. CASE t \in W.live
  <2> DEFINE D == [W EXCEPT !.live = @ \ {t}]
  <2>1. R = Both(C, D)
    BY <1>1, <1>3 DEF Retired, TornDown
  <2>2. R.log = C /\ R.world = D
    BY <2>1 DEF Both
  <2>3. DOMAIN D = {"tips", "live", "at", "files"} /\ DOMAIN W = {"tips", "live", "at", "files"}
    BY DEF WorldOK
  <2>4. D.tips = W.tips /\ D.live = W.live \ {t} /\ D.at = W.at /\ D.files = W.files
    BY <2>3
  <2>5. Wrote(L, C, t) /\ Captures(C, W, t)
    BY <1>0, CaptureOK
  <2> HIDE DEF R, C, D, t
  <2>6. WorldOK(D)
    BY <2>3, <2>4 DEF WorldOK
  <2> QED
    BY <1>3, <2>1, <2>2, <2>4, <2>5, <2>6 DEF Affected, R, t
<1> QED
  BY <1>2, <1>3

LEMMA WorldWith ==
  ASSUME NEW W, DOMAIN W = {"tips", "live", "at", "files"}, NEW l, NEW a, NEW f,
         NEW S, S = [W EXCEPT !.live = l, !.at = a, !.files = f]
  PROVE  /\ DOMAIN S = {"tips", "live", "at", "files"}
         /\ S.tips = W.tips /\ S.live = l /\ S.at = a /\ S.files = f
OBVIOUS

LEMMA RevivedOK ==
  ASSUME NEW L, LogOK(L), NEW W, WorldOK(W), NEW op, op.effect.tree \in Trees,
         op.effect.branch \in Branches, op.effect.capture \in 0..Len(L.store),
         op.effect.do # "none"
  PROVE  Affected(L, W, Revived(Both(L, W), op.effect.tree, op.effect.branch, op.effect.capture), op)
<1> DEFINE t == op.effect.tree
           b == op.effect.branch
           c == op.effect.capture
           R == Revived(Both(L, W), t, b, c)
           held == IF c # None THEN L.store[c].files
                   ELSE IF L.ops[t] # None THEN L.store[L.ops[t]].files
                   ELSE CleanAt(W.tips[b])
           S == Stood(W, t, b, held)
<1>1. Both(L, W).log = L /\ Both(L, W).world = W
  BY DEF Both
<1>2. Wrote(L, L, t)
  BY WroteNothing
<1>3. R = IF Occupied(W, t) \/ W.tips[b] = None THEN Both(L, W) ELSE Both(L, S)
  BY <1>1 DEF Revived
<1>4. held \in Files
  <2>1. L.store \in Seq(Written) /\ Len(L.store) \in Nat /\ L.ops[t] \in 0..Len(L.store)
    BY DEF LogOK, StoreOK
  <2>2. ASSUME NEW i \in 0..Len(L.store), i # None PROVE L.store[i].files \in Files
    <3>1. i \in 1..Len(L.store)
      BY <2>1, <2>2 DEF None
    <3>2. L.store[i] \in Written
      BY ONLY <2>1, <3>1, ElementOfSeq
    <3> QED
      BY <3>2 DEF Written
  <2>3. W.tips[b] \in Nat
    BY DEF WorldOK
  <2> QED
    BY <2>1, <2>2, <2>3, CleanIs
<1>5. c # None => held = L.store[c].files
  OBVIOUS
<1>6. t \in Trees /\ b \in Branches
  OBVIOUS
<1> HIDE DEF held, R, t, b, c
<1>7. CASE R = Both(L, W)
  <2>1. R.log = L /\ R.world = W
    BY <1>1, <1>7
  <2> QED
    BY <1>2, <1>7, <2>1 DEF Affected, R, t, b, c
<1>8. CASE t \notin W.live /\ R = Both(L, S)
  <2>1. R.log = L /\ R.world = S
    BY <1>8 DEF Both
  <2>2. /\ DOMAIN S = {"tips", "live", "at", "files"}
        /\ S.tips = W.tips /\ S.live = W.live \cup {t} /\ S.at = [W.at EXCEPT ![t] = b]
        /\ S.files = [W.files EXCEPT ![t] = held]
    <3>1. S = [W EXCEPT !.live = W.live \cup {t}, !.at = [W.at EXCEPT ![t] = b],
                        !.files = [W.files EXCEPT ![t] = held]]
      BY Zenon DEF Stood
    <3> DEFINE l == W.live \cup {t}
               a == [W.at EXCEPT ![t] = b]
               f == [W.files EXCEPT ![t] = held]
    <3>2. DOMAIN W = {"tips", "live", "at", "files"}
      BY DEF WorldOK
    <3>3. S = [W EXCEPT !.live = l, !.at = a, !.files = f]
      BY ONLY <3>1
    <3> HIDE DEF l, a, f, S
    <3>4. /\ DOMAIN S = {"tips", "live", "at", "files"}
          /\ S.tips = W.tips /\ S.live = l /\ S.at = a /\ S.files = f
      BY ONLY <3>2, <3>3, WorldWith
    <3> QED
      BY ONLY <3>4 DEF l, a, f
  <2>3. /\ S.tips = W.tips /\ S.live = W.live \cup {t} /\ S.at = [W.at EXCEPT ![t] = b]
        /\ S.files = [W.files EXCEPT ![t] = held]
    BY ONLY <2>2
  <2> HIDE DEF S
  <2>4. WorldOK(S)
    BY <1>4, <1>6, <2>2, <2>3 DEF WorldOK
  <2>5. S.files[t] = held /\ \A v \in Trees \ {t} : S.at[v] = W.at[v] /\ S.files[v] = W.files[v]
    BY <1>6, <2>3 DEF WorldOK
  <2>6. op.effect.do # "none"
    OBVIOUS
  <2>7. t \in S.live /\ \A v \in Trees \ {t} : v \in S.live <=> v \in W.live
    BY <2>3
  <2> QED
    BY <1>2, <1>5, <1>8, <2>1, <2>3, <2>4, <2>5, <2>6, <2>7 DEF Affected, R, t, b, c
<1> QED
  BY <1>3, <1>7, <1>8 DEF Occupied

LEMMA EffectOK ==
  ASSUME NEW L, LogOK(L), NEW W, WorldOK(W), NEW op \in Written, Sane(L.store, op),
         NEW entered \in BOOLEAN
  PROVE  Affected(L, W, AfterEffect(Both(L, W), op, entered), op)
<1>1. op.effect.tree \in Trees
  BY DEF Written, Effects
<1>2. CASE op.effect.do = "none"
  <2>1. AfterEffect(Both(L, W), op, entered) = Both(L, W)
    BY <1>2 DEF AfterEffect
  <2>2. Both(L, W).log = L /\ Both(L, W).world = W
    BY DEF Both
  <2>3. Wrote(L, L, op.effect.tree)
    BY WroteNothing
  <2> QED
    BY <1>2, <2>1, <2>2, <2>3 DEF Affected
<1>3. CASE op.effect.do # "none" /\ entered = (op.effect.do = "add")
  <2>1. AfterEffect(Both(L, W), op, entered)
          = Revived(Both(L, W), op.effect.tree, op.effect.branch, op.effect.capture)
    BY <1>3 DEF AfterEffect
  <2>2. op.effect.branch \in Branches /\ op.effect.capture \in 0..Len(L.store)
    BY <1>3 DEF Sane
  <2> QED
    BY <1>1, <1>3, <2>1, <2>2, RevivedOK
<1>4. CASE op.effect.do # "none" /\ entered # (op.effect.do = "add")
  <2>1. AfterEffect(Both(L, W), op, entered) = Retired(Both(L, W), op.effect.tree)
    BY <1>4 DEF AfterEffect
  <2> QED
    BY <1>1, <1>4, <2>1, RetiredOK
<1> QED
  BY <1>2, <1>3, <1>4

(* A list of operations of which one at most says something of a worktree  *)
(* does what that one does.                                                *)
Single(ops) ==
  \A i, j \in 1..Len(ops) : ops[i].effect.do # "none" /\ ops[j].effect.do # "none" => i = j
AfterOne(MW, ops, entered) ==
  /\ \A i \in 1..Len(ops) :
       ops[i].effect.do # "none" => AfterAll(MW, ops, entered) = AfterEffect(MW, ops[i], entered)
  /\ (\A i \in 1..Len(ops) : ops[i].effect.do = "none") => AfterAll(MW, ops, entered) = MW

LEMMA AfterIs ==
  ASSUME NEW MW, NEW ops, Len(ops) \in Nat, NEW entered, Single(ops)
  PROVE  AfterOne(MW, ops, entered)
<1> DEFINE n == Len(ops)
           Says1(i) == ops[i].effect.do # "none"
           one == CHOOSE k \in 1..n : Says1(k)
           g == [i \in 0..n |-> IF \E k \in 1..i : Says1(k) THEN AfterEffect(MW, ops[one], entered)
                                ELSE MW]
           Follows(f) == f = [i \in 0..n |-> IF i = 0 THEN MW ELSE AfterEffect(f[i - 1], ops[i], entered)]
           f == CHOOSE f : Follows(f)
<1>1. \A i \in 1..n : Says1(i) => one = i
  <2> USE DEF Single
  <2> TAKE i \in 1..n
  <2>1. Says1(i) => one \in 1..n /\ Says1(one)
    <3> HIDE DEF Says1
    <3> QED
      OBVIOUS
  <2> QED
    BY <2>1
<1>2. \A R, i : ~Says1(i) => AfterEffect(R, ops[i], entered) = R
  BY DEF AfterEffect
<1> HIDE DEF Says1, one
<1>3. ASSUME NEW i \in 0..n
      PROVE  g[i] = IF i = 0 THEN MW ELSE AfterEffect(g[i - 1], ops[i], entered)
  <2>1. CASE i = 0
    <3>1. ~\E k \in 1..0 : Says1(k)
      OBVIOUS
    <3> QED
      BY <2>1, <3>1
  <2>2. CASE i # 0
    <3>1. i \in 1..n /\ i - 1 \in 0..n /\ 1..i = (1..(i - 1)) \cup {i} /\ i \notin 1..(i - 1)
      BY <2>2
    <3> DEFINE a == AfterEffect(MW, ops[one], entered)
    <3>2. /\ g[i] = IF \E k \in 1..i : Says1(k) THEN a ELSE MW
          /\ g[i - 1] = IF \E k \in 1..(i - 1) : Says1(k) THEN a ELSE MW
      BY <3>1
    <3> HIDE DEF g
    <3>3. CASE Says1(i)
      <4>1. one = i
        BY ONLY <1>1, <3>1, <3>3
      <4>2. \A k \in 1..(i - 1) : k \in 1..n
        BY <3>1
      <4>3. ~\E k \in 1..(i - 1) : Says1(k)
        BY ONLY <1>1, <3>1, <4>1, <4>2
      <4>4. g[i - 1] = MW /\ g[i] = a
        BY ONLY <3>1, <3>2, <3>3, <4>3
      <4> QED
        BY <2>2, <4>1, <4>4
    <3>4. CASE ~Says1(i)
      <4>1. g[i] = g[i - 1]
        <5> HIDE DEF a
        <5> QED
          BY ONLY <3>1, <3>2, <3>4
      <4>2. AfterEffect(g[i - 1], ops[i], entered) = g[i - 1]
        BY ONLY <1>2, <3>4
      <4> QED
        BY ONLY <2>2, <4>1, <4>2
    <3> QED
      BY <3>3, <3>4
  <2> QED
    BY <2>1, <2>2
<1>4. Follows(g)
  <2>1. g = [i \in 0..n |-> g[i]]
    OBVIOUS
  <2> HIDE DEF g
  <2> QED
    BY <1>3, <2>1
<1>5. Follows(f)
  <2> HIDE DEF Follows, g
  <2> QED
    BY <1>4
<1>6. AfterAll(MW, ops, entered) = f[n]
  BY DEF AfterAll
<1> HIDE DEF f
<1>7. \A i \in 0..n : f[i] = IF i = 0 THEN MW ELSE AfterEffect(f[i - 1], ops[i], entered)
  BY <1>5
<1> DEFINE T == {i \in 0..n : f[i] = g[i]}
<1>8. ASSUME NEW m \in 0..n, \A k \in 0..n : k < m => k \in T
      PROVE  m \in T
  <2>1. CASE m = 0
    <3> HIDE DEF g
    <3> QED
      BY <1>3, <1>7, <2>1
  <2>2. CASE m # 0
    <3>1. m - 1 \in 0..n /\ m - 1 < m
      BY <2>2
    <3> HIDE DEF g
    <3>2. f[m - 1] = g[m - 1]
      BY <1>8, <3>1
    <3> QED
      BY <1>3, <1>7, <2>2, <3>2
  <2> QED
    BY <2>1, <2>2
<1>9. f[n] = g[n]
  <2>1. 0..n \subseteq T
    <3> HIDE DEF T
    <3> QED
      BY <1>8, AllNumbers
  <2>2. n \in 0..n
    OBVIOUS
  <2> QED
    BY <2>1, <2>2
<1>10. g[n] = IF \E k \in 1..n : Says1(k) THEN AfterEffect(MW, ops[one], entered) ELSE MW
  <2>1. n \in 0..n
    OBVIOUS
  <2> QED
    BY <2>1
<1> HIDE DEF g
<1>11. ASSUME NEW i \in 1..n, Says1(i)
       PROVE  AfterAll(MW, ops, entered) = AfterEffect(MW, ops[i], entered)
  BY <1>1, <1>6, <1>9, <1>10, <1>11
<1>12. ASSUME \A i \in 1..n : ~Says1(i)
       PROVE  AfterAll(MW, ops, entered) = MW
  BY <1>6, <1>9, <1>10, <1>12
<1> QED
  BY <1>11, <1>12 DEF Says1, AfterOne

LEMMA AfterNone ==
  ASSUME NEW MW, NEW ops, Len(ops) = 0, NEW entered
  PROVE  AfterAll(MW, ops, entered) = MW
<1>1. Single(ops) /\ \A i \in 1..Len(ops) : ops[i].effect.do = "none"
  BY DEF Single
<1>2. AfterOne(MW, ops, entered)
  BY <1>1, AfterIs
<1> QED
  BY ONLY <1>1, <1>2 DEF AfterOne

(* What the worktrees and their logs are after a move over the operations  *)
(* of S.                                                                   *)
MovedOver(L, W, R, S, entered) ==
  /\ \A i \in S : L.store[i].effect.do # "none" =>
       R = AfterEffect(Both(L, W), L.store[i], entered)
  /\ (\A i \in S : L.store[i].effect.do = "none") => R = Both(L, W)

LEMMA EffectsAre ==
  ASSUME NEW L, NEW W, NEW ids, Len(ids) \in Nat,
         \A i, j \in 1..Len(ids) : ids[i] = ids[j] => i = j,
         NEW S, S = {ids[i] : i \in 1..Len(ids)}, AtMostOne(L.store, S)
  PROVE  /\ MovedOver(L, W, AfterEffects(L, W, ids, << >>), S, FALSE)
         /\ MovedOver(L, W, AfterEffects(L, W, << >>, ids), S, TRUE)
<1> DEFINE n == Len(ids)
           MW == Both(L, W)
           left == [i \in 1..n |-> L.store[ids[i]]]
           entered == [i \in 1..n |-> L.store[ids[n + 1 - i]]]
           noLeft == [i \in 1..Len(<< >>) |-> L.store[<< >>[i]]]
           noEntered == [i \in 1..Len(<< >>) |-> L.store[<< >>[Len(<< >>) + 1 - i]]]
<1>1. Len(left) = n /\ \A i \in 1..n : left[i] = L.store[ids[i]]
  OBVIOUS
<1>2. Len(entered) = n /\ \A i \in 1..n : entered[i] = L.store[ids[n + 1 - i]]
  OBVIOUS
<1>3. \A i \in 1..n : n + 1 - i \in 1..n /\ n + 1 - (n + 1 - i) = i
  OBVIOUS
<1>4. Len(noLeft) = 0 /\ Len(noEntered) = 0
  OBVIOUS
<1>5. AfterEffects(L, W, ids, << >>) = AfterAll(AfterAll(MW, left, FALSE), noEntered, TRUE)
  BY DEF AfterEffects
<1>6. AfterEffects(L, W, << >>, ids) = AfterAll(AfterAll(MW, noLeft, FALSE), entered, TRUE)
  BY DEF AfterEffects
<1> HIDE DEF left, entered, noLeft, noEntered
<1>7. \A R : AfterAll(R, noLeft, FALSE) = R /\ AfterAll(R, noEntered, TRUE) = R
  BY <1>4, AfterNone
<1>8. Single(left)
  BY <1>1 DEF AtMostOne, Single
<1>9. Single(entered)
  <2> SUFFICES ASSUME NEW i \in 1..n, NEW j \in 1..n,
                      entered[i].effect.do # "none", entered[j].effect.do # "none"
               PROVE  i = j
    BY <1>2 DEF Single
  <2>1. ids[n + 1 - i] \in S /\ ids[n + 1 - j] \in S
    BY <1>3
  <2>2. ids[n + 1 - i] = ids[n + 1 - j]
    <3> DEFINE x == ids[n + 1 - i]
               y == ids[n + 1 - j]
    <3>1. L.store[x].effect.do # "none" /\ L.store[y].effect.do # "none"
      BY <1>2
    <3> HIDE DEF x, y
    <3>2. x = y
      BY <2>1, <3>1 DEF AtMostOne, x, y
    <3> QED
      BY <3>2 DEF x, y
  <2>3. n + 1 - i = n + 1 - j
    BY <1>3, <2>2
  <2> QED
    BY <2>3
<1>10. AfterOne(MW, left, FALSE) /\ AfterOne(MW, entered, TRUE)
  BY <1>1, <1>2, <1>8, <1>9, AfterIs
<1>11. /\ \A i \in 1..n : entered[i].effect.do # "none" =>
            AfterAll(MW, entered, TRUE) = AfterEffect(MW, entered[i], TRUE)
       /\ (\A i \in 1..n : entered[i].effect.do = "none") => AfterAll(MW, entered, TRUE) = MW
  BY <1>2, <1>10 DEF AfterOne
<1>12. MovedOver(L, W, AfterEffects(L, W, ids, << >>), S, FALSE)
  <2>1. AfterEffects(L, W, ids, << >>) = AfterAll(MW, left, FALSE)
    BY <1>5, <1>7
  <2>2. /\ \A i \in 1..n : L.store[ids[i]].effect.do # "none" =>
             AfterAll(MW, left, FALSE) = AfterEffect(MW, L.store[ids[i]], FALSE)
        /\ (\A i \in 1..n : L.store[ids[i]].effect.do = "none") => AfterAll(MW, left, FALSE) = MW
    <3> HIDE DEF MW
    <3> QED
      BY <1>1, <1>10 DEF AfterOne
  <2> QED
    BY <2>1, <2>2 DEF MovedOver
<1>13. MovedOver(L, W, AfterEffects(L, W, << >>, ids), S, TRUE)
  <2>1. \A i \in 1..n : L.store[ids[i]] = entered[n + 1 - i]
    BY <1>2, <1>3
  <2>2. AfterEffects(L, W, << >>, ids) = AfterAll(MW, entered, TRUE)
    BY <1>6, <1>7
  <2> HIDE DEF MW
  <2>3. ASSUME NEW i \in 1..n, L.store[ids[i]].effect.do # "none"
        PROVE  AfterAll(MW, entered, TRUE) = AfterEffect(MW, L.store[ids[i]], TRUE)
    <3>1. n + 1 - i \in 1..n /\ entered[n + 1 - i] = L.store[ids[i]]
      BY <1>3, <2>1
    <3> QED
      BY <1>11, <2>3, <3>1
  <2>4. ASSUME \A i \in S : L.store[i].effect.do = "none"
        PROVE  AfterAll(MW, entered, TRUE) = MW
    <3>1. \A i \in 1..n : entered[i].effect.do = "none"
      <4> TAKE i \in 1..n
      <4>1. ids[n + 1 - i] \in S
        BY <1>3
      <4> QED
        BY <1>2, <2>4, <4>1
    <3> QED
      BY <1>11, <3>1
  <2> QED
    BY <2>2, <2>3, <2>4 DEF MovedOver, MW
<1> QED
  BY <1>12, <1>13

Newest(ops, last) == {ops[k] : k \in 1..last}

(* What undo takes back: the newest operations of a log down to one that   *)
(* stays, no more than one of them saying something of a worktree.         *)
HasRun(L, ops) == /\ \E k \in DOMAIN ops : L.store[ops[k]].kind # "note"
                  /\ RunEnd(L, ops) < Len(ops)
LeavesRun(L, i, ops, last) ==
  /\ last \in 1..Len(ops)
  /\ ops[last + 1] \in 1..i /\ OneStep(L.store, i, ops[last + 1])
  /\ Reached(L.store, i) \ Reached(L.store, ops[last + 1]) = Newest(ops, last)

LEMMA RunEndIs ==
  ASSUME NEW L, LogOK(L), NEW i \in 0..Len(L.store), HasRun(L, ChainIn(L.store, i))
  PROVE  LeavesRun(L, i, ChainIn(L.store, i), RunEnd(L, ChainIn(L.store, i)))
<1> DEFINE ops == ChainIn(L.store, i)
           last == RunEnd(L, ops)
           st == L.store
           n == Len(ops)
           K == {k \in DOMAIN ops : st[ops[k]].kind # "note"}
           first == Min(K)
           J == {j \in first..n : \A k \in first..j : st[ops[k]].kind = "capture"}
           low == ops[last + 1]
<1>0. last < n
  BY DEF HasRun
<1>1. /\ Older(st) /\ ops = DescentIn(st, i) /\ n \in Nat /\ Descends(ops)
      /\ DOMAIN ops = 1..n /\ \A k \in 1..n : ops[k] \in 1..i
      /\ \A y : y \in Reached(st, i) <=> \E k \in 1..n : ops[k] = y
      /\ StoreOK(st) /\ i \in 0..Len(st) /\ Len(st) \in Nat
  <2>1. StoreOK(st) /\ Older(st)
    BY StoreIsOlder DEF LogOK
  <2>2. ops = DescentIn(st, i)
    BY ChainIsDescent
  <2>3. i \in 0..Len(st)
    OBVIOUS
  <2> HIDE DEF st, ops
  <2> DEFINE s == DescentIn(st, i)
  <2>4. /\ Len(s) \in Nat /\ Descends(s) /\ DOMAIN s = 1..Len(s)
        /\ \A k \in 1..Len(s) : s[k] \in 1..i
        /\ \A y : y \in Reached(st, i) <=> \E k \in 1..Len(s) : s[k] = y
    BY ONLY <2>1, <2>3, DescentMembers
  <2> HIDE DEF s
  <2>5. ops = s
    BY <2>2 DEF s
  <2> QED
    BY <2>1, <2>2, <2>3, <2>4, <2>5 DEF Older
<1>2. first \in K /\ \A k \in K : first <= k
  <2>1. K \subseteq 1..n /\ K # {}
    BY <1>1 DEF HasRun
  <2> HIDE DEF K
  <2> QED
    BY <1>1, <2>1, MinIs
<1>3. last \in {first} \cup J /\ last \in 1..n
  <2>1. {first} \cup J \subseteq 1..n
    <3>1. first \in 1..n
      BY <1>1, <1>2
    <3> HIDE DEF first
    <3> QED
      BY <1>1, <3>1
  <2>2. last = Max({first} \cup J)
    BY DEF RunEnd
  <2> HIDE DEF J, first, n
  <2>3. Max({first} \cup J) \in {first} \cup J
    BY <1>1, <2>1, MaxIs
  <2> QED
    BY <2>1, <2>2, <2>3
<1> HIDE DEF K, first, st, ops, last
<1>4. first \in 1..n /\ \A k \in 1..n : k < first => st[ops[k]].kind = "note"
  BY <1>1, <1>2 DEF K
<1>5. last = first \/ \A k \in first..last : st[ops[k]].kind = "capture"
  BY <1>3
<1>6. last + 1 \in 1..n
  BY <1>0, <1>1, <1>3
<1>7. \A k \in 1..n : st[ops[k]].effect.do # "none" => st[ops[k]].kind = "op"
  <2> TAKE k \in 1..n
  <2>1. ops[k] \in 1..Len(st)
    BY <1>1
  <2> QED
    BY <1>1, <2>1 DEF StoreOK, Sane
<1>8. ASSUME NEW k \in 1..last, st[ops[k]].effect.do # "none" PROVE k = first
  <2>1. k \in 1..n /\ st[ops[k]].kind = "op"
    BY <1>1, <1>3, <1>7, <1>8
  <2>2. ~(k < first)
    BY <1>4, <2>1
  <2>3. ~(first <= k /\ last # first)
    BY <1>4, <1>5, <2>1
  <2> QED
    BY <1>3, <1>4, <2>2, <2>3
<1>9. low \in 1..i /\ low \in Reached(st, i) /\ low <= i
  BY <1>1, <1>6
<1>10. Reached(st, i) \ Reached(st, low) = {ops[k] : k \in 1..last}
  <2>1. Reached(st, low) = Reached(st, i) \cap 1..low
    BY <1>1, <1>9, ReachedFacts
  <2>2. ASSUME NEW k \in 1..n PROVE ops[k] \in 1..low <=> ~(k \in 1..last)
    <3>1. ops[k] \in 1..i /\ low \in 1..i /\ i \in Nat /\ last \in Nat
      BY <1>1, <1>3, <1>9
    <3> HIDE DEF first, J, K
    <3>2. CASE k < last + 1
      <4>1. low < ops[k]
        BY <1>1, <1>6, <3>2 DEF Descends
      <4> QED
        BY <1>1, <1>3, <3>1, <3>2, <4>1
    <3>3. CASE k = last + 1
      <4>1. ops[k] = low
        BY <3>3
      <4> HIDE DEF low
      <4> QED
        BY <3>1, <3>3, <4>1
    <3>4. CASE last + 1 < k
      <4>1. ops[k] < low
        BY <1>1, <1>6, <3>4 DEF Descends
      <4> QED
        BY <1>1, <1>3, <3>1, <3>4, <4>1
    <3> QED
      BY <1>1, <1>3, <3>2, <3>3, <3>4
  <2>3. \A k \in 1..last : k \in 1..n
    BY <1>1, <1>3
  <2> HIDE DEF low
  <2>4. \A y : y \in Reached(st, i) \ Reached(st, low) <=>
                \E k \in 1..n : ops[k] = y /\ ~(ops[k] \in 1..low)
    BY <1>1, <2>1
  <2> QED
    BY ONLY <2>2, <2>3, <2>4
<1>11. AtMostOne(st, {ops[k] : k \in 1..last})
  BY <1>8 DEF AtMostOne
<1>12. OneStep(st, i, low)
  BY <1>9, <1>10, <1>11 DEF OneStep
<1> QED
  BY ONLY <1>3, <1>9, <1>10, <1>12 DEF st, Newest, LeavesRun, low, ops, last

(* A list of the operations of S, each once, newest first.                 *)
Lists(ids, S) ==
  /\ ids \in Seq(Nat) /\ Len(ids) \in Nat /\ DOMAIN ids = 1..Len(ids) /\ Descends(ids)
  /\ \A j, k \in 1..Len(ids) : ids[j] = ids[k] => j = k
  /\ S = {ids[k] : k \in 1..Len(ids)}

LEMMA DescentOnce ==
  ASSUME NEW s, Descends(s), Len(s) \in Nat, NEW m \in Nat, \A k \in 1..Len(s) : s[k] \in 1..m
  PROVE  \A j, k \in 1..Len(s) : s[j] = s[k] => j = k
<1> TAKE j, k \in 1..Len(s)
<1>1. s[j] \in Nat /\ s[k] \in Nat /\ j \in Nat /\ k \in Nat
  OBVIOUS
<1>2. j < k => s[k] < s[j]
  BY DEF Descends
<1>3. k < j => s[j] < s[k]
  BY DEF Descends
<1> QED
  BY <1>1, <1>2, <1>3

LEMMA LeftIs ==
  ASSUME NEW L, LogOK(L), NEW i \in 0..Len(L.store), NEW ops, ops = ChainIn(L.store, i),
         NEW last \in 1..Len(ops)
  PROVE  Lists(SubSeq(ops, 1, last), Newest(ops, last))
<1> DEFINE s == SubSeq(ops, 1, last)
<1>1. /\ ops \in Seq(1..i) /\ Len(ops) \in Nat /\ Descends(ops) /\ i \in Nat
      /\ \A k \in 1..Len(ops) : ops[k] \in 1..i
  BY StoreIsOlder, ChainIsDescent, DescentMembers DEF LogOK
<1>2. \A j, k \in 1..Len(ops) : ops[j] = ops[k] => j = k
  BY <1>1, DescentOnce
<1>3. s \in Seq(1..i) /\ Len(s) = last /\ \A k \in 1..last : s[k] = ops[k] /\ k \in 1..Len(ops)
  BY <1>1
<1>4. DOMAIN s = 1..Len(s) /\ Len(s) \in Nat /\ s \in Seq(Nat)
  <2>1. 1..i \subseteq Nat
    OBVIOUS
  <2>2. s \in Seq(Nat)
    BY ONLY <1>3, <2>1, SeqMonotone
  <2> QED
    BY <1>3, <2>2
<1> HIDE DEF s
<1>5. Descends(s)
  BY <1>1, <1>3 DEF Descends
<1> QED
  BY <1>2, <1>3, <1>4, <1>5 DEF Lists, Newest, s

LEMMA EnteredIs ==
  ASSUME NEW L, LogOK(L), NEW i \in 0..Len(L.store), NEW j \in 0..Len(L.store)
  PROVE  Lists(Only(ChainIn(L.store, i), ChainIn(L.store, j)),
               Reached(L.store, i) \ Reached(L.store, j))
<1> DEFINE st == L.store
           s == DescentIn(st, i)
           o == Apart(s, DescentIn(st, j))
<1>1. Older(st) /\ i \in 0..Len(st) /\ j \in 0..Len(st)
  BY StoreIsOlder DEF LogOK
<1>2. Only(ChainIn(st, i), ChainIn(st, j)) = o
  BY ChainIsDescent DEF Only, Apart
<1> HIDE DEF st
<1>3. /\ o \in Seq(1..i) /\ Len(o) \in 0..Len(s) /\ DOMAIN o = 1..Len(o)
      /\ \A k \in 1..Len(o) : o[k] = s[k] /\ s[k] \notin Reached(st, j)
      /\ \A k \in 1..Len(s) : k > Len(o) => s[k] \in Reached(st, j)
  BY <1>1, ApartIs
<1>4. /\ Len(s) \in Nat /\ Descends(s) /\ i \in Nat /\ \A k \in 1..Len(s) : s[k] \in 1..i
      /\ \A y : y \in Reached(st, i) <=> \E k \in 1..Len(s) : s[k] = y
  BY <1>1, DescentMembers
<1> HIDE DEF s, o
<1>5. \A k, m \in 1..Len(s) : s[k] = s[m] => k = m
  BY <1>4, DescentOnce
<1>6. Len(o) \in Nat /\ \A k \in 1..Len(o) : k \in 1..Len(s)
  BY <1>3, <1>4
<1>7. \A k \in 1..Len(s) : k \in 1..Len(o) \/ k > Len(o)
  BY <1>4, <1>6
<1>8. Reached(st, i) \ Reached(st, j) = {o[k] : k \in 1..Len(o)}
  <2>1. ASSUME NEW y \in Reached(st, i), y \notin Reached(st, j)
        PROVE  \E k \in 1..Len(o) : o[k] = y
    <3>1. PICK k \in 1..Len(s) : s[k] = y
      BY <1>4
    <3> QED
      BY <1>3, <1>7, <2>1, <3>1
  <2>2. \A k \in 1..Len(o) : o[k] \in Reached(st, i) /\ o[k] \notin Reached(st, j)
    BY <1>3, <1>4, <1>6
  <2> QED
    BY <2>1, <2>2
<1>9. \A k, m \in 1..Len(o) : o[k] = o[m] => k = m
  BY <1>3, <1>5, <1>6
<1>10. Lists(o, Reached(st, i) \ Reached(st, j))
  <2>1. 1..i \subseteq Nat
    OBVIOUS
  <2>2. o \in Seq(Nat)
    BY ONLY <1>3, <2>1, SeqMonotone
  <2>3. Descends(o)
    BY <1>3, <1>4, <1>6 DEF Descends
  <2> QED
    BY <1>3, <1>6, <1>8, <1>9, <2>2, <2>3 DEF Lists
<1> QED
  BY ONLY <1>2, <1>10 DEF st

LEMMA PointersOK ==
  ASSUME NEW M, LogOK(M), NEW back, NEW fwd, NEW S, NEW T, Lists(back, S), Lists(fwd, T),
         S \cup T \subseteq 1..Len(M.store)
  PROVE  PointersAfter(M, back, fwd) \in [Branches -> 0..Len(M.store)]
<1> DEFINE st == M.store
<1>1. /\ \A k \in 1..Len(st) : st[k].onBranch \in 0..Len(st)
      /\ Len(st) \in Nat /\ M.snap \in [Branches -> 0..Len(st)]
  BY DEF LogOK, StoreOK
<1>2. /\ DOMAIN back = 1..Len(back) /\ Len(back) \in Nat /\ DOMAIN fwd = 1..Len(fwd)
      /\ Len(fwd) \in Nat
      /\ \A k \in DOMAIN back : back[k] \in 1..Len(st)
      /\ \A k \in DOMAIN fwd : fwd[k] \in 1..Len(st)
  BY DEF Lists
<1>3. ASSUME NEW b \in Branches
      PROVE  PointersAfter(M, back, fwd)[b] \in 0..Len(st)
  <2> DEFINE left == On(st, back, b)
             entered == On(st, fwd, b)
  <2>1. left \subseteq DOMAIN back /\ entered \subseteq DOMAIN fwd
    BY DEF On
  <2>2. PointersAfter(M, back, fwd)[b] =
          IF entered # {} THEN fwd[Min(entered)]
          ELSE IF left # {} THEN st[back[Max(left)]].onBranch ELSE M.snap[b]
    BY DEF PointersAfter
  <2> HIDE DEF left, entered, st
  <2>3. CASE entered # {}
    <3>1. Min(entered) \in DOMAIN fwd
      BY <1>2, <2>1, <2>3, MinIs
    <3> QED
      BY <1>1, <1>2, <2>2, <2>3, <3>1
  <2>4. CASE entered = {} /\ left # {}
    <3>1. Max(left) \in DOMAIN back
      BY <1>2, <2>1, <2>4, MaxIs
    <3> QED
      BY <1>1, <1>2, <2>2, <2>4, <3>1
  <2>5. CASE entered = {} /\ left = {}
    BY <1>1, <2>2, <2>5
  <2> QED
    BY <2>3, <2>4, <2>5
<1> HIDE DEF st
<1>4. PointersAfter(M, back, fwd) = [b \in Branches |-> PointersAfter(M, back, fwd)[b]]
  BY DEF PointersAfter
<1> QED
  BY <1>3, <1>4 DEF st

(* A move either leaves the worktrees alone or does what one of the        *)
(* operations it passes says of one.                                       *)
Moved(L, W, R, S) ==
  R = Both(L, W) \/ \E i \in S : L.store[i].effect.do # "none" /\ Affected(L, W, R, L.store[i])

LEMMA MovedIs ==
  ASSUME NEW L, LogOK(L), NEW W, WorldOK(W), NEW S, S \subseteq 1..Len(L.store),
         NEW entered \in BOOLEAN, NEW R, MovedOver(L, W, R, S, entered)
  PROVE  Moved(L, W, R, S)
<1>1. CASE \A i \in S : L.store[i].effect.do = "none"
  BY <1>1 DEF MovedOver, Moved
<1>2. ASSUME NEW i \in S, L.store[i].effect.do # "none" PROVE Moved(L, W, R, S)
  <2>1. R = AfterEffect(Both(L, W), L.store[i], entered)
    BY <1>2 DEF MovedOver
  <2>2. StoreOK(L.store) /\ L.store \in Seq(Written) /\ i \in 1..Len(L.store)
    BY DEF LogOK, StoreOK
  <2>3. L.store[i] \in Written
    BY ONLY <2>2, ElementOfSeq
  <2>4. Sane(L.store, L.store[i])
    BY <2>2 DEF StoreOK
  <2>5. Affected(L, W, R, L.store[i])
    BY <2>1, <2>3, <2>4, EffectOK
  <2> QED
    BY <1>2, <2>5 DEF Moved
<1> QED
  BY <1>1, <1>2

(* The log and the world a move leaves before it moves its own tip.        *)
MovedTo(L, W, R, S) ==
  /\ LogOK(R.log) /\ Extends(R.log.store, L.store) /\ WorldOK(R.world)
  /\ R.world.tips = W.tips
  /\ \A v \in Trees :
       \/ R.log.ops[v] = L.ops[v] /\ R.log.ahead[v] = L.ahead[v]
       \/ \E i \in S : /\ L.store[i].effect.do # "none" /\ L.store[i].effect.tree = v
                       /\ v \in W.live /\ R.log.ahead[v] = << >>
  /\ \A v \in Trees : L.ops[v] <= R.log.ops[v]
  /\ \A v \in Trees \ R.world.live :
       /\ R.world.files[v] = W.files[v]
       /\ v \in W.live => Captures(R.log, W, v)

LEMMA MovedFacts ==
  ASSUME NEW L, LogOK(L), NEW W, WorldOK(W), NEW S, S \subseteq 1..Len(L.store),
         NEW R, Moved(L, W, R, S)
  PROVE  MovedTo(L, W, R, S)
<1>1. CASE R = Both(L, W)
  <2>1. R.log = L /\ R.world = W
    BY <1>1 DEF Both
  <2>2. Extends(L.store, L.store)
    BY WroteNothing DEF Wrote
  <2>3. \A v \in Trees : L.ops[v] \in Nat
    BY DEF LogOK
  <2> QED
    BY <2>1, <2>2, <2>3 DEF MovedTo
<1>2. ASSUME NEW i \in S, L.store[i].effect.do # "none", Affected(L, W, R, L.store[i])
      PROVE  /\ LogOK(R.log) /\ Extends(R.log.store, L.store) /\ WorldOK(R.world)
             /\ R.world.tips = W.tips
             /\ \A v \in Trees :
                  \/ R.log.ops[v] = L.ops[v] /\ R.log.ahead[v] = L.ahead[v]
                  \/ L.store[i].effect.tree = v /\ v \in W.live /\ R.log.ahead[v] = << >>
             /\ \A v \in Trees : L.ops[v] <= R.log.ops[v]
             /\ \A v \in Trees \ R.world.live :
                  /\ R.world.files[v] = W.files[v]
                  /\ v \in W.live => Captures(R.log, W, v)
  <2> DEFINE t == L.store[i].effect.tree
  <2>1. /\ WorldOK(R.world) /\ R.world.tips = W.tips
        /\ Wrote(L, R.log, t) /\ (R.log # L => t \in W.live)
        /\ \A v \in Trees \ {t} : /\ R.world.files[v] = W.files[v]
                                  /\ v \in R.world.live <=> v \in W.live
        /\ t \notin R.world.live => R.world.files[t] = W.files[t]
        /\ t \in W.live /\ t \notin R.world.live => Captures(R.log, W, t)
    BY <1>2 DEF Affected
  <2> HIDE DEF t
  <2>2. /\ LogOK(R.log) /\ Extends(R.log.store, L.store)
        /\ \A v \in Trees \ {t} : R.log.ops[v] = L.ops[v] /\ R.log.ahead[v] = L.ahead[v]
        /\ R.log = L \/ (R.log.ahead[t] = << >> /\ L.ops[t] < R.log.ops[t])
    BY <2>1 DEF Wrote
  <2>3. \A v \in Trees : L.ops[v] \in Nat /\ R.log.ops[v] \in Nat
    BY <2>2 DEF LogOK
  <2>4. \A v \in Trees : L.ops[v] <= R.log.ops[v]
    BY <2>2, <2>3
  <2>5. \A v \in Trees \ R.world.live :
          R.world.files[v] = W.files[v] /\ (v \in W.live => Captures(R.log, W, v))
    BY <2>1
  <2> QED
    BY <2>1, <2>2, <2>4, <2>5 DEF t
<1> QED
  BY <1>1, <1>2 DEF Moved, MovedTo

-----------------------------------------------------------------------------
(***************************************************************************)
(* The inductive invariant.                                                *)
(***************************************************************************)

(* The links of what a pass writes again: each to the one before it, the   *)
(* oldest to what the log has.                                             *)
Threaded(st, S, from) ==
  \A i \in S : \/ st[i].prev = i - 1 /\ i - 1 \in S
               \/ st[i].prev = from /\ \A j \in S : i <= j

Passes ==
  [step : {"none", "drop", "replay", "note"}, lines : SUBSET Nat, new : SUBSET Nat,
   todo : SUBSET Branches, seen : [Branches -> Nat], ref : Branches \cup {"log"},
   expected : Nat]

(* What a pass has still to write is written where its log ends.           *)
PassOK(w) ==
  /\ pass[w].lines \subseteq 1..Len(store) /\ pass[w].new \subseteq 1..Len(store)
  /\ pass[w].step = "drop" => /\ pass[w].ref = "log" /\ trash[w] = opsRef[w]
                              /\ Threaded(store, pass[w].new, None)
  /\ pass[w].step = "replay" =>
       /\ ahead[w] = << >>
       /\ pass[w].ref = "log" => Threaded(store, pass[w].lines, opsRef[w])

(* The edits a worktree held when it went are in an operation.             *)
Stored(w) == files[w].edit # None => \E i \in 1..Len(store) : store[i].files = files[w]

Counted == made \in Nat /\ edits \in Nat /\ trims \in Nat /\ crashes \in Nat

IInv ==
  /\ story \in Stories /\ Counted
  /\ LogOK(Log) /\ WorldOK(World)
  /\ trash \in [Trees -> 0..Len(store)]
  /\ pass \in [Trees -> Passes] /\ \A w \in Trees : PassOK(w)
  /\ \A w \in Trees \ live : Stored(w)

LEMMA LogIs ==
  /\ Log.store = store /\ Log.ops = opsRef /\ Log.snap = snap /\ Log.ahead = ahead
  /\ World.tips = tips /\ World.live = live /\ World.at = at /\ World.files = files
BY DEF Log, World

LEMMA LogBecomes ==
  ASSUME NEW M, LogOK(M), SetLog(M)
  PROVE  Log' = M
<1>1. M = [store |-> M.store, ops |-> M.ops, snap |-> M.snap, ahead |-> M.ahead]
  BY DEF LogOK
<1> QED
  BY <1>1 DEF SetLog, Log

LEMMA WorldBecomes ==
  ASSUME NEW W, WorldOK(W), SetWorld(W)
  PROVE  WorldOK(World')
<1>1. /\ W.tips \in [Branches -> Nat] /\ W.live \subseteq Trees /\ W.at \in [Trees -> Branches]
      /\ W.files \in [Trees -> Files]
  BY DEF WorldOK
<1>2. World' = [tips |-> W.tips, live |-> W.live, at |-> W.at, files |-> W.files]
  BY DEF SetWorld, World
<1> QED
  BY <1>1, <1>2 DEF WorldOK

LEMMA ThreadStays ==
  ASSUME NEW st, NEW su, Extends(su, st), NEW S, S \subseteq 1..Len(st), NEW from,
         Threaded(st, S, from)
  PROVE  Threaded(su, S, from)
BY DEF Threaded, Extends

(* The store grows, and no log is written to that a pass has locked.       *)
LockedStays ==
  /\ LogOK(Log') /\ Extends(store', store)
  /\ \A v \in Trees : Unlocked(v) \/ (opsRef'[v] = opsRef[v] /\ ahead'[v] = ahead[v])

LEMMA PassStays ==
  ASSUME IInv, LogOK(Log'), Extends(store', store), NEW v \in Trees,
         trash'[v] = trash[v], pass'[v] = pass[v],
         Unlocked(v) \/ (opsRef'[v] = opsRef[v] /\ ahead'[v] = ahead[v])
  PROVE  PassOK(v)'
<1>1. /\ PassOK(v) /\ Len(store) \in Nat /\ Len(store') \in Nat /\ Len(store) <= Len(store')
  BY LogIs DEF IInv, LogOK, StoreOK, Extends, Log
<1>2. 1..Len(store) \subseteq 1..Len(store')
  BY <1>1
<1>3. /\ pass[v].lines \subseteq 1..Len(store) /\ pass[v].new \subseteq 1..Len(store)
      /\ pass'[v].lines \subseteq 1..Len(store') /\ pass'[v].new \subseteq 1..Len(store')
  BY <1>1, <1>2 DEF PassOK
<1>4. CASE pass[v].step \notin {"drop", "replay"}
  BY <1>3, <1>4 DEF PassOK
<1>5. CASE pass[v].step \in {"drop", "replay"}
  <2>1. opsRef'[v] = opsRef[v] /\ ahead'[v] = ahead[v]
    BY <1>5 DEF Unlocked
  <2>2. pass[v].step = "drop" => Threaded(store', pass[v].new, None)
    BY <1>1, <1>3, ThreadStays DEF PassOK
  <2>3. pass[v].step = "replay" /\ pass[v].ref = "log" => Threaded(store', pass[v].lines, opsRef[v])
    BY <1>1, <1>3, ThreadStays DEF PassOK
  <2> QED
    BY <1>1, <1>3, <1>5, <2>1, <2>2, <2>3 DEF PassOK
<1> QED
  BY <1>4, <1>5

LEMMA StoredStays ==
  ASSUME IInv, Extends(store', store), NEW v \in Trees, Stored(v), files'[v] = files[v]
  PROVE  Stored(v)'
<1>1. Len(store) \in Nat /\ Len(store) <= Len(store') /\ \A k \in 1..Len(store) : store'[k] = store[k]
  BY LogIs DEF IInv, LogOK, StoreOK, Extends
<1>2. CASE files[v].edit = None
  BY <1>2 DEF Stored
<1>3. ASSUME NEW i \in 1..Len(store), store[i].files = files[v] PROVE Stored(v)'
  <2>1. i \in 1..Len(store') /\ store'[i].files = files'[v]
    BY <1>1, <1>3
  <2> QED
    BY <2>1 DEF Stored
<1> QED
  BY <1>2, <1>3 DEF Stored

(* What a verb has to leave behind.                                        *)
LEMMA VerbStep ==
  ASSUME IInv, LockedStays, WorldOK(World'), story' = story, Counted', trash' = trash,
         pass' = pass, \A v \in Trees \ live' : Stored(v)'
  PROVE  IInv'
<1>1. \A v \in Trees : PassOK(v)'
  BY PassStays DEF LockedStays
<1>2. trash' \in [Trees -> 0..Len(store')]
  <2>1. 0..Len(store) \subseteq 0..Len(store')
    BY LogIs DEF IInv, LockedStays, LogOK, StoreOK, Extends, Log
  <2> QED
    BY <2>1 DEF IInv
<1> QED
  BY <1>1, <1>2 DEF IInv, LockedStays

(* A verb that writes its own log keeps to what passes have not locked.    *)
LEMMA WroteLocked ==
  ASSUME IInv, NEW w \in Trees, Unlocked(w), NEW M, Wrote(Log, M, w), SetLog(M)
  PROVE  LockedStays
<1>1. Log' = M
  BY LogBecomes DEF Wrote
<1>2. Extends(M.store, store) /\ LogOK(M) /\ store' = M.store /\ opsRef' = M.ops /\ ahead' = M.ahead
      /\ \A v \in Trees \ {w} : M.ops[v] = opsRef[v] /\ M.ahead[v] = ahead[v]
  BY LogIs DEF Wrote, SetLog
<1> QED
  BY <1>1, <1>2 DEF LockedStays

LEMMA NothingWritten ==
  ASSUME IInv, UNCHANGED_Log PROVE LockedStays
<1>1. Log' = Log /\ store' = store /\ opsRef' = opsRef /\ ahead' = ahead
  BY DEF UNCHANGED_Log, Log
<1>2. LogOK(Log) /\ Extends(store, store)
  BY WroteNothing, LogIs DEF IInv, Wrote
<1> QED
  BY <1>1, <1>2 DEF LockedStays

LEMMA FilesStay ==
  ASSUME IInv, LockedStays, live \subseteq live', \A v \in Trees \ live' : files'[v] = files[v]
  PROVE  \A v \in Trees \ live' : Stored(v)'
<1> TAKE v \in Trees \ live'
<1>1. Stored(v) /\ v \in Trees
  BY DEF IInv
<1> QED
  BY <1>1, StoredStays DEF LockedStays

LEMMA IdleIs == Idle \in Passes /\ Idle.lines = {} /\ Idle.new = {} /\ Idle.step = "none"
BY DEF Idle, Passes, None

LEMMA InitInv == Init => IInv
<1> SUFFICES ASSUME Init PROVE IInv
  OBVIOUS
<1>1. story \in Stories /\ Counted
  BY DEF Init, Counted, Root
<1>2. story.live \subseteq Trees /\ story.branches \subseteq Branches
  BY <1>1, StoriesAssumption
<1>3. CleanAt(Root) \in Files /\ CleanAt(Root).edit = None
  BY CleanIs DEF Root
<1>4. WorldOK(World)
  <2>1. World = [tips |-> tips, live |-> live, at |-> at, files |-> files]
    BY DEF World
  <2>2. tips \in [Branches -> Nat]
    BY DEF Init, Root, None
  <2>3. live \subseteq Trees /\ at \in [Trees -> Branches]
    BY <1>2 DEF Init
  <2>4. files \in [Trees -> Files]
    BY <1>3 DEF Init
  <2> QED
    BY <2>1, <2>2, <2>3, <2>4 DEF WorldOK
<1>5. store = << >> /\ Len(store) = 0
  BY DEF Init
<1>6. StoreOK(store)
  BY <1>5 DEF StoreOK
<1>7. LogOK(Log)
  <2>1. opsRef \in [Trees -> 0..Len(store)] /\ snap \in [Branches -> 0..Len(store)]
    BY <1>5 DEF Init, None
  <2>2. ahead \in [Trees -> Seq(1..Len(store))] /\ \A w \in Trees : Len(ahead[w]) = 0
    BY DEF Init
  <2>3. \A w \in Trees : AheadOK(Log, w)
    BY <2>2, LogIs DEF AheadOK
  <2>4. Log = [store |-> store, ops |-> opsRef, snap |-> snap, ahead |-> ahead]
    BY DEF Log
  <2> QED
    BY <1>6, <2>1, <2>2, <2>3, <2>4 DEF LogOK
<1>8. trash \in [Trees -> 0..Len(store)]
  BY <1>5 DEF Init, None
<1>9. pass \in [Trees -> Passes] /\ \A w \in Trees : PassOK(w)
  BY IdleIs DEF Init, PassOK
<1>10. \A w \in Trees \ live : Stored(w)
  BY <1>3 DEF Init, Stored
<1> QED
  BY <1>1, <1>4, <1>7, <1>8, <1>9, <1>10 DEF IInv

-----------------------------------------------------------------------------
(***************************************************************************)
(* The steps that keep it: git's, and fufu's that write one log.           *)
(***************************************************************************)

(* The world once some of its parts are replaced.                          *)
LEMMA EditInv == ASSUME IInv, NEW w \in Trees, Edit(w) PROVE IInv'
<1>1. LockedStays
  BY NothingWritten DEF Edit
<1>2. edits' \in Nat /\ Counted'
  BY DEF Edit, IInv, Counted
<1>3. files \in [Trees -> Files] /\ files' = [files EXCEPT ![w].edit = edits']
  BY LogIs DEF IInv, WorldOK, Edit
<1>4. files' \in [Trees -> Files] /\ \A v \in Trees \ {w} : files'[v] = files[v]
  BY <1>2, <1>3 DEF Files
<1>5. WorldOK(World')
  <2>1. tips' = tips /\ live' = live /\ at' = at
    BY DEF Edit
  <2>2. tips \in [Branches -> Nat] /\ live \subseteq Trees /\ at \in [Trees -> Branches]
    BY LogIs DEF IInv, WorldOK
  <2>3. World' = [tips |-> tips, live |-> live, at |-> at, files |-> files']
    BY <2>1 DEF World
  <2> QED
    BY <1>4, <2>2, <2>3 DEF WorldOK
<1>6. \A v \in Trees \ live' : Stored(v)'
  BY <1>1, <1>4, FilesStay DEF Edit
<1> QED
  BY <1>1, <1>2, <1>5, <1>6, VerbStep DEF Edit

(* A commit is a new one, and what the worktree then holds.                *)
LEMMA CommitWorld ==
  ASSUME WorldOK(World), made \in Nat, NEW w \in Trees
  PROVE  /\ WorldOK(AfterCommit(w)) /\ AfterCommit(w).live = live /\ AfterCommit(w).at = at
         /\ \A v \in Trees \ {w} : AfterCommit(w).files[v] = files[v]
<1>1. /\ tips \in [Branches -> Nat] /\ live \subseteq Trees /\ at \in [Trees -> Branches]
      /\ files \in [Trees -> Files]
  BY LogIs DEF WorldOK
<1>2. made + 1 \in Nat /\ CleanAt(made + 1) \in Files
  BY CleanIs
<1> DEFINE t == [tips EXCEPT ![at[w]] = made + 1]
           c == CleanAt(made + 1)
           f == [files EXCEPT ![w] = c]
           W == AfterCommit(w)
<1>3. /\ DOMAIN W = {"tips", "live", "at", "files"}
      /\ W.tips = t /\ W.live = live /\ W.at = at /\ W.files = f
  BY DEF AfterCommit, World
<1>4. t \in [Branches -> Nat]
  BY <1>1, <1>2
<1>5. f \in [Trees -> Files] /\ \A v \in Trees \ {w} : f[v] = files[v]
  <2> HIDE DEF c
  <2> QED
    BY <1>1, <1>2 DEF c
<1> HIDE DEF t, f, W
<1> QED
  BY <1>1, <1>3, <1>4, <1>5 DEF WorldOK, W

(* A worktree on another branch, with its files.                           *)
Opened(w, b) == [World EXCEPT !.at[w] = b, !.files[w] = CleanAt(tips[b])]

LEMMA SwitchWorld ==
  ASSUME WorldOK(World), NEW w \in Trees, NEW b \in Branches, NEW W, W = Opened(w, b)
  PROVE  /\ WorldOK(W) /\ W.live = live /\ W.tips = tips
         /\ \A v \in Trees \ {w} : W.files[v] = files[v]
<1>1. /\ tips \in [Branches -> Nat] /\ live \subseteq Trees /\ at \in [Trees -> Branches]
      /\ files \in [Trees -> Files]
  BY LogIs DEF WorldOK
<1>2. CleanAt(tips[b]) \in Files
  BY <1>1, CleanIs
<1> DEFINE a == [at EXCEPT ![w] = b]
           c == CleanAt(tips[b])
           f == [files EXCEPT ![w] = c]
<1>3. /\ DOMAIN W = {"tips", "live", "at", "files"}
      /\ W.tips = tips /\ W.live = live /\ W.at = a /\ W.files = f
  BY DEF World, Opened
<1>4. a \in [Trees -> Branches]
  BY <1>1
<1>5. f \in [Trees -> Files] /\ \A v \in Trees \ {w} : f[v] = files[v]
  <2> HIDE DEF c
  <2> QED
    BY <1>1, <1>2 DEF c
<1> HIDE DEF a, f
<1> QED
  BY ONLY <1>1, <1>3, <1>4, <1>5 DEF WorldOK

LEMMA GitCommitInv == ASSUME IInv, NEW w \in Trees, GitCommit(w) PROVE IInv'
<1> DEFINE W == AfterCommit(w)
<1>1. LockedStays
  BY NothingWritten DEF GitCommit
<1>2. Counted'
  BY DEF GitCommit, IInv, Counted
<1>3. /\ WorldOK(W) /\ W.live = live /\ W.at = at
      /\ \A v \in Trees \ {w} : W.files[v] = files[v]
  BY CommitWorld DEF IInv, Counted
<1>4. SetWorld(W) /\ w \in live
  BY DEF GitCommit
<1> HIDE DEF W
<1>5. WorldOK(World') /\ live' = live /\ \A v \in Trees \ {w} : files'[v] = files[v]
  BY <1>3, <1>4, WorldBecomes DEF SetWorld
<1>6. \A v \in Trees \ live' : Stored(v)'
  BY <1>1, <1>4, <1>5, FilesStay
<1> QED
  BY <1>1, <1>2, <1>5, <1>6, VerbStep DEF GitCommit

LEMMA GitSwitchInv ==
  ASSUME IInv, NEW w \in Trees, NEW b \in Branches, GitSwitch(w, b) PROVE IInv'
<1> DEFINE W == Opened(w, b)
<1>1. LockedStays
  BY NothingWritten DEF GitSwitch
<1>2. Counted'
  BY DEF GitSwitch, IInv, Counted
<1>3. WorldOK(W) /\ W.live = live /\ \A v \in Trees \ {w} : W.files[v] = files[v]
  <2>1. WorldOK(World) /\ w \in Trees /\ b \in Branches
    BY DEF IInv
  <2> QED
    BY ONLY <2>1, SwitchWorld
<1>4. SetWorld(W) /\ w \in live
  BY DEF GitSwitch, Opened
<1> HIDE DEF W
<1>5. WorldOK(World') /\ live' = live /\ \A v \in Trees \ {w} : files'[v] = files[v]
  BY <1>3, <1>4, WorldBecomes DEF SetWorld
<1>6. \A v \in Trees \ live' : Stored(v)'
  BY <1>1, <1>4, <1>5, FilesStay
<1> QED
  BY <1>1, <1>2, <1>5, <1>6, VerbStep DEF GitSwitch

(* Any verb: the preamble, then its operation.                             *)
LEMMA VerbWrites ==
  ASSUME IInv, NEW w \in Trees, NEW W, NEW draft \in Drafts, Sane(Preamble(w).store, draft)
  PROVE  Wrote(Log, Push(Preamble(w), W, w, draft), w)
<1> DEFINE P == Preamble(w)
           M == Push(P, W, w, draft)
<1>1. LogOK(Log) /\ Wrote(Log, P, w)
  BY PreambleOK DEF IInv
<1>2. LogOK(P)
  BY <1>1 DEF Wrote
<1> HIDE DEF P
<1>3. Wrote(P, M, w)
  BY <1>2, PushOK DEF P, Pushed
<1> HIDE DEF M
<1>4. Wrote(Log, M, w)
  BY <1>1, <1>3, WroteTwice
<1> QED
  BY <1>4 DEF M, P

(* A draft that says nothing of a worktree.                                *)
LEMMA PlainWrites ==
  ASSUME IInv, NEW w \in Trees, NEW W, WorldOK(W)
  PROVE  Wrote(Log, Push(Preamble(w), W, w, Draft(W, w, "op", Observe(W, w))), w)
<1>1. Len(Preamble(w).store) \in Nat
  BY PreambleOK DEF IInv, Wrote, LogOK, StoreOK
<1>2. Observe(W, w) \in [Branches -> Nat] /\ "op" \in Kinds
  BY ObservedType DEF Kinds
<1>3. /\ Draft(W, w, "op", Observe(W, w)) \in Drafts
      /\ Sane(Preamble(w).store, Draft(W, w, "op", Observe(W, w)))
  BY <1>1, <1>2, DraftIs
<1> QED
  BY <1>3, VerbWrites

LEMMA CommitInv == ASSUME IInv, NEW w \in Trees, Commit(w) PROVE IInv'
<1> DEFINE W == AfterCommit(w)
           M == Push(Preamble(w), W, w, Draft(W, w, "op", Observe(W, w)))
<1>1. /\ WorldOK(W) /\ W.live = live /\ W.at = at
      /\ \A v \in Trees \ {w} : W.files[v] = files[v]
  BY CommitWorld DEF IInv, Counted
<1>2. SetWorld(W) /\ SetLog(M) /\ w \in live /\ Unlocked(w) /\ Counted'
  BY DEF Commit, Free, IInv, Counted
<1> HIDE DEF W
<1>3. Wrote(Log, M, w)
  BY <1>1, PlainWrites
<1> HIDE DEF M
<1>4. LockedStays
  BY <1>2, <1>3, WroteLocked
<1>5. WorldOK(World') /\ live' = live /\ \A v \in Trees \ {w} : files'[v] = files[v]
  BY <1>1, <1>2, WorldBecomes DEF SetWorld
<1>6. \A v \in Trees \ live' : Stored(v)'
  BY <1>2, <1>4, <1>5, FilesStay
<1> QED
  BY <1>2, <1>4, <1>5, <1>6, VerbStep DEF Commit

LEMMA SwitchInv ==
  ASSUME IInv, NEW w \in Trees, NEW b \in Branches, Switch(w, b) PROVE IInv'
<1> DEFINE W == Opened(w, b)
           M == Push(Preamble(w), W, w, Draft(W, w, "op", Observe(W, w)))
<1>1. WorldOK(W) /\ W.live = live /\ \A v \in Trees \ {w} : W.files[v] = files[v]
  <2>1. WorldOK(World) /\ w \in Trees /\ b \in Branches
    BY DEF IInv
  <2> QED
    BY ONLY <2>1, SwitchWorld
<1>2. SetWorld(W) /\ SetLog(M) /\ w \in live /\ Unlocked(w) /\ Counted'
  BY DEF Switch, Free, IInv, Counted, Opened
<1> HIDE DEF W
<1>3. Wrote(Log, M, w)
  BY <1>1, PlainWrites
<1> HIDE DEF M
<1>4. LockedStays
  BY <1>2, <1>3, WroteLocked
<1>5. WorldOK(World') /\ live' = live /\ \A v \in Trees \ {w} : files'[v] = files[v]
  BY <1>1, <1>2, WorldBecomes DEF SetWorld
<1>6. \A v \in Trees \ live' : Stored(v)'
  BY <1>2, <1>4, <1>5, FilesStay
<1> QED
  BY <1>2, <1>4, <1>5, <1>6, VerbStep DEF Switch

(* The worktree materialize leaves, on a branch that is made if need be.   *)
LEMMA AddWorld ==
  ASSUME WorldOK(World), NEW w \in Trees, NEW v \in Trees, NEW b \in Branches,
         NEW W, W = Stood([World EXCEPT !.tips[b] = StartsAt(w, b)], v, b, CleanAt(StartsAt(w, b)))
  PROVE  /\ WorldOK(W) /\ W.live = live \cup {v}
         /\ \A u \in Trees \ {v} : W.files[u] = files[u]
<1>1. /\ tips \in [Branches -> Nat] /\ live \subseteq Trees /\ at \in [Trees -> Branches]
      /\ files \in [Trees -> Files]
  BY LogIs DEF WorldOK
<1> DEFINE s == StartsAt(w, b)
           c == CleanAt(s)
<1>2. s \in Nat /\ c \in Files
  <2>1. s \in Nat
    BY <1>1 DEF StartsAt
  <2> QED
    BY <2>1, CleanIs
<1>3. W = Stood([World EXCEPT !.tips[b] = s], v, b, c)
  OBVIOUS
<1> HIDE DEF s, c
<1> DEFINE t == [tips EXCEPT ![b] = s]
           l == live \cup {v}
           a == [at EXCEPT ![v] = b]
           f == [files EXCEPT ![v] = c]
<1>4. /\ DOMAIN W = {"tips", "live", "at", "files"}
      /\ W.tips = t /\ W.live = l /\ W.at = a /\ W.files = f
  BY ONLY <1>3 DEF Stood, World
<1>5. /\ t \in [Branches -> Nat] /\ l \subseteq Trees /\ a \in [Trees -> Branches]
      /\ f \in [Trees -> Files] /\ \A u \in Trees \ {v} : f[u] = files[u]
  BY <1>1, <1>2
<1>6. l = live \cup {v}
  OBVIOUS
<1> HIDE DEF t, l, a, f
<1> QED
  BY ONLY <1>4, <1>5, <1>6 DEF WorldOK

(* The same log, whichever of two worktrees writes it.                     *)
LEMMA TwoLocked ==
  ASSUME IInv, NEW w \in Trees, Unlocked(w), NEW v \in Trees, Unlocked(v),
         NEW L, Wrote(Log, L, w), NEW K, Wrote(L, K, v), NEW M, K = M \/ Wrote(K, M, w), SetLog(M)
  PROVE  LockedStays
<1>1. LogOK(M) /\ LogOK(L) /\ LogOK(K)
  BY DEF Wrote
<1>2. Log' = M
  BY <1>1, LogBecomes
<1>3. Extends(L.store, store) /\ Extends(K.store, L.store) /\ Extends(M.store, K.store)
  BY WroteNothing, <1>1, LogIs DEF Wrote
<1>4. Len(store) \in Nat /\ Len(L.store) \in Nat /\ Len(K.store) \in Nat /\ Len(M.store) \in Nat
  <2>1. \A X : LogOK(X) => Len(X.store) \in Nat
    BY DEF LogOK, StoreOK
  <2>2. LogOK(Log) /\ Log.store = store
    BY LogIs DEF IInv
  <2> QED
    BY <1>1, <2>1, <2>2
<1>5. Extends(M.store, store)
  BY <1>3, <1>4 DEF Extends
<1>6. \A u \in Trees \ {v, w} : M.ops[u] = opsRef[u] /\ M.ahead[u] = ahead[u]
  BY LogIs DEF Wrote
<1>7. store' = M.store /\ opsRef' = M.ops /\ ahead' = M.ahead
  BY DEF SetLog
<1> QED
  BY <1>1, <1>2, <1>5, <1>6, <1>7 DEF LockedStays

(* The draft of a verb that says something of a worktree.                  *)
LEMMA SayingIs ==
  ASSUME NEW W, WorldOK(W), NEW w \in Trees, NEW table \in [Branches -> Nat],
         NEW effect \in Effects, effect.branch \in Branches,
         NEW st, Len(st) \in Nat, effect.capture \in 0..Len(st),
         effect.do = "remove" /\ effect.capture # None => st[effect.capture].files = effect.held,
         NEW e, e = [Draft(W, w, "op", table) EXCEPT !.effect = effect]
  PROVE  e \in Drafts /\ Sane(st, e) /\ e.branch = W.at[w]
<1> DEFINE d == Draft(W, w, "op", table)
<1>1. d \in Drafts /\ d.branch = W.at[w] /\ d.kind = "op"
  BY DraftIs DEF Kinds, Draft
<1> HIDE DEF d
<1>2. e = [d EXCEPT !.effect = effect]
  BY DEF d
<1>3. e \in Drafts /\ e.effect = effect /\ e.kind = d.kind /\ e.branch = d.branch
  BY ONLY <1>1, <1>2, effect \in Effects DEF Drafts
<1> QED
  BY <1>1, <1>3 DEF Sane

(* What ff worktree add writes: in its own log, in the new worktree's, and *)
(* in its own.                                                             *)
AddedTo(w, v) ==
  \E L, K, M : /\ Wrote(Log, L, w) /\ Wrote(L, K, v) /\ SetLog(M)
               /\ K = M \/ Wrote(K, M, w)

LEMMA AddWrites ==
  ASSUME IInv, NEW w \in Trees, NEW v \in Trees, NEW b \in Branches, NEW killed \in BOOLEAN,
         AddWorktree(w, v, b, killed)
  PROVE  AddedTo(w, v)
<1> DEFINE L == Preamble(w)
           start == StartsAt(w, b)
           W == Stood([World EXCEPT !.tips[b] = start], v, b, CleanAt(start))
           floor == Reconciled(L, W, v)
           effect == [do |-> "add", tree |-> v, branch |-> b, capture |-> None,
                      held |-> CleanAt(None)]
           e == [Draft(W, w, "op", Observe(W, w)) EXCEPT !.effect = effect]
           M == IF killed THEN floor ELSE Push(floor, W, w, e)
<1>1. WorldOK(W)
  BY AddWorld DEF IInv
<1>2. SetLog(M)
  BY DEF AddWorktree
<1>3. Wrote(Log, L, w)
  BY PreambleOK DEF IInv
<1> HIDE DEF L, W
<1>4. Wrote(L, floor, v)
  <2>1. LogOK(L)
    BY <1>3 DEF Wrote
  <2> QED
    BY <1>1, <2>1, ReconcileOK
<1>5. floor = M \/ Wrote(floor, M, w)
  <2>1. LogOK(floor) /\ Len(floor.store) \in Nat
    BY <1>4 DEF Wrote, LogOK, StoreOK
  <2>2. effect \in Effects /\ effect.branch \in Branches /\ effect.capture = 0
        /\ effect.do # "remove"
    <3>1. CleanAt(None) \in Files
      BY CleanIs DEF None
    <3> DEFINE c == CleanAt(None)
    <3> HIDE DEF c
    <3> QED
      BY <3>1 DEF Effects, None, c
  <2>3. Observe(W, w) \in [Branches -> Nat]
    BY <1>1, ObservedType
  <2> HIDE DEF floor, effect
  <2>4. e \in Drafts /\ Sane(floor.store, e)
    BY <1>1, <2>1, <2>2, <2>3, SayingIs DEF None
  <2> HIDE DEF e
  <2>5. Wrote(floor, Push(floor, W, w, e), w)
    BY <2>1, <2>4, PushOK DEF Pushed
  <2> QED
    BY <2>5
<1> HIDE DEF floor, M
<1> QED
  BY <1>2, <1>3, <1>4, <1>5 DEF AddedTo

LEMMA AddWorktreeInv ==
  ASSUME IInv, NEW w \in Trees, NEW v \in Trees, NEW b \in Branches, NEW killed \in BOOLEAN,
         AddWorktree(w, v, b, killed)
  PROVE  IInv'
<1> DEFINE start == StartsAt(w, b)
           W == Stood([World EXCEPT !.tips[b] = start], v, b, CleanAt(start))
<1>1. WorldOK(W) /\ W.live = live \cup {v} /\ \A u \in Trees \ {v} : W.files[u] = files[u]
  BY AddWorld DEF IInv
<1>2. SetWorld(W) /\ Unlocked(w) /\ Unlocked(v)
  BY DEF AddWorktree, Free
<1>3. Counted'
  BY DEF AddWorktree, IInv, Counted
<1> HIDE DEF W
<1>4. LockedStays
  <2>1. AddedTo(w, v)
    BY AddWrites
  <2> QED
    BY <1>2, <2>1, TwoLocked DEF AddedTo
<1>5. WorldOK(World') /\ live' = live \cup {v} /\ \A u \in Trees \ {v} : files'[u] = files[u]
  BY <1>1, <1>2, WorldBecomes DEF SetWorld
<1>6. \A u \in Trees \ live' : Stored(u)'
  BY <1>4, <1>5, FilesStay
<1> QED
  BY <1>3, <1>4, <1>5, <1>6, VerbStep DEF AddWorktree

(* What a removal says it captured is what the worktree held.              *)
LEMMA CapturedIs ==
  ASSUME NEW L, LogOK(L), NEW v \in Trees, WorldOK(World), Captures(L, World, v)
  PROVE  LET c == L.snap[at[v]]
         IN /\ c \in 0..Len(L.store)
            /\ c = None => files[v].edit = None
            /\ c # None => c \in 1..Len(L.store) /\ L.store[c].files = files[v]
<1>1. at[v] \in Branches /\ L.snap \in [Branches -> 0..Len(L.store)] /\ Len(L.store) \in Nat
  BY LogIs DEF WorldOK, LogOK, StoreOK
<1>2. World.at[v] = at[v] /\ World.files[v] = files[v]
  BY LogIs
<1> QED
  BY <1>1, <1>2 DEF Captures, None

LEMMA RemoveWorktreeInv ==
  ASSUME IInv, NEW w \in Trees, NEW v \in Trees, NEW killed \in BOOLEAN,
         RemoveWorktree(w, v, killed)
  PROVE  IInv'
<1> DEFINE P == Preamble(w)
           gone == Retired(Both(P, World), v)
           L == Captured(P, World, v)
           c == L.snap[at[v]]
           effect == [do |-> "remove", tree |-> v, branch |-> at[v], capture |-> c,
                      held |-> files[v]]
           planned == [Observe(World, w) EXCEPT ![at[v]] = tips[at[v]]]
           e == [Draft(World, w, "op", planned) EXCEPT !.effect = effect]
           M == Push(L, World, w, e)
           W == IF killed THEN World ELSE TornDown(World, v)
<1>1. v \in live /\ Unlocked(w) /\ Unlocked(v)
  BY DEF RemoveWorktree, Free
<1>2. gone.log = L /\ gone.world = TornDown(World, v)
  <2>1. Both(P, World).log = P /\ Both(P, World).world = World /\ v \in World.live
    BY <1>1, LogIs DEF Both
  <2>2. gone = Both(L, TornDown(World, v))
    BY <2>1 DEF Retired
  <2> QED
    BY <2>2 DEF Both
<1>3. SetWorld(W) /\ SetLog(M) /\ Counted'
  BY <1>2 DEF RemoveWorktree, IInv, Counted
<1>4. Wrote(Log, P, w) /\ WorldOK(World)
  BY PreambleOK DEF IInv
<1> HIDE DEF P, gone
<1>5. Wrote(P, L, v) /\ Captures(L, World, v)
  BY <1>4, CaptureOK DEF Wrote
<1> HIDE DEF L
<1>6. /\ LogOK(L) /\ c \in 0..Len(L.store) /\ Len(L.store) \in Nat
      /\ c = None => files[v].edit = None
      /\ c # None => c \in 1..Len(L.store) /\ L.store[c].files = files[v]
  <2>1. LogOK(L)
    BY <1>5 DEF Wrote
  <2>2. Len(L.store) \in Nat
    BY <2>1 DEF LogOK, StoreOK
  <2> QED
    BY <1>4, <1>5, <2>1, <2>2, CapturedIs
<1> HIDE DEF c
<1>7. /\ tips \in [Branches -> Nat] /\ live \subseteq Trees /\ at \in [Trees -> Branches]
      /\ files \in [Trees -> Files]
  BY <1>4, LogIs DEF WorldOK
<1>8. Pushed(L, M, w, e)
  <2>1. effect \in Effects /\ effect.branch \in Branches /\ effect.capture = c
        /\ effect.held = files[v]
    BY <1>6, <1>7 DEF Effects
  <2>2. planned \in [Branches -> Nat]
    BY <1>4, <1>7, ObservedType
  <2> HIDE DEF effect, planned
  <2>3. e \in Drafts /\ Sane(L.store, e)
    BY <1>4, <1>6, <2>1, <2>2, SayingIs
  <2> HIDE DEF e
  <2> QED
    BY <1>6, <2>3, PushOK
<1>9. Wrote(L, M, w)
  BY <1>8 DEF Pushed
<1> HIDE DEF M
<1>10. LockedStays
  BY <1>1, <1>3, <1>4, <1>5, <1>9, TwoLocked
<1>11. /\ WorldOK(W) /\ W.files = files /\ (W.live = live \/ W.live = live \ {v})
  <2>1. CASE killed
    BY <1>4, <2>1, LogIs
  <2>2. CASE ~killed
    <3>1. /\ DOMAIN W = {"tips", "live", "at", "files"}
          /\ W.tips = tips /\ W.live = live \ {v} /\ W.at = at /\ W.files = files
      BY <2>2 DEF TornDown, World
    <3> HIDE DEF W
    <3> QED
      BY <1>7, <3>1 DEF WorldOK
  <2> QED
    BY <2>1, <2>2
<1> HIDE DEF W
<1>12. WorldOK(World') /\ files' = files /\ (live' = live \/ live' = live \ {v})
  BY <1>3, <1>11, WorldBecomes DEF SetWorld
<1>13. Stored(v)'
  <2>1. Extends(M.store, L.store) /\ store' = M.store
    BY <1>3, <1>9 DEF Wrote, SetLog
  <2>2. Len(M.store) \in Nat
    BY <1>9 DEF Wrote, LogOK, StoreOK
  <2>3. c # None => c \in 1..Len(store') /\ store'[c].files = files'[v]
    BY <1>6, <1>12, <2>1, <2>2 DEF Extends
  <2> QED
    BY <1>6, <1>12, <2>3 DEF Stored
<1>14. \A u \in Trees \ live' : Stored(u)'
  <2> TAKE u \in Trees \ live'
  <2>1. CASE u = v
    BY <1>13, <2>1
  <2>2. CASE u # v
    <3>1. Stored(u) /\ u \in Trees
      BY <1>12, <2>2 DEF IInv
    <3> QED
      BY <1>10, <1>12, <3>1, StoredStays DEF LockedStays
  <2> QED
    BY <2>1, <2>2
<1> QED
  BY <1>3, <1>10, <1>12, <1>14, VerbStep DEF RemoveWorktree

-----------------------------------------------------------------------------
(***************************************************************************)
(* The steps that keep it: the moves along a log.                          *)
(***************************************************************************)

(* The tips undo leaves, newest undo last, above what it stands on now.    *)
StepsDown(st, s, low) ==
  \A k \in 1..Len(s) : OneStep(st, s[k], IF k = Len(s) THEN low ELSE s[k + 1])

LEMMA AheadIs == \A L, w : AheadOK(L, w) <=> StepsDown(L.store, L.ahead[w], L.ops[w])
BY DEF AheadOK, StepsDown, Lower

LEMMA StepsStay ==
  ASSUME NEW st, StoreOK(st), NEW su, StoreOK(su), Extends(su, st),
         NEW s \in Seq(1..Len(st)), NEW low \in 0..Len(st), StepsDown(st, s, low)
  PROVE  StepsDown(su, s, low)
<1>1. Len(s) \in Nat /\ Len(st) \in Nat
  BY DEF StoreOK
<1>2. ASSUME NEW k \in 1..Len(s) PROVE OneStep(su, s[k], IF k = Len(s) THEN low ELSE s[k + 1])
  <2> DEFINE lo == IF k = Len(s) THEN low ELSE s[k + 1]
  <2>1. s[k] \in 1..Len(st) /\ (k # Len(s) => s[k + 1] \in 1..Len(st))
    <3>1. k # Len(s) => k + 1 \in 1..Len(s)
      BY <1>1
    <3> QED
      BY <3>1, ElementOfSeq
  <2>2. s[k] \in 0..Len(st) /\ lo \in 0..Len(st)
    BY <1>1, <2>1
  <2>3. OneStep(st, s[k], lo)
    BY DEF StepsDown
  <2> HIDE DEF lo
  <2>4. OneStep(su, s[k], lo)
    BY <2>2, <2>3, OneStepStays
  <2> QED
    BY <2>4 DEF lo
<1> QED
  BY <1>2 DEF StepsDown

(* What rewind is asked to do: move w's log to target, over the operations *)
(* of S, leaving undone ahead of it.                                       *)
Asked(w, L, target, back, fwd, undone, S) ==
  /\ Wrote(Log, L, w) /\ target \in 1..Len(L.store)
  /\ S \subseteq 1..Len(L.store)
  /\ \E A, B : Lists(back, A) /\ Lists(fwd, B) /\ A \cup B = S
  /\ Moved(L, World, AfterEffects(L, World, back, fwd), S)
  /\ \A i \in S : L.store[i].effect.do # "none" /\ L.store[i].effect.tree \in live =>
       Unlocked(L.store[i].effect.tree)
  /\ undone \in Seq(1..Len(L.store)) /\ StepsDown(L.store, undone, target)

(* The log rewind leaves.                                                  *)
RewoundLog(K, w, target, back, fwd, undone) ==
  [store |-> K.store, ops |-> [K.ops EXCEPT ![w] = target],
   snap |-> PointersAfter(K, back, fwd), ahead |-> [K.ahead EXCEPT ![w] = undone]]

LEMMA RewoundLogOK ==
  ASSUME NEW L, LogOK(L), NEW K, LogOK(K), Extends(K.store, L.store), NEW w \in Trees,
         NEW target \in 1..Len(L.store), NEW back, NEW fwd,
         PointersAfter(K, back, fwd) \in [Branches -> 0..Len(K.store)],
         NEW undone \in Seq(1..Len(L.store)), StepsDown(L.store, undone, target)
  PROVE  LET M == RewoundLog(K, w, target, back, fwd, undone)
         IN /\ LogOK(M) /\ M.store = K.store /\ M.ops[w] = target /\ M.ahead[w] = undone
            /\ \A v \in Trees \ {w} : M.ops[v] = K.ops[v] /\ M.ahead[v] = K.ahead[v]
<1> DEFINE M == RewoundLog(K, w, target, back, fwd, undone)
           st == K.store
           o == [K.ops EXCEPT ![w] = target]
           p == PointersAfter(K, back, fwd)
           a == [K.ahead EXCEPT ![w] = undone]
<1>1. /\ K = [store |-> st, ops |-> K.ops, snap |-> K.snap, ahead |-> K.ahead]
      /\ StoreOK(st) /\ K.ops \in [Trees -> 0..Len(st)] /\ K.ahead \in [Trees -> Seq(1..Len(st))]
      /\ \A v \in Trees : AheadOK(K, v)
  BY DEF LogOK
<1>2. Len(L.store) \in Nat /\ Len(st) \in Nat /\ Len(L.store) <= Len(st) /\ StoreOK(L.store)
  BY DEF LogOK, StoreOK, Extends
<1>3. M = [store |-> st, ops |-> o, snap |-> p, ahead |-> a]
  BY DEF RewoundLog
<1>4. target \in 0..Len(st) /\ undone \in Seq(1..Len(st)) /\ target \in 0..Len(L.store)
  <2>1. 1..Len(L.store) \subseteq 1..Len(st)
    BY <1>2
  <2>2. undone \in Seq(1..Len(st))
    BY ONLY <2>1, SeqMonotone, undone \in Seq(1..Len(L.store))
  <2> QED
    BY <1>2, <2>1, <2>2
<1>5. o \in [Trees -> 0..Len(st)] /\ a \in [Trees -> Seq(1..Len(st))]
  BY <1>1, <1>4
<1>6. StepsDown(st, undone, target)
  BY <1>1, <1>2, <1>4, StepsStay
<1>7. /\ o[w] = target /\ a[w] = undone
      /\ \A v \in Trees \ {w} : o[v] = K.ops[v] /\ a[v] = K.ahead[v]
  BY <1>1
<1> HIDE DEF M, o, a, p, st
<1>8. M.store = st /\ M.ops = o /\ M.snap = p /\ M.ahead = a
  BY <1>3
<1>9. ASSUME NEW v \in Trees PROVE AheadOK(M, v)
  <2>1. CASE v = w
    BY <1>6, <1>7, <1>8, <2>1, AheadIs
  <2>2. CASE v # w
    <3>1. StepsDown(st, K.ahead[v], K.ops[v])
      BY <1>1, AheadIs DEF st
    <3> QED
      BY <1>7, <1>8, <2>2, <3>1, AheadIs
  <2> QED
    BY <2>1, <2>2
<1>10. LogOK(M)
  <2>1. M = [store |-> M.store, ops |-> M.ops, snap |-> M.snap, ahead |-> M.ahead]
    BY <1>3, <1>8
  <2>2. p \in [Branches -> 0..Len(st)]
    BY DEF p, st
  <2> QED
    BY <1>1, <1>5, <1>8, <1>9, <2>1, <2>2 DEF LogOK
<1> QED
  BY <1>7, <1>8, <1>10 DEF M, st

(* The world rewind leaves.                                                *)
RewoundWorld(W, w, op) ==
  [W EXCEPT !.tips = [b \in Branches |-> IF b \in Movable(w, W) THEN op.table[b] ELSE tips[b]],
            !.at[w] = op.head, !.files[w] = op.files]

LEMMA RewoundWorldOK ==
  ASSUME WorldOK(World), NEW W, WorldOK(W), NEW w \in Trees, NEW op \in Written
  PROVE  LET N == RewoundWorld(W, w, op)
         IN /\ WorldOK(N) /\ N.live = W.live /\ N.files[w] = op.files
            /\ \A b \in Branches : b \notin Movable(w, W) => N.tips[b] = tips[b]
            /\ \A v \in Trees \ {w} : N.at[v] = W.at[v] /\ N.files[v] = W.files[v]
<1> DEFINE N == RewoundWorld(W, w, op)
           t == [b \in Branches |-> IF b \in Movable(w, W) THEN op.table[b] ELSE tips[b]]
           a == [W.at EXCEPT ![w] = op.head]
           f == [W.files EXCEPT ![w] = op.files]
<1>1. /\ DOMAIN W = {"tips", "live", "at", "files"} /\ W.live \subseteq Trees
      /\ W.at \in [Trees -> Branches] /\ W.files \in [Trees -> Files]
      /\ tips \in [Branches -> Nat]
  BY LogIs DEF WorldOK
<1>2. op.table \in [Branches -> Nat] /\ op.head \in Branches /\ op.files \in Files
  BY DEF Written
<1>3. N = [W EXCEPT !.tips = t, !.at[w] = op.head, !.files[w] = op.files]
  BY DEF RewoundWorld
<1>4. t \in [Branches -> Nat] /\ \A b \in Branches : b \notin Movable(w, W) => t[b] = tips[b]
  BY <1>1, <1>2
<1> HIDE DEF t
<1>5. /\ DOMAIN N = {"tips", "live", "at", "files"}
      /\ N.tips = t /\ N.live = W.live /\ N.at = a /\ N.files = f
  BY ONLY <1>1, <1>3
<1>6. /\ a \in [Trees -> Branches] /\ f \in [Trees -> Files] /\ f[w] = op.files
      /\ \A v \in Trees \ {w} : a[v] = W.at[v] /\ f[v] = W.files[v]
  BY <1>1, <1>2
<1> HIDE DEF a, f, N
<1>7. /\ WorldOK(N) /\ N.live = W.live /\ N.files[w] = op.files
      /\ \A b \in Branches : b \notin Movable(w, W) => N.tips[b] = tips[b]
      /\ \A v \in Trees \ {w} : N.at[v] = W.at[v] /\ N.files[v] = W.files[v]
  BY ONLY <1>1, <1>4, <1>5, <1>6 DEF WorldOK
<1> QED
  BY ONLY <1>7 DEF N

(* What rewind leaves, in one place.                                       *)
Rewound(w, L, target, undone, R) ==
  /\ LogOK(Log') /\ store' = R.log.store /\ opsRef'[w] = target /\ ahead'[w] = undone
  /\ \A v \in Trees \ {w} : opsRef'[v] = R.log.ops[v] /\ ahead'[v] = R.log.ahead[v]
  /\ WorldOK(World') /\ live' = R.world.live /\ files'[w] = L.store[target].files
  /\ \A b \in Branches : b \notin Movable(w, R.world) => tips'[b] = tips[b]
  /\ \A v \in Trees \ {w} : at'[v] = R.world.at[v] /\ files'[v] = R.world.files[v]

LEMMA RewindIs ==
  ASSUME IInv, NEW w \in Trees, NEW L, NEW target, NEW back, NEW fwd, NEW undone, NEW S,
         Asked(w, L, target, back, fwd, undone, S), Rewind(w, L, target, back, fwd, undone)
  PROVE  Rewound(w, L, target, undone, AfterEffects(L, World, back, fwd))
<1> DEFINE R == AfterEffects(L, World, back, fwd)
           K == R.log
           W == R.world
           op == L.store[target]
           M == RewoundLog(K, w, target, back, fwd, undone)
           N == RewoundWorld(W, w, op)
<1>1. /\ LogOK(L) /\ StoreOK(L.store) /\ L.store \in Seq(Written) /\ Len(L.store) \in Nat
      /\ target \in 1..Len(L.store) /\ S \subseteq 1..Len(L.store)
  BY DEF Asked, Wrote, LogOK, StoreOK
<1>2. op \in Written
  BY ONLY <1>1, ElementOfSeq
<1>3. SetWorld(N) /\ SetLog([K EXCEPT !.ops[w] = target, !.snap = PointersAfter(K, back, fwd),
                                      !.ahead[w] = undone])
  BY DEF Rewind, RewoundWorld
<1>4. Moved(L, World, R, S) /\ WorldOK(World)
  BY DEF Asked, IInv
<1> HIDE DEF R
<1>5. LogOK(K) /\ Extends(K.store, L.store) /\ WorldOK(W)
  BY <1>1, <1>4, MovedFacts DEF MovedTo
<1> HIDE DEF K, W, op
<1>6. PointersAfter(K, back, fwd) \in [Branches -> 0..Len(K.store)]
  <2>1. PICK A, B : Lists(back, A) /\ Lists(fwd, B) /\ A \cup B = S
    BY DEF Asked
  <2>2. Len(K.store) \in Nat /\ Len(L.store) <= Len(K.store)
    BY <1>5 DEF LogOK, StoreOK, Extends
  <2>3. A \cup B \subseteq 1..Len(K.store)
    <3>1. 1..Len(L.store) \subseteq 1..Len(K.store)
      BY <1>1, <2>2
    <3> QED
      BY <1>1, <2>1, <3>1
  <2> QED
    BY <1>5, <2>1, <2>3, PointersOK
<1>7. SetLog(M)
  <2>1. K = [store |-> K.store, ops |-> K.ops, snap |-> K.snap, ahead |-> K.ahead]
    BY <1>5 DEF LogOK
  <2> DEFINE p == PointersAfter(K, back, fwd)
  <2> HIDE DEF p
  <2>2. SetLog([K EXCEPT !.ops[w] = target, !.snap = p, !.ahead[w] = undone])
    BY <1>3 DEF p
  <2> QED
    BY ONLY <2>1, <2>2 DEF SetLog, RewoundLog, p
<1>8. /\ LogOK(M) /\ M.store = K.store /\ M.ops[w] = target /\ M.ahead[w] = undone
      /\ \A v \in Trees \ {w} : M.ops[v] = K.ops[v] /\ M.ahead[v] = K.ahead[v]
  <2>1. undone \in Seq(1..Len(L.store)) /\ StepsDown(L.store, undone, target)
    BY DEF Asked
  <2>2. LogOK(L) /\ LogOK(K) /\ Extends(K.store, L.store) /\ w \in Trees
        /\ target \in 1..Len(L.store)
    BY <1>1, <1>5
  <2>3. M = RewoundLog(K, w, target, back, fwd, undone)
    BY DEF M
  <2> HIDE DEF M
  <2> QED
    BY ONLY <1>6, <2>1, <2>2, <2>3, RewoundLogOK
<1> HIDE DEF M
<1>9. Log' = M /\ store' = M.store /\ opsRef' = M.ops /\ ahead' = M.ahead
  BY <1>7, <1>8, LogBecomes DEF SetLog
<1>10. /\ WorldOK(N) /\ N.live = W.live /\ N.files[w] = op.files
       /\ \A b \in Branches : b \notin Movable(w, W) => N.tips[b] = tips[b]
       /\ \A v \in Trees \ {w} : N.at[v] = W.at[v] /\ N.files[v] = W.files[v]
  BY <1>2, <1>4, <1>5, RewoundWorldOK
<1> HIDE DEF N
<1>11. WorldOK(World') /\ tips' = N.tips /\ live' = N.live /\ at' = N.at /\ files' = N.files
  BY <1>3, <1>10, WorldBecomes DEF SetWorld
<1> QED
  BY <1>8, <1>9, <1>10, <1>11 DEF Rewound, K, W, R, op

LEMMA RewindInv ==
  ASSUME IInv, NEW w \in Trees, Unlocked(w), NEW L, NEW target, NEW back, NEW fwd, NEW undone,
         NEW S, Asked(w, L, target, back, fwd, undone, S),
         Rewind(w, L, target, back, fwd, undone)
  PROVE  IInv'
<1> DEFINE R == AfterEffects(L, World, back, fwd)
<1>1. Rewound(w, L, target, undone, R)
  BY RewindIs
<1>2. /\ story' = story /\ Counted' /\ trash' = trash /\ pass' = pass
  BY DEF Rewind, IInv, Counted
<1>3. Moved(L, World, R, S) /\ WorldOK(World) /\ S \subseteq 1..Len(L.store)
  BY DEF Asked, IInv
<1>4. /\ LogOK(L) /\ Extends(L.store, store) /\ target \in 1..Len(L.store)
      /\ \A v \in Trees \ {w} : L.ops[v] = opsRef[v] /\ L.ahead[v] = ahead[v]
  BY LogIs DEF Asked, Wrote
<1>5. \A i \in S : L.store[i].effect.do # "none" /\ L.store[i].effect.tree \in live =>
        Unlocked(L.store[i].effect.tree)
  BY DEF Asked
<1> HIDE DEF R
<1>6. /\ LogOK(R.log) /\ Extends(R.log.store, L.store)
      /\ \A v \in Trees :
           \/ R.log.ops[v] = L.ops[v] /\ R.log.ahead[v] = L.ahead[v]
           \/ \E i \in S : /\ L.store[i].effect.do # "none" /\ L.store[i].effect.tree = v
                           /\ v \in live /\ R.log.ahead[v] = << >>
      /\ \A v \in Trees \ R.world.live :
           /\ R.world.files[v] = files[v]
           /\ v \in live => Captures(R.log, World, v)
  <2>1. MovedTo(L, World, R, S)
    BY <1>3, <1>4, MovedFacts
  <2> QED
    BY <2>1, LogIs DEF MovedTo
<1>7. Len(store) \in Nat /\ Len(L.store) \in Nat /\ Len(store') \in Nat
  <2>1. \A X : LogOK(X) => Len(X.store) \in Nat
    BY DEF LogOK, StoreOK
  <2>2. LogOK(Log) /\ Log.store = store /\ LogOK(R.log) /\ store' = R.log.store
    BY <1>1, <1>6, LogIs DEF IInv, Rewound
  <2> QED
    BY <1>4, <2>1, <2>2
<1>8. Extends(store', store) /\ Extends(store', L.store)
  BY <1>1, <1>4, <1>6, <1>7 DEF Extends, Rewound
<1>9. LockedStays
  <2>1. ASSUME NEW v \in Trees, ~Unlocked(v)
        PROVE  opsRef'[v] = opsRef[v] /\ ahead'[v] = ahead[v]
    <3>1. v # w
      BY <2>1
    <3>2. R.log.ops[v] = L.ops[v] /\ R.log.ahead[v] = L.ahead[v]
      BY <1>5, <1>6, <2>1
    <3> QED
      BY <1>1, <1>4, <3>1, <3>2 DEF Rewound
  <2> QED
    BY <1>1, <1>8, <2>1 DEF LockedStays, Rewound
<1>10. ASSUME NEW v \in Trees \ live' PROVE Stored(v)'
  <2>1. CASE v = w
    <3>1. target \in 1..Len(store') /\ store'[target].files = files'[w]
      BY <1>1, <1>4, <1>7, <1>8 DEF Extends, Rewound
    <3> QED
      BY <2>1, <3>1 DEF Stored
  <2>2. CASE v # w
    <3>1. v \notin R.world.live /\ files'[v] = files[v]
      BY <1>1, <1>6, <2>2 DEF Rewound
    <3>2. CASE v \notin live
      <4>1. Stored(v)
        BY <3>2 DEF IInv
      <4> QED
        BY <1>8, <3>1, <4>1, StoredStays
    <3>3. CASE v \in live
      <4> DEFINE c == R.log.snap[at[v]]
      <4>1. Captures(R.log, World, v)
        BY <1>6, <3>1, <3>3
      <4>2. /\ c = None => files[v].edit = None
            /\ c # None => c \in 1..Len(R.log.store) /\ R.log.store[c].files = files[v]
        BY <1>3, <1>6, <4>1, CapturedIs
      <4> HIDE DEF c
      <4>3. store' = R.log.store
        BY <1>1 DEF Rewound
      <4> QED
        BY <3>1, <4>2, <4>3 DEF Stored
    <3> QED
      BY <3>2, <3>3
  <2> QED
    BY <2>1, <2>2
<1>11. WorldOK(World')
  BY <1>1 DEF Rewound
<1> QED
  BY <1>2, <1>9, <1>10, <1>11, VerbStep

LEMMA ListsNone == Lists(<< >>, {})
BY DEF Lists, Descends

(* The check for a worktree that is being written to, by its members.      *)
LEMMA BusyIs ==
  ASSUME NEW L, NEW ids, NEW S, Lists(ids, S), NEW all, all = ids, NoneBusy(L, all)
  PROVE  \A i \in S : L.store[i].effect.do # "none" /\ L.store[i].effect.tree \in live =>
           Unlocked(L.store[i].effect.tree)
BY DEF Lists, NoneBusy

LEMMA UndoAsks ==
  ASSUME IInv, NEW w \in Trees, Undo(w)
  PROVE  LET L == Preamble(w)
             ops == ChainIn(L.store, L.ops[w])
             last == RunEnd(L, ops)
             back == SubSeq(ops, 1, last)
             undone == Append(L.ahead[w], L.ops[w])
             S == Newest(ops, last)
         IN /\ Unlocked(w) /\ Rewind(w, L, ops[last + 1], back, << >>, undone)
            /\ Asked(w, L, ops[last + 1], back, << >>, undone, S)
            /\ MovedOver(L, World, AfterEffects(L, World, back, << >>), S, FALSE)
            /\ S = Reached(L.store, L.ops[w]) \ Reached(L.store, ops[last + 1])
            /\ AtMostOne(L.store, S)
<1> DEFINE L == Preamble(w)
           i == L.ops[w]
           ops == ChainIn(L.store, i)
           last == RunEnd(L, ops)
           target == ops[last + 1]
           back == SubSeq(ops, 1, last)
           a == L.ahead[w]
           undone == Append(a, i)
           S == Newest(ops, last)
           R == AfterEffects(L, World, back, << >>)
<1>1. /\ Unlocked(w) /\ Rewind(w, L, target, back, << >>, undone)
      /\ \E k \in DOMAIN ops : L.store[ops[k]].kind # "note"
      /\ last < Len(ops)
  BY DEF Undo, Free
<1>2. NoneBusy(L, back \o << >>)
  BY <1>1 DEF Rewind
<1>3. Wrote(Log, L, w) /\ WorldOK(World) /\ L.ops[w] # None
  BY PreambleOK DEF IInv
<1> HIDE DEF L
<1>4. /\ LogOK(L) /\ i \in 0..Len(L.store) /\ i # None /\ a \in Seq(1..Len(L.store))
      /\ StepsDown(L.store, a, i) /\ Len(L.store) \in Nat
  <2>1. LogOK(L)
    BY <1>3 DEF Wrote
  <2> QED
    BY <1>3, <2>1, AheadIs DEF LogOK, StoreOK
<1>15. ops = ChainIn(L.store, i) /\ last = RunEnd(L, ops)
  OBVIOUS
<1> HIDE DEF i, ops, last, a
<1>5. /\ last \in 1..Len(ops) /\ target \in 1..i /\ OneStep(L.store, i, target)
      /\ Reached(L.store, i) \ Reached(L.store, target) = S
  <2>1. HasRun(L, ops)
    BY ONLY <1>1, <1>15 DEF HasRun
  <2>2. LeavesRun(L, i, ops, last)
    BY ONLY <1>4, <1>15, <2>1, RunEndIs
  <2> QED
    BY <2>2 DEF LeavesRun
<1>6. Lists(back, S)
  BY ONLY <1>4, <1>5, <1>15, LeftIs
<1>7. target \in 1..Len(L.store) /\ i \in 1..Len(L.store)
  BY <1>4, <1>5 DEF None
<1>8. S \subseteq 1..Len(L.store)
  <2>1. StoreOK(L.store) /\ Extends(L.store, L.store)
    BY <1>4, WroteNothing DEF LogOK, Wrote
  <2>2. Reached(L.store, i) \subseteq 1..i
    BY <1>4, <2>1, ReachedStays
  <2>3. 1..i \subseteq 1..Len(L.store)
    BY <1>4, <1>7
  <2> QED
    BY <1>5, <2>2, <2>3
<1>9. AtMostOne(L.store, S)
  BY <1>5 DEF OneStep
<1> HIDE DEF S, target, back
<1>10. MovedOver(L, World, R, S, FALSE)
  BY <1>6, <1>9, EffectsAre DEF Lists
<1>11. Moved(L, World, R, S)
  BY <1>3, <1>4, <1>8, <1>10, MovedIs
<1>12. \A k \in S : L.store[k].effect.do # "none" /\ L.store[k].effect.tree \in live =>
         Unlocked(L.store[k].effect.tree)
  <2>1. back \o << >> = back
    BY <1>6 DEF Lists
  <2> QED
    BY <1>2, <1>6, <2>1, BusyIs
<1>13. undone \in Seq(1..Len(L.store)) /\ StepsDown(L.store, undone, target)
  <2>1. Len(a) \in Nat
    BY <1>4
  <2>2. /\ undone \in Seq(1..Len(L.store)) /\ Len(undone) = Len(a) + 1
        /\ undone[Len(a) + 1] = i /\ \A k \in 1..Len(a) : undone[k] = a[k]
    BY <1>4, <1>7
  <2> HIDE DEF undone
  <2>3. ASSUME NEW k \in 1..Len(undone)
        PROVE  OneStep(L.store, undone[k], IF k = Len(undone) THEN target ELSE undone[k + 1])
    <3>1. CASE k = Len(undone)
      BY <1>5, <2>2, <3>1
    <3>2. CASE k # Len(undone)
      <4>1. k \in 1..Len(a) /\ (k # Len(a) => k + 1 \in 1..Len(a))
        BY <2>1, <2>2, <3>2
      <4>2. OneStep(L.store, a[k], IF k = Len(a) THEN i ELSE a[k + 1])
        BY <1>4, <4>1 DEF StepsDown
      <4> QED
        BY <2>2, <3>2, <4>1, <4>2
    <3> QED
      BY <3>1, <3>2
  <2> QED
    BY <2>2, <2>3 DEF StepsDown
<1>14. Asked(w, L, target, back, << >>, undone, S)
  <2>1. S \cup {} = S
    OBVIOUS
  <2> HIDE DEF undone
  <2> QED
    BY <1>3, <1>6, <1>7, <1>8, <1>11, <1>12, <1>13, <2>1, ListsNone DEF Asked
<1> QED
  BY <1>1, <1>5, <1>9, <1>10, <1>14 DEF L, i, ops, last, target, back, a, S

LEMMA SeqStart ==
  ASSUME NEW T, NEW s \in Seq(T), NEW n \in 0..Len(s)
  PROVE  LET f == SubSeq(s, 1, n)
         IN f \in Seq(T) /\ Len(f) = n /\ \A k \in 1..n : f[k] = s[k]
<1> DEFINE f == SubSeq(s, 1, n)
<1>1. 1 \in Int /\ n \in Int /\ n \in Nat /\ \A m \in 1..n : s[m] \in T
  <2>1. \A m \in 1..n : m \in 1..Len(s)
    OBVIOUS
  <2> QED
    BY <2>1, ElementOfSeq
<1>2. /\ f \in Seq(T) /\ Len(f) = IF 1 <= n THEN n - 1 + 1 ELSE 0
      /\ \A m \in 1..(n - 1 + 1) : f[m] = s[1 + m - 1]
  BY <1>1, SubSeqProperties
<1> HIDE DEF f
<1>3. Len(f) = n /\ \A m \in 1..n : f[m] = s[m]
  BY <1>1, <1>2
<1> QED
  BY <1>2, <1>3 DEF f

LEMMA SeqFront ==
  ASSUME NEW T, NEW s \in Seq(T), Len(s) \in Nat \ {0}
  PROVE  LET f == SubSeq(s, 1, Len(s) - 1)
         IN f \in Seq(T) /\ Len(f) = Len(s) - 1 /\ \A k \in 1..Len(f) : f[k] = s[k]
<1> DEFINE n == Len(s) - 1
<1>1. n \in 0..Len(s)
  OBVIOUS
<1> HIDE DEF n
<1>2. LET f == SubSeq(s, 1, n)
      IN f \in Seq(T) /\ Len(f) = n /\ \A k \in 1..n : f[k] = s[k]
  BY <1>1, SeqStart
<1> QED
  BY <1>2 DEF n

LEMMA RedoAsks ==
  ASSUME IInv, NEW w \in Trees, Redo(w)
  PROVE  LET L == Preamble(w)
             a == L.ahead[w]
             target == Last(a)
             fwd == Only(ChainIn(L.store, target), ChainIn(L.store, L.ops[w]))
             S == Reached(L.store, target) \ Reached(L.store, L.ops[w])
         IN /\ Unlocked(w) /\ Rewind(w, L, target, << >>, fwd, Front(a))
            /\ Asked(w, L, target, << >>, fwd, Front(a), S)
            /\ L.ops[w] <= target
<1> DEFINE L == Preamble(w)
           i == L.ops[w]
           a == L.ahead[w]
           target == Last(a)
           fwd == Only(ChainIn(L.store, target), ChainIn(L.store, i))
           undone == Front(a)
           S == Reached(L.store, target) \ Reached(L.store, i)
           R == AfterEffects(L, World, << >>, fwd)
<1>1. /\ Unlocked(w) /\ Rewind(w, L, target, << >>, fwd, undone)
      /\ a # << >>
  BY DEF Redo, Free
<1>2. NoneBusy(L, << >> \o fwd)
  BY <1>1 DEF Rewind
<1>3. Wrote(Log, L, w) /\ WorldOK(World)
  BY PreambleOK DEF IInv
<1> HIDE DEF L
<1>4. /\ LogOK(L) /\ i \in 0..Len(L.store) /\ a \in Seq(1..Len(L.store))
      /\ StepsDown(L.store, a, i) /\ Len(L.store) \in Nat
  <2>1. LogOK(L)
    BY <1>3 DEF Wrote
  <2> QED
    BY <1>3, <2>1, AheadIs DEF LogOK, StoreOK
<1> HIDE DEF i, a
<1>5. /\ Len(a) \in Nat \ {0} /\ target = a[Len(a)] /\ target \in 1..Len(L.store)
      /\ undone \in Seq(1..Len(L.store)) /\ Len(undone) = Len(a) - 1
      /\ \A k \in 1..Len(undone) : undone[k] = a[k]
  <2>1. Len(a) \in Nat \ {0}
    BY <1>1, <1>4
  <2>2. target = a[Len(a)] /\ undone = SubSeq(a, 1, Len(a) - 1)
    BY DEF Last, Front
  <2> HIDE DEF target, undone
  <2>3. Len(a) \in 1..Len(a) /\ Len(a) - 1 \in 0..Len(a)
    BY <2>1
  <2>4. target \in 1..Len(L.store)
    BY ONLY <1>4, <2>2, <2>3, ElementOfSeq
  <2>5. /\ undone \in Seq(1..Len(L.store)) /\ Len(undone) = Len(a) - 1
        /\ \A k \in 1..Len(undone) : undone[k] = a[k]
    <3> DEFINE T == 1..Len(L.store)
    <3> HIDE DEF T
    <3>1. a \in Seq(T)
      BY <1>4 DEF T
    <3>2. /\ undone \in Seq(T) /\ Len(undone) = Len(a) - 1
          /\ \A k \in 1..Len(undone) : undone[k] = a[k]
      BY ONLY <2>1, <2>2, <3>1, SeqFront
    <3> QED
      BY <3>2 DEF T
  <2> QED
    BY <2>1, <2>2, <2>4, <2>5
<1> HIDE DEF target, undone
<1>6. OneStep(L.store, target, i)
  <2>1. Len(a) \in 1..Len(a)
    BY <1>5
  <2> QED
    BY <1>4, <1>5, <2>1 DEF StepsDown
<1>7. i <= target /\ AtMostOne(L.store, S)
  BY <1>6 DEF OneStep
<1>8. Lists(fwd, S)
  <2>1. target \in 0..Len(L.store)
    BY <1>5
  <2> QED
    BY <1>4, <2>1, EnteredIs
<1>9. S \subseteq 1..Len(L.store)
  <2>1. StoreOK(L.store) /\ Extends(L.store, L.store) /\ target \in 0..Len(L.store)
    <3>1. target \in 0..Len(L.store)
      BY <1>4, <1>5
    <3>2. StoreOK(L.store) /\ Wrote(L, L, w)
      BY <1>4, WroteNothing DEF LogOK
    <3> QED
      BY <3>1, <3>2 DEF Wrote
  <2>2. Reached(L.store, target) \subseteq 1..target
    BY <2>1, ReachedStays
  <2>3. 1..target \subseteq 1..Len(L.store)
    BY <1>4, <1>5
  <2> QED
    BY <2>2, <2>3
<1> HIDE DEF S, fwd
<1>10. MovedOver(L, World, R, S, TRUE)
  BY <1>7, <1>8, EffectsAre DEF Lists
<1>11. Moved(L, World, R, S)
  BY <1>3, <1>4, <1>9, <1>10, MovedIs
<1>12. \A k \in S : L.store[k].effect.do # "none" /\ L.store[k].effect.tree \in live =>
         Unlocked(L.store[k].effect.tree)
  <2>1. << >> \o fwd = fwd
    BY <1>8 DEF Lists
  <2> QED
    BY <1>2, <1>8, <2>1, BusyIs
<1>13. StepsDown(L.store, undone, target)
  <2>1. ASSUME NEW k \in 1..Len(undone)
        PROVE  OneStep(L.store, undone[k], IF k = Len(undone) THEN target ELSE undone[k + 1])
    <3>1. k \in 1..Len(a) /\ k # Len(a) /\ (k # Len(undone) => k + 1 \in 1..Len(undone))
          /\ (k = Len(undone) => k + 1 = Len(a))
      BY <1>5
    <3>2. OneStep(L.store, a[k], a[k + 1])
      BY <1>4, <3>1 DEF StepsDown
    <3> QED
      BY <1>5, <3>1, <3>2
  <2> QED
    BY <2>1 DEF StepsDown
<1>14. Asked(w, L, target, << >>, fwd, undone, S)
  <2>1. {} \cup S = S
    OBVIOUS
  <2> QED
    BY <1>3, <1>5, <1>8, <1>9, <1>11, <1>12, <1>13, <2>1, ListsNone DEF Asked
<1> QED
  BY <1>1, <1>7, <1>14 DEF L, i, a, target, fwd, undone, S

LEMMA UndoInv == ASSUME IInv, NEW w \in Trees, Undo(w) PROVE IInv'
BY UndoAsks, RewindInv

LEMMA RedoInv == ASSUME IInv, NEW w \in Trees, Redo(w) PROVE IInv'
BY RedoAsks, RewindInv

-----------------------------------------------------------------------------
(***************************************************************************)
(* The steps that keep it: a pass of retention.                            *)
(***************************************************************************)

(* What a step of w's pass has to leave behind.                            *)
LEMMA PassStep ==
  ASSUME IInv, NEW w \in Trees, LogOK(Log'), Extends(store', store), UNCHANGED_World,
         story' = story, Counted', pass' \in [Trees -> Passes], PassOK(w)',
         trash' \in [Trees -> 0..Len(store')],
         \A v \in Trees \ {w} : /\ trash'[v] = trash[v] /\ pass'[v] = pass[v]
                                /\ opsRef'[v] = opsRef[v] /\ ahead'[v] = ahead[v]
  PROVE  IInv'
<1>1. \A v \in Trees \ {w} : PassOK(v)'
  BY PassStays
<1>2. World' = World /\ live' = live /\ files' = files
  BY DEF UNCHANGED_World, World
<1>3. \A v \in Trees \ live' : Stored(v)'
  <2> TAKE v \in Trees \ live'
  <2>1. Stored(v) /\ v \in Trees /\ files'[v] = files[v]
    BY <1>2 DEF IInv
  <2> QED
    BY <2>1, StoredStays
<1> QED
  BY <1>1, <1>2, <1>3 DEF IInv

(* A log of which the store alone grows, or the pointers alone change.     *)
LEMMA LogGrows ==
  ASSUME IInv, StoreOK(store'), Extends(store', store), opsRef' = opsRef, ahead' = ahead,
         snap' \in [Branches -> 0..Len(store')]
  PROVE  LogOK(Log')
<1>1. /\ LogOK(Log) /\ StoreOK(store) /\ opsRef \in [Trees -> 0..Len(store)]
      /\ ahead \in [Trees -> Seq(1..Len(store))]
  BY LogIs DEF IInv, LogOK
<1>2. Len(store) \in Nat /\ Len(store') \in Nat /\ Len(store) <= Len(store')
  BY <1>1 DEF StoreOK, Extends
<1>3. 0..Len(store) \subseteq 0..Len(store') /\ 1..Len(store) \subseteq 1..Len(store')
  BY <1>2
<1>4. opsRef' \in [Trees -> 0..Len(store')]
  BY <1>1, <1>3
<1>5. ahead' \in [Trees -> Seq(1..Len(store'))]
  <2>1. \A v \in Trees : ahead[v] \in Seq(1..Len(store'))
    BY <1>1, <1>3, SeqMonotone
  <2> QED
    BY <1>1, <2>1
<1>6. Log' = [store |-> store', ops |-> opsRef', snap |-> snap', ahead |-> ahead']
  BY DEF Log
<1>7. Log'.store = store' /\ Log'.ops = opsRef' /\ Log'.snap = snap' /\ Log'.ahead = ahead'
  BY <1>6
<1>8. ASSUME NEW v \in Trees PROVE AheadOK(Log', v)
  <2>1. Log'.ops[v] = Log.ops[v] /\ Log'.ahead[v] = Log.ahead[v]
    BY <1>7, LogIs
  <2>2. StoreOK(Log'.store) /\ Extends(Log'.store, Log.store)
    BY <1>7, LogIs
  <2> QED
    BY <1>1, <2>1, <2>2, AheadStays
<1> QED
  BY <1>4, <1>5, <1>6, <1>7, <1>8 DEF LogOK

(* A log of which one chain is rewritten, nothing ahead of it.             *)
LEMMA LogRewritten ==
  ASSUME IInv, NEW w \in Trees, store' = store, NEW id \in 0..Len(store),
         opsRef' = [opsRef EXCEPT ![w] = id], ahead' = [ahead EXCEPT ![w] = << >>], snap' = snap
  PROVE  LogOK(Log')
<1>1. /\ LogOK(Log) /\ StoreOK(store) /\ opsRef \in [Trees -> 0..Len(store)]
      /\ ahead \in [Trees -> Seq(1..Len(store))] /\ snap \in [Branches -> 0..Len(store)]
      /\ \A v \in Trees : StepsDown(store, ahead[v], opsRef[v])
  BY LogIs, AheadIs DEF IInv, LogOK
<1>2. opsRef' \in [Trees -> 0..Len(store)] /\ ahead' \in [Trees -> Seq(1..Len(store))]
  BY <1>1
<1>3. Log' = [store |-> store, ops |-> opsRef', snap |-> snap, ahead |-> ahead']
  BY DEF Log
<1>4. Log'.store = store /\ Log'.ops = opsRef' /\ Log'.snap = snap /\ Log'.ahead = ahead'
  BY <1>3
<1>5. ASSUME NEW v \in Trees PROVE StepsDown(store, ahead'[v], opsRef'[v])
  <2>1. CASE v = w
    <3>1. Len(ahead'[v]) = 0
      BY <1>1, <2>1
    <3> QED
      BY <3>1 DEF StepsDown
  <2>2. CASE v # w
    BY <1>1, <2>2
  <2> QED
    BY <2>1, <2>2
<1>6. \A v \in Trees : AheadOK(Log', v)
  BY <1>4, <1>5, AheadIs
<1> QED
  BY <1>1, <1>2, <1>3, <1>4, <1>6 DEF LogOK

(* A pass that stops, leaving at most a note to write.                     *)
LEMMA PassEnds ==
  ASSUME IInv, NEW w \in Trees, NEW p, p \in {Idle, [Idle EXCEPT !.step = "note"]},
         pass' = [pass EXCEPT ![w] = p]
  PROVE  pass' \in [Trees -> Passes] /\ PassOK(w)'
<1>1. p \in Passes /\ p.lines = {} /\ p.new = {} /\ p.step \in {"none", "note"}
  BY DEF Idle, Passes, None
<1>2. pass' \in [Trees -> Passes] /\ pass'[w] = p
  BY <1>1 DEF IInv
<1> QED
  BY <1>1, <1>2 DEF PassOK

(* What a pass knows at each of its steps.                                 *)
LEMMA PassParts ==
  ASSUME IInv, NEW w \in Trees
  PROVE  /\ StoreOK(store) /\ Len(store) \in Nat /\ Extends(store, store) /\ LogOK(Log)
         /\ opsRef \in [Trees -> 0..Len(store)] /\ snap \in [Branches -> 0..Len(store)]
         /\ trash \in [Trees -> 0..Len(store)] /\ ahead \in [Trees -> Seq(1..Len(store))]
         /\ pass \in [Trees -> Passes] /\ pass[w] \in Passes /\ Counted /\ PassOK(w)
<1>1. LogOK(Log) /\ Log.store = store /\ Log.ops = opsRef /\ Log.snap = snap /\ Log.ahead = ahead
  BY LogIs DEF IInv
<1>2. /\ StoreOK(store) /\ Len(store) \in Nat
      /\ opsRef \in [Trees -> 0..Len(store)] /\ snap \in [Branches -> 0..Len(store)]
      /\ ahead \in [Trees -> Seq(1..Len(store))]
  BY <1>1 DEF LogOK, StoreOK
<1>3. Extends(store, store)
  BY <1>2 DEF Extends
<1> QED
  BY <1>1, <1>2, <1>3 DEF IInv

(* The newest of a chain, oldest first.                                    *)
LEMMA SurvivorsAre ==
  ASSUME IInv, NEW w \in Trees, NEW kept \in Nat, kept < Len(Chain(w)),
         NEW ids, ids = Reverse(SubSeq(Chain(w), 1, kept))
  PROVE  ids \in Seq(1..Len(store)) /\ Len(ids) = kept /\ DOMAIN ids = 1..kept
<1> DEFINE n == Len(store)
           c == Chain(w)
           s == SubSeq(c, 1, kept)
<1>1. /\ opsRef[w] \in 0..n /\ Older(store) /\ n \in Nat
  BY LogIs, StoreIsOlder DEF IInv, LogOK, StoreOK
<1>2. c \in Seq(1..opsRef[w]) /\ Len(c) \in Nat
  BY <1>1, ChainIsDescent, DescentMembers DEF Chain
<1>3. c \in Seq(1..n)
  <2>1. 1..opsRef[w] \subseteq 1..n
    BY <1>1
  <2> HIDE DEF c
  <2> QED
    BY ONLY <1>2, <2>1, SeqMonotone
<1> HIDE DEF c, n
<1>4. s \in Seq(1..n) /\ Len(s) = kept
  <2>1. kept \in 0..Len(c)
    BY <1>2 DEF c
  <2> QED
    BY ONLY <1>3, <2>1, SeqStart
<1> HIDE DEF s
<1>5. ids = [i \in 1..kept |-> s[kept - i + 1]]
  BY <1>4 DEF Reverse, s, c
<1>6. \A i \in 1..kept : s[kept - i + 1] \in 1..n
  <2> TAKE i \in 1..kept
  <2>1. kept - i + 1 \in 1..Len(s)
    BY <1>4
  <2> QED
    BY ONLY <1>4, <2>1, ElementOfSeq
<1>7. Len(ids) = kept /\ DOMAIN ids = 1..kept /\ \A i \in 1..kept : ids[i] \in 1..n
  BY <1>5, <1>6
<1>8. ids \in Seq(1..n)
  <2>1. ids \in [1..kept -> 1..n]
    BY <1>5, <1>6
  <2> QED
    BY <2>1, SeqDef
<1> QED
  BY <1>7, <1>8 DEF n

(* A link between survivors follows them; a link to anything else is cut.  *)
ImageIs(ids, m, old, new) ==
  \/ \E k \in 1..m : ids[k] = old /\ new = Len(store) + k
  \/ (\A k \in 1..m : ids[k] # old) /\ new = None

(* The survivors written again: the same operations, linked to each other. *)
LEMMA RelinkedIs ==
  ASSUME StoreOK(store), NEW ids \in Seq(1..Len(store)), NEW m \in Nat, Len(ids) = m,
         NEW r, r = Relinked(ids)
  PROVE  /\ r \in Seq(Written) /\ Len(r) = m
         /\ \A i \in 1..m :
              /\ r[i].prev = IF i = 1 THEN 0 ELSE Len(store) + i - 1
              /\ r[i].onBranch \in 0..(Len(store) + m)
              /\ r[i].effect = store[ids[i]].effect /\ r[i].kind = store[ids[i]].kind
              /\ r[i].branch = store[ids[i]].branch /\ r[i].born = store[ids[i]].born
              /\ ImageIs(ids, m, store[ids[i]].onBranch, r[i].onBranch)
<1> DEFINE n == Len(store)
           image(old) == IF old \in ToSet(ids) THEN n + (CHOOSE k \in DOMAIN ids : ids[k] = old)
                         ELSE None
           e(i) == [store[ids[i]] EXCEPT !.prev = IF i = 1 THEN None ELSE n + i - 1,
                                         !.onBranch = image(store[ids[i]].onBranch)]
<1>1. n \in Nat /\ DOMAIN ids = 1..m /\ store \in Seq(Written) /\ \A i \in 1..m : ids[i] \in 1..n
  BY ElementOfSeq DEF StoreOK
<1>2. \A old : image(old) \in 0..(n + m) /\ ImageIs(ids, m, old, image(old))
  <2> TAKE old
  <2>1. CASE old \in ToSet(ids)
    <3> DEFINE c == CHOOSE k \in 1..m : ids[k] = old
    <3>1. \E k \in 1..m : ids[k] = old
      BY <1>1, <2>1, ToSetIs
    <3>2. c \in 1..m /\ ids[c] = old
      BY <3>1
    <3>3. image(old) = n + c
      BY <1>1, <2>1
    <3> HIDE DEF c, image
    <3> QED
      BY <1>1, <3>2, <3>3 DEF ImageIs
  <2>2. CASE old \notin ToSet(ids)
    <3>1. \A k \in 1..m : ids[k] # old
      BY <1>1, <2>2, ToSetIs
    <3> QED
      BY <1>1, <2>2, <3>1 DEF None, ImageIs
  <2> QED
    BY <2>1, <2>2
<1>3. r = [i \in 1..m |-> e(i)]
  BY <1>1 DEF Relinked
<1> HIDE DEF image
<1>4. ASSUME NEW i \in 1..m
      PROVE  /\ e(i) \in Written
             /\ e(i).prev = IF i = 1 THEN 0 ELSE n + i - 1
             /\ e(i).onBranch \in 0..(n + m)
             /\ e(i).effect = store[ids[i]].effect /\ e(i).kind = store[ids[i]].kind
             /\ e(i).branch = store[ids[i]].branch /\ e(i).born = store[ids[i]].born
             /\ ImageIs(ids, m, store[ids[i]].onBranch, e(i).onBranch)
  <2> DEFINE old == store[ids[i]]
             p == IF i = 1 THEN None ELSE n + i - 1
             q == image(old.onBranch)
  <2>1. old \in Written
    BY ONLY <1>1, ElementOfSeq
  <2>2. /\ p \in Nat /\ q \in 0..(n + m) /\ q \in Nat /\ p = IF i = 1 THEN 0 ELSE n + i - 1
        /\ ImageIs(ids, m, old.onBranch, q)
    BY <1>1, <1>2 DEF None
  <2> HIDE DEF old, p, q
  <2>3. e(i) = [old EXCEPT !.prev = p, !.onBranch = q]
    BY DEF old, p, q
  <2> HIDE DEF e
  <2>4. /\ e(i) \in Written /\ e(i).prev = p /\ e(i).onBranch = q
        /\ e(i).effect = old.effect /\ e(i).kind = old.kind
        /\ e(i).branch = old.branch /\ e(i).born = old.born
    BY <2>1, <2>2, <2>3 DEF Written
  <2> QED
    BY <2>2, <2>4 DEF old
<1> HIDE DEF e, n
<1>5. r \in Seq(Written) /\ Len(r) = m /\ \A i \in 1..m : r[i] = e(i)
  BY <1>3, <1>4
<1>6. ASSUME NEW i \in 1..m
      PROVE  /\ r[i].prev = IF i = 1 THEN 0 ELSE n + i - 1
             /\ r[i].onBranch \in 0..(n + m)
             /\ r[i].effect = store[ids[i]].effect /\ r[i].kind = store[ids[i]].kind
             /\ r[i].branch = store[ids[i]].branch /\ r[i].born = store[ids[i]].born
             /\ ImageIs(ids, m, store[ids[i]].onBranch, r[i].onBranch)
  <2>1. r[i] = e(i)
    BY <1>5
  <2> QED
    BY <1>4, <2>1
<1>7. r \in Seq(Written) /\ Len(r) = m
  BY <1>5
<1> QED
  BY <1>6, <1>7, Zenon DEF n

LEMMA RebuiltStore ==
  ASSUME StoreOK(store), NEW ids \in Seq(1..Len(store)), NEW m \in Nat, Len(ids) = m,
         NEW su, su = store \o Relinked(ids)
  PROVE  /\ StoreOK(su) /\ Extends(su, store) /\ Len(su) = Len(store) + m
         /\ \A i \in 1..m : su[Len(store) + i].prev = IF i = 1 THEN 0 ELSE Len(store) + i - 1
         /\ \A i \in 1..m : su[Len(store) + i] = Relinked(ids)[i]
<1> DEFINE n == Len(store)
           r == Relinked(ids)
<1>1. /\ r \in Seq(Written) /\ Len(r) = m
      /\ \A i \in 1..m : /\ r[i].prev = IF i = 1 THEN 0 ELSE n + i - 1
                         /\ r[i].onBranch \in 0..(n + m)
                         /\ r[i].effect = store[ids[i]].effect /\ r[i].kind = store[ids[i]].kind
  <2>1. r \in Seq(Written) /\ Len(r) = m
    BY RelinkedIs
  <2>2. ASSUME NEW i \in 1..m
        PROVE  /\ r[i].prev = IF i = 1 THEN 0 ELSE n + i - 1
               /\ r[i].onBranch \in 0..(n + m)
               /\ r[i].effect = store[ids[i]].effect /\ r[i].kind = store[ids[i]].kind
    BY RelinkedIs
  <2> QED
    BY <2>1, <2>2
<1>2. /\ store \in Seq(Written) /\ n \in Nat
      /\ \A k \in 1..n : store[k].prev \in 0..(k - 1) /\ store[k].onBranch \in 0..n
                         /\ Sane(store, store[k])
      /\ \A i \in 1..m : ids[i] \in 1..n
  <2>1. \A i \in 1..m : ids[i] \in 1..n
    BY ONLY ids \in Seq(1..Len(store)), Len(ids) = m, ElementOfSeq
  <2> QED
    BY <2>1 DEF StoreOK
<1>3. su = store \o r
  OBVIOUS
<1> HIDE DEF r
<1>4. /\ su \in Seq(Written) /\ Len(su) = n + m
      /\ \A k \in 1..n : su[k] = store[k]
      /\ \A i \in 1..m : su[n + i] = r[i]
  <2>1. store \in Seq(Written) /\ r \in Seq(Written)
    BY <1>1, <1>2
  <2>2. /\ store \o r \in Seq(Written) /\ Len(store \o r) = Len(store) + Len(r)
        /\ \A j \in 1..(Len(store) + Len(r)) :
             (store \o r)[j] = IF j <= Len(store) THEN store[j] ELSE r[j - Len(store)]
    BY ONLY <2>1, ConcatProperties
  <2>3. Len(r) = m /\ n \in Nat /\ m \in Nat
    BY <1>1, <1>2
  <2>4. /\ su \in Seq(Written) /\ Len(su) = n + m
        /\ \A j \in 1..(n + m) : su[j] = IF j <= n THEN store[j] ELSE r[j - n]
    BY ONLY <1>3, <2>2, <2>3 DEF n
  <2> HIDE DEF n
  <2>5. ASSUME NEW k \in 1..n PROVE su[k] = store[k]
    <3>1. k \in 1..(n + m) /\ k <= n
      BY <2>3
    <3> QED
      BY <2>4, <3>1
  <2>6. ASSUME NEW i \in 1..m PROVE su[n + i] = r[i]
    <3> DEFINE j == n + i
    <3>1. j \in 1..(n + m) /\ ~(j <= n) /\ j - n = i
      BY <2>3
    <3> HIDE DEF j
    <3>2. su[j] = r[i]
      BY ONLY <2>4, <3>1
    <3> QED
      BY <3>2 DEF j
  <2> QED
    BY <2>4, <2>5, <2>6
<1>5. Extends(su, store)
  BY <1>2, <1>4 DEF Extends
<1> HIDE DEF n
<1>6. ASSUME NEW k \in 1..(n + m)
      PROVE  su[k].prev \in 0..(k - 1) /\ su[k].onBranch \in 0..(n + m) /\ Sane(su, su[k])
  <2>1. Len(su) \in Nat
    BY <1>2, <1>4
  <2>2. CASE k \in 1..n
    <3>1. Sane(store, su[k])
      BY <1>2, <1>4, <2>2
    <3>2. Sane(su, su[k])
      BY <1>5, <2>1, <3>1, SaneStays
    <3>3. su[k].prev \in 0..(k - 1) /\ su[k].onBranch \in 0..n
      BY <1>2, <1>4, <2>2
    <3>4. 0..n \subseteq 0..(n + m)
      BY <1>2
    <3> QED
      BY <3>2, <3>3, <3>4
  <2>3. CASE k \notin 1..n
    <3> DEFINE i == k - n
    <3>1. i \in 1..m /\ k = n + i
      BY <1>2, <2>3
    <3> HIDE DEF i
    <3>2. su[k] = r[i]
      BY <1>4, <3>1
    <3>3. Sane(store, store[ids[i]])
      BY <1>2, <3>1
    <3>4. Sane(store, r[i])
      BY <1>1, <3>1, <3>3 DEF Sane
    <3>5. Sane(su, su[k])
      BY <1>5, <2>1, <3>2, <3>4, SaneStays
    <3>6. r[i].prev \in 0..(k - 1) /\ r[i].onBranch \in 0..(n + m)
      <4>1. /\ r[i].prev = IF i = 1 THEN 0 ELSE n + i - 1
            /\ r[i].onBranch \in 0..(n + m)
        BY <1>1, <3>1 DEF n
      <4>2. n \in Nat /\ i \in 1..m
        BY <1>2, <3>1
      <4>3. 0 \in 0..(k - 1) /\ (i # 1 => n + i - 1 \in 0..(k - 1))
        BY ONLY <4>2, <3>1, m \in Nat
      <4> QED
        BY <4>1, <4>3
    <3> QED
      BY <3>2, <3>5, <3>6
  <2> QED
    BY <2>2, <2>3
<1>7. StoreOK(su)
  BY <1>4, <1>6 DEF StoreOK
<1>8. \A i \in 1..m : su[n + i].prev = IF i = 1 THEN 0 ELSE n + i - 1
  BY <1>1, <1>4
<1>9. \A i \in 1..m : su[n + i] = r[i]
  BY <1>4
<1>10. Len(su) = n + m
  BY <1>4
<1> QED
  BY <1>5, <1>7, <1>8, <1>9, <1>10, Zenon DEF n, r

(* What a pass writes again, linked oldest first.                          *)
LEMMA RebuiltThreaded ==
  ASSUME NEW n \in Nat, NEW m \in Nat, NEW su,
         \A i \in 1..m : su[n + i].prev = IF i = 1 THEN 0 ELSE n + i - 1
  PROVE  Threaded(su, {n + i : i \in 1..m}, None)
<1> DEFINE S == {n + i : i \in 1..m}
<1>1. SUFFICES ASSUME NEW j \in S
               PROVE  \/ su[j].prev = j - 1 /\ j - 1 \in S
                      \/ su[j].prev = None /\ \A k \in S : j <= k
  BY DEF Threaded
<1>2. PICK i \in 1..m : j = n + i
  OBVIOUS
<1>3. CASE i = 1
  <2>1. su[j].prev = None
    BY <1>2, <1>3 DEF None
  <2>2. \A k \in S : j <= k
    BY <1>2, <1>3
  <2> QED
    BY <2>1, <2>2
<1>4. CASE i # 1
  <2>1. i - 1 \in 1..m /\ n + (i - 1) = j - 1 /\ n + i - 1 = j - 1
    BY <1>2, <1>4
  <2>2. j - 1 \in S
    BY <2>1
  <2>3. su[j].prev = j - 1
    BY <1>2, <1>4, <2>1
  <2> QED
    BY <2>2, <2>3
<1> QED
  BY <1>3, <1>4

LEMMA ToReplayIs == ASSUME IInv, NEW w \in Trees PROVE PointersToReplay(w) \subseteq Branches
<1> DEFINE n == Len(store)
           c == Chain(w)
<1>1. opsRef[w] \in 0..n /\ Older(store) /\ n \in Nat /\ store \in Seq(Written)
  BY LogIs, StoreIsOlder DEF IInv, LogOK, StoreOK
<1>2. DOMAIN c = 1..Len(c) /\ \A k \in 1..Len(c) : c[k] \in 1..opsRef[w]
  BY <1>1, ChainIsDescent, DescentMembers DEF Chain
<1> HIDE DEF c
<1>3. \A k \in DOMAIN c : c[k] \in 1..n
  BY <1>1, <1>2
<1>4. \A i \in 1..n : store[i].branch \in Branches
  <2> TAKE i \in 1..n
  <2>1. store[i] \in Written
    BY <1>1, ElementOfSeq
  <2> QED
    BY <2>1 DEF Written
<1> QED
  BY <1>3, <1>4 DEF PointersToReplay, BranchesOn, c

(* What the store becomes when a pass writes the survivors again.          *)
Copied(ids, m, su) ==
  /\ StoreOK(su) /\ Extends(su, store) /\ Len(su) = Len(store) + m
  /\ \A i \in 1..m :
       LET new == su[Len(store) + i]
           old == store[ids[i]]
       IN /\ new.prev = (IF i = 1 THEN 0 ELSE Len(store) + i - 1)
          /\ new.effect = old.effect /\ new.branch = old.branch /\ new.born = old.born
          /\ ImageIs(ids, m, old.onBranch, new.onBranch)

LEMMA StartTrimCopies ==
  ASSUME IInv, NEW w \in Trees, NEW kept \in 0..story.ops, StartTrim(w, kept),
         NEW ids, ids = Reverse(SubSeq(Chain(w), 1, kept))
  PROVE  /\ kept \in Nat /\ ids \in Seq(1..Len(store)) /\ Len(ids) = kept
         /\ DOMAIN ids = 1..kept /\ Copied(ids, kept, store')
<1> DEFINE n == Len(store)
           r == Relinked(ids)
<1>1. StoreOK(store)
  BY PassParts
<1>2. kept \in Nat
  BY StoriesAssumption DEF IInv
<1>3. ids \in Seq(1..n) /\ Len(ids) = kept /\ DOMAIN ids = 1..kept
  BY <1>2, SurvivorsAre DEF StartTrim
<1>4. store' = store \o r
  BY DEF StartTrim
<1>5. \A x : x = store \o r =>
        /\ StoreOK(x) /\ Extends(x, store) /\ Len(x) = n + kept
        /\ \A i \in 1..kept : x[n + i].prev = IF i = 1 THEN 0 ELSE n + i - 1
        /\ \A i \in 1..kept : x[n + i] = r[i]
  BY ONLY <1>1, <1>2, <1>3, RebuiltStore
<1>6. \A i \in 1..kept :
        /\ r[i].effect = store[ids[i]].effect
        /\ r[i].branch = store[ids[i]].branch /\ r[i].born = store[ids[i]].born
        /\ ImageIs(ids, kept, store[ids[i]].onBranch, r[i].onBranch)
  BY ONLY <1>1, <1>2, <1>3, RelinkedIs
<1> HIDE DEF r, n
<1>7. ASSUME NEW i \in 1..kept
      PROVE  LET new == store'[n + i]
                 old == store[ids[i]]
             IN /\ new.prev = (IF i = 1 THEN 0 ELSE n + i - 1)
                /\ new.effect = old.effect /\ new.branch = old.branch /\ new.born = old.born
                /\ ImageIs(ids, kept, old.onBranch, new.onBranch)
  <2>1. store'[n + i] = r[i] /\ store'[n + i].prev = (IF i = 1 THEN 0 ELSE n + i - 1)
    BY <1>4, <1>5
  <2> QED
    BY <1>6, <2>1
<1>8. StoreOK(store') /\ Extends(store', store) /\ Len(store') = n + kept
  BY <1>4, <1>5
<1> QED
  BY <1>2, <1>3, <1>7, <1>8 DEF Copied, n

(* The store once the survivors are written again.                         *)
LEMMA StartTrimGrows ==
  ASSUME IInv, NEW w \in Trees, NEW kept \in 0..story.ops, StartTrim(w, kept)
  PROVE  LET n == Len(store)
         IN /\ kept \in Nat /\ DOMAIN Reverse(SubSeq(Chain(w), 1, kept)) = 1..kept
            /\ StoreOK(store') /\ Extends(store', store) /\ Len(store') = n + kept
            /\ \A i \in 1..kept : store'[n + i].prev = IF i = 1 THEN 0 ELSE n + i - 1
<1> DEFINE ids == Reverse(SubSeq(Chain(w), 1, kept))
<1>1. kept \in Nat /\ DOMAIN ids = 1..kept /\ Copied(ids, kept, store')
  BY StartTrimCopies
<1> HIDE DEF ids
<1>2. /\ StoreOK(store') /\ Extends(store', store) /\ Len(store') = Len(store) + kept
      /\ \A i \in 1..kept : store'[Len(store) + i].prev = IF i = 1 THEN 0 ELSE Len(store) + i - 1
  BY <1>1 DEF Copied
<1> QED
  BY <1>1, <1>2 DEF ids

LEMMA StartTrimInv ==
  ASSUME IInv, NEW w \in Trees, NEW kept \in 0..story.ops, StartTrim(w, kept) PROVE IInv'
<1> DEFINE n == Len(store)
           ids == Reverse(SubSeq(Chain(w), 1, kept))
           new == {n + i : i \in DOMAIN ids}
           p == [step |-> "drop", ref |-> "log", lines |-> {}, todo |-> PointersToReplay(w),
                 new |-> new, seen |-> snap, expected |-> None]
<1>1. /\ StoreOK(store) /\ n \in Nat /\ snap \in [Branches -> 0..n] /\ opsRef \in [Trees -> 0..n]
      /\ trash \in [Trees -> 0..n] /\ pass \in [Trees -> Passes] /\ Counted
  BY PassParts
<1>2. kept \in Nat /\ DOMAIN ids = 1..kept
  BY StartTrimGrows
<1>3. /\ StoreOK(store') /\ Extends(store', store) /\ Len(store') = n + kept
      /\ \A i \in 1..kept : store'[n + i].prev = IF i = 1 THEN 0 ELSE n + i - 1
  BY StartTrimGrows
<1>4. /\ trash' = Trashed(w) /\ trims' = trims + 1
      /\ pass' = [pass EXCEPT ![w] = p]
      /\ UNCHANGED_World /\ UNCHANGED <<story, made, edits, opsRef, snap, ahead, crashes>>
  BY DEF StartTrim
<1> HIDE DEF ids
<1>5. new = {n + i : i \in 1..kept}
  BY <1>2
<1>6. new \subseteq 1..Len(store') /\ new \subseteq Nat
  <2>1. \A i \in 1..kept : n + i \in 1..(n + kept) /\ n + i \in Nat
    BY <1>1, <1>2
  <2> QED
    BY <1>3, <1>5, <2>1
<1>7. Threaded(store', new, None)
  BY <1>1, <1>2, <1>3, <1>5, RebuiltThreaded
<1>8. 0..n \subseteq 0..Len(store')
  BY <1>1, <1>2, <1>3
<1> HIDE DEF n, new
<1>9. LogOK(Log')
  <2>1. snap' \in [Branches -> 0..Len(store')]
    BY <1>1, <1>4, <1>8
  <2> QED
    BY <1>4, <1>3, <2>1, LogGrows
<1>10. p \in Passes
  <2>1. snap \in [Branches -> Nat]
    BY <1>1
  <2> QED
    BY <1>6, <2>1, ToReplayIs DEF Passes, None
<1>11. pass' \in [Trees -> Passes] /\ pass'[w] = p
  BY <1>1, <1>4, <1>10
<1>12. trash' \in [Trees -> 0..Len(store')] /\ trash'[w] = opsRef'[w]
  BY <1>1, <1>4, <1>8 DEF Trashed
<1>13. PassOK(w)'
  BY <1>6, <1>7, <1>11, <1>12 DEF PassOK
<1>14. \A v \in Trees \ {w} : /\ trash'[v] = trash[v] /\ pass'[v] = pass[v]
                              /\ opsRef'[v] = opsRef[v] /\ ahead'[v] = ahead[v]
  BY <1>1, <1>4 DEF Trashed
<1>15. Counted'
  BY <1>1, <1>4 DEF Counted
<1> QED
  BY <1>3, <1>4, <1>9, <1>11, <1>12, <1>13, <1>14, <1>15, PassStep

LEMMA DropLogInv == ASSUME IInv, NEW w \in Trees, DropLog(w) PROVE IInv'
<1> DEFINE p == [pass[w] EXCEPT !.step = "replay", !.lines = pass[w].new]
<1>1. /\ pass[w].step = "drop" /\ opsRef' = [opsRef EXCEPT ![w] = None]
      /\ ahead' = [ahead EXCEPT ![w] = << >>] /\ UNCHANGED_World
      /\ UNCHANGED <<story, made, edits, store, snap, trash, trims, crashes>>
  BY DEF DropLog
<1>2. pass' = [pass EXCEPT ![w].step = "replay", ![w].lines = pass[w].new]
  BY DEF DropLog
<1>3. p \in Passes /\ p.step = "replay" /\ p.lines = pass[w].new /\ p.new = pass[w].new
  <2>1. pass[w] \in Passes
    BY PassParts
  <2> QED
    BY <2>1 DEF Passes
<1>4. pass' = [pass EXCEPT ![w] = p]
  BY <1>2, PassParts
<1>5. pass' \in [Trees -> Passes] /\ pass'[w] = p
  BY <1>3, <1>4, PassParts
<1>6. LogOK(Log')
  <2>1. None \in 0..Len(store)
    BY PassParts DEF None
  <2> QED
    BY <1>1, <2>1, LogRewritten
<1>7. ahead'[w] = << >> /\ opsRef'[w] = None /\ store' = store
  BY <1>1, PassParts
<1>8. Threaded(store, pass[w].new, None) /\ pass[w].new \subseteq 1..Len(store)
  BY <1>1, PassParts DEF PassOK
<1> HIDE DEF p
<1>9. PassOK(w)'
  BY <1>3, <1>5, <1>7, <1>8 DEF PassOK
<1>10. Counted' /\ Extends(store', store) /\ trash' \in [Trees -> 0..Len(store')]
  BY <1>1, PassParts DEF Counted
<1>11. \A v \in Trees \ {w} : /\ trash'[v] = trash[v] /\ pass'[v] = pass[v]
                              /\ opsRef'[v] = opsRef[v] /\ ahead'[v] = ahead[v]
  BY <1>1, <1>4, PassParts
<1> QED
  BY <1>1, <1>5, <1>6, <1>9, <1>10, <1>11, PassStep

(* A pass ends at a pointer that has moved.                                *)
LEMMA StoppedInv ==
  ASSUME IInv, NEW w \in Trees, pass' = [pass EXCEPT ![w] = Idle], UNCHANGED_Log, UNCHANGED_World,
         UNCHANGED <<story, trash>>, Counted'
  PROVE  IInv'
<1>1. /\ store' = store /\ opsRef' = opsRef /\ ahead' = ahead /\ snap' = snap
      /\ story' = story /\ trash' = trash
  BY DEF UNCHANGED_Log
<1>2. LogOK(Log')
  BY <1>1, PassParts, LogGrows
<1>3. pass' \in [Trees -> Passes] /\ PassOK(w)'
  BY PassEnds
<1>4. Extends(store', store) /\ trash' \in [Trees -> 0..Len(store')]
  BY <1>1, PassParts
<1>5. \A v \in Trees \ {w} : /\ trash'[v] = trash[v] /\ pass'[v] = pass[v]
                             /\ opsRef'[v] = opsRef[v] /\ ahead'[v] = ahead[v]
  BY <1>1, PassParts
<1> QED
  BY <1>1, <1>2, <1>3, <1>4, <1>5, PassStep

LEMMA CrashInv == ASSUME IInv, NEW w \in Trees, Crash(w) PROVE IInv'
<1>1. Counted'
  BY PassParts DEF Crash, Counted
<1> QED
  BY <1>1, StoppedInv DEF Crash

LEMMA DropPointerInv ==
  ASSUME IInv, NEW w \in Trees, NEW b \in Branches, DropPointer(w, b) PROVE IInv'
<1> DEFINE lines == {i \in pass[w].new : store[i].branch = b}
           p == [pass[w] EXCEPT !.todo = @ \ {b}, !.ref = b, !.lines = lines, !.expected = None]
<1>1. /\ pass[w].step = "replay" /\ UNCHANGED_World
      /\ UNCHANGED <<story, made, edits, store, opsRef, ahead, trash, trims, crashes>>
  BY DEF DropPointer
<1>2. Counted'
  BY <1>1, PassParts DEF Counted
<1>3. CASE snap[b] # pass[w].seen[b]
  <2>1. pass' = [pass EXCEPT ![w] = Idle] /\ UNCHANGED snap
    BY <1>3 DEF DropPointer
  <2> QED
    BY <1>1, <1>2, <2>1, StoppedInv DEF UNCHANGED_Log
<1>4. CASE snap[b] = pass[w].seen[b]
  <2>1. /\ snap' = [snap EXCEPT ![b] = None]
        /\ pass' = [pass EXCEPT ![w].todo = @ \ {b}, ![w].ref = b, ![w].lines = lines,
                                ![w].expected = None]
    BY <1>4 DEF DropPointer
  <2>2. pass' = [pass EXCEPT ![w] = p]
    BY <2>1, PassParts
  <2>3. pass[w].new \subseteq Nat /\ pass[w] \in Passes
    BY PassParts DEF Passes
  <2>4. lines \subseteq pass[w].new
    OBVIOUS
  <2> HIDE DEF lines
  <2>5. p \in Passes /\ p.step = "replay" /\ p.ref = b /\ p.lines = lines /\ p.new = pass[w].new
    BY <1>1, <2>3, <2>4 DEF Passes, None
  <2>6. pass' \in [Trees -> Passes] /\ pass'[w] = p
    BY <2>2, <2>5, PassParts
  <2>7. LogOK(Log')
    <3>1. snap' \in [Branches -> 0..Len(store')]
      BY <1>1, <2>1, PassParts DEF None
    <3> QED
      BY <1>1, <3>1, PassParts, LogGrows
  <2>8. /\ pass[w].new \subseteq 1..Len(store) /\ ahead'[w] = << >> /\ store' = store
    BY <1>1, PassParts DEF PassOK
  <2> HIDE DEF p
  <2>9. PassOK(w)'
    BY <2>4, <2>5, <2>6, <2>8, BranchesAssumption DEF PassOK
  <2>10. Extends(store', store) /\ trash' \in [Trees -> 0..Len(store')]
    BY <1>1, PassParts
  <2>11. \A v \in Trees \ {w} : /\ trash'[v] = trash[v] /\ pass'[v] = pass[v]
                                /\ opsRef'[v] = opsRef[v] /\ ahead'[v] = ahead[v]
    BY <1>1, <2>2, PassParts
  <2> QED
    BY <1>1, <1>2, <2>6, <2>7, <2>9, <2>10, <2>11, PassStep
<1> QED
  BY <1>3, <1>4

LEMMA ReleaseLockInv == ASSUME IInv, NEW w \in Trees, ReleaseLock(w) PROVE IInv'
<1>1. UNCHANGED_Log /\ UNCHANGED_World /\ UNCHANGED <<story, made, edits, trash, trims, crashes>>
  BY DEF ReleaseLock
<1>2. store' = store /\ opsRef' = opsRef /\ ahead' = ahead /\ snap' = snap
  BY <1>1 DEF UNCHANGED_Log
<1>3. PICK p \in {Idle, [Idle EXCEPT !.step = "note"]} : pass' = [pass EXCEPT ![w] = p]
  BY DEF ReleaseLock
<1>4. pass' \in [Trees -> Passes] /\ PassOK(w)'
  BY <1>3, PassEnds
<1>5. LogOK(Log')
  BY <1>2, PassParts, LogGrows
<1>6. Counted' /\ Extends(store', store) /\ trash' \in [Trees -> 0..Len(store')]
  BY <1>1, <1>2, PassParts DEF Counted
<1>7. \A v \in Trees \ {w} : /\ trash'[v] = trash[v] /\ pass'[v] = pass[v]
                             /\ opsRef'[v] = opsRef[v] /\ ahead'[v] = ahead[v]
  BY <1>1, <1>2, <1>3, PassParts
<1> QED
  BY <1>1, <1>4, <1>5, <1>6, <1>7, PassStep

(* Replaying the oldest line leaves the rest linked to it.                 *)
LEMMA ThreadNext ==
  ASSUME NEW st, NEW n \in Nat, NEW S, S \subseteq 1..n, S # {}, NEW from, Threaded(st, S, from)
  PROVE  Min(S) \in S /\ st[Min(S)].prev = from /\ Threaded(st, S \ {Min(S)}, Min(S))
<1> DEFINE id == Min(S)
<1>1. id \in S /\ \A k \in S : id <= k
  BY MinIs
<1> HIDE DEF id
<1>2. S \subseteq Nat
  OBVIOUS
<1>3. st[id].prev = from
  <2>1. ~(id - 1 \in S)
    BY <1>1, <1>2
  <2> QED
    BY <1>1, <2>1 DEF Threaded
<1>4. ASSUME NEW i \in S \ {id}
      PROVE  \/ st[i].prev = i - 1 /\ i - 1 \in S \ {id}
             \/ st[i].prev = id /\ \A j \in S \ {id} : i <= j
  <2>1. id < i
    BY <1>1, <1>2
  <2>2. st[i].prev = i - 1 /\ i - 1 \in S
    BY <1>1, <1>2, <2>1 DEF Threaded
  <2>3. CASE i - 1 = id
    BY <1>1, <1>2, <2>2, <2>3
  <2>4. CASE i - 1 # id
    BY <2>2, <2>4
  <2> QED
    BY <2>3, <2>4
<1>5. Threaded(st, S \ {id}, id)
  BY <1>4 DEF Threaded
<1> QED
  BY <1>1, <1>3, <1>5 DEF id

LEMMA ReplayLineInv == ASSUME IInv, NEW w \in Trees, ReplayLine(w) PROVE IInv'
<1> DEFINE p == pass[w]
           id == Min(p.lines)
           taken == p.ref # "log" /\ snap[p.ref] # p.expected
           q == [pass[w] EXCEPT !.lines = @ \ {id}, !.expected = id]
<1>1. /\ p.step = "replay" /\ p.lines # {} /\ UNCHANGED_World
      /\ UNCHANGED <<story, made, edits, store, ahead, trash, trims, crashes>>
  BY DEF ReplayLine
<1>2. Counted'
  BY <1>1, PassParts DEF Counted
<1>3. CASE taken
  <2>1. pass' = [pass EXCEPT ![w] = Idle] /\ UNCHANGED <<opsRef, snap>>
    BY <1>3 DEF ReplayLine
  <2> QED
    BY <1>1, <1>2, <2>1, StoppedInv DEF UNCHANGED_Log
<1>4. CASE ~taken
  <2>1. /\ pass' = [pass EXCEPT ![w].lines = @ \ {id}, ![w].expected = id]
        /\ opsRef' = IF p.ref = "log" THEN [opsRef EXCEPT ![w] = id] ELSE opsRef
        /\ snap' = IF p.ref = "log" THEN snap ELSE [snap EXCEPT ![p.ref] = id]
    BY <1>4 DEF ReplayLine
  <2>2. pass' = [pass EXCEPT ![w] = q]
    BY <2>1, PassParts
  <2>3. /\ p.lines \subseteq 1..Len(store) /\ p.lines \subseteq Nat /\ p.new \subseteq 1..Len(store)
        /\ ahead[w] = << >>
        /\ p.ref = "log" => Threaded(store, p.lines, opsRef[w])
        /\ p \in Passes /\ Len(store) \in Nat
    BY <1>1, PassParts DEF PassOK, Passes
  <2>4. id \in p.lines
    BY <1>1, <2>3, MinIs
  <2>5. p.ref = "log" => Threaded(store, p.lines \ {id}, id)
    <3> DEFINE S == p.lines
    <3>1. S \subseteq 1..Len(store) /\ S # {} /\ Len(store) \in Nat
      BY <1>1, <2>3
    <3> HIDE DEF S
    <3>2. \A from : Threaded(store, S, from) => Threaded(store, S \ {Min(S)}, Min(S))
      BY ONLY <3>1, ThreadNext
    <3> QED
      BY <2>3, <3>2 DEF S
  <2> HIDE DEF id
  <2>6. /\ q \in Passes /\ q.step = "replay" /\ q.ref = p.ref /\ q.lines = p.lines \ {id}
        /\ q.new = p.new
    BY <1>1, <2>3, <2>4 DEF Passes
  <2>7. pass' \in [Trees -> Passes] /\ pass'[w] = q
    BY <2>2, <2>6, PassParts
  <2>8. id \in 0..Len(store) /\ q.lines \subseteq 1..Len(store)
    BY <2>3, <2>4, <2>6
  <2> HIDE DEF q
  <2>9. LogOK(Log')
    <3>1. CASE p.ref = "log"
      <4>1. ahead' = [ahead EXCEPT ![w] = << >>]
        BY <1>1, <2>3, PassParts
      <4> QED
        BY <1>1, <2>1, <2>8, <3>1, <4>1, LogRewritten
    <3>2. CASE p.ref # "log"
      <4>1. snap' \in [Branches -> 0..Len(store')]
        BY <1>1, <2>1, <2>8, <3>2, PassParts
      <4> QED
        BY <1>1, <2>1, <3>2, <4>1, PassParts, LogGrows
    <3> QED
      BY <3>1, <3>2
  <2>10. p.ref = "log" => opsRef'[w] = id
    BY <2>1, PassParts
  <2>11. PassOK(w)'
    <3>1. ahead'[w] = << >> /\ store' = store
      BY <1>1, <2>3
    <3> QED
      BY <2>3, <2>5, <2>6, <2>7, <2>8, <2>10, <3>1 DEF PassOK
  <2>12. Extends(store', store) /\ trash' \in [Trees -> 0..Len(store')]
    BY <1>1, PassParts
  <2>13. \A v \in Trees \ {w} : /\ trash'[v] = trash[v] /\ pass'[v] = pass[v]
                                /\ opsRef'[v] = opsRef[v] /\ ahead'[v] = ahead[v]
    BY <1>1, <2>1, <2>2, PassParts
  <2> QED
    BY <1>1, <1>2, <2>7, <2>9, <2>11, <2>12, <2>13, PassStep
<1> QED
  BY <1>3, <1>4

LEMMA NoteWritten ==
  ASSUME IInv, NEW w \in Trees, AppendNote(w)
  PROVE  Pushed(Log, Log', w, Draft(World, w, "note", Observe(World, w)))
<1> DEFINE d == Draft(World, w, "note", Observe(World, w))
           M == Push(Log, World, w, d)
<1>1. /\ LogOK(Log) /\ WorldOK(World) /\ Len(Log.store) \in Nat
  BY DEF IInv, LogOK, StoreOK
<1>2. Observe(World, w) \in [Branches -> Nat] /\ "note" \in Kinds
  BY <1>1, ObservedType DEF Kinds
<1>3. d \in Drafts /\ Sane(Log.store, d)
  BY <1>1, <1>2, DraftIs
<1> HIDE DEF d
<1>4. Pushed(Log, M, w, d)
  BY <1>1, <1>3, PushOK
<1>5. SetLog(M)
  BY DEF AppendNote, d
<1> HIDE DEF M
<1>6. LogOK(M)
  BY <1>4 DEF Pushed, Wrote
<1>7. Log' = M
  BY <1>5, <1>6, LogBecomes
<1> QED
  BY <1>4, <1>7 DEF d

LEMMA AppendNoteInv == ASSUME IInv, NEW w \in Trees, AppendNote(w) PROVE IInv'
<1>1. /\ pass' = [pass EXCEPT ![w] = Idle] /\ UNCHANGED_World
      /\ UNCHANGED <<story, made, edits, trash, trims, crashes>>
  BY DEF AppendNote
<1>2. Wrote(Log, Log', w)
  BY NoteWritten DEF Pushed
<1>3. /\ Log'.store = store' /\ Log'.ops = opsRef' /\ Log'.snap = snap' /\ Log'.ahead = ahead'
  BY DEF Log
<1>4. /\ LogOK(Log') /\ Extends(store', store)
      /\ \A v \in Trees \ {w} : opsRef'[v] = opsRef[v] /\ ahead'[v] = ahead[v]
  BY <1>2, <1>3, LogIs DEF Wrote
<1>5. pass' \in [Trees -> Passes] /\ PassOK(w)'
  BY <1>1, PassEnds
<1>6. trash' \in [Trees -> 0..Len(store')]
  <2>1. Len(store) <= Len(store') /\ Len(store') \in Nat
    BY <1>3, <1>4 DEF Extends, LogOK, StoreOK
  <2>2. 0..Len(store) \subseteq 0..Len(store')
    BY <2>1, PassParts
  <2> QED
    BY <1>1, <2>2, PassParts
<1>7. Counted' /\ \A v \in Trees \ {w} : trash'[v] = trash[v] /\ pass'[v] = pass[v]
  BY <1>1, PassParts DEF Counted
<1> QED
  BY <1>1, <1>4, <1>5, <1>6, <1>7, PassStep

LEMMA StutterInv == ASSUME IInv, UNCHANGED vars PROVE IInv'
<1>1. Log' = Log /\ World' = World /\ store' = store
  BY DEF vars, Log, World
<1>2. \A v \in Trees : PassOK(v)' = PassOK(v) /\ Stored(v)' = Stored(v)
  BY DEF vars, PassOK, Stored
<1>3. /\ story' = story /\ live' = live /\ trash' = trash /\ pass' = pass /\ Counted' = Counted
  BY DEF vars, Counted
<1> QED
  BY <1>1, <1>2, <1>3 DEF IInv

LEMMA StepInv == ASSUME IInv, [Next]_vars PROVE IInv'
<1>1. ASSUME NEW w \in Trees, Edit(w) \/ GitCommit(w) \/ Commit(w) \/ Undo(w) \/ Redo(w)
      PROVE  IInv'
  BY <1>1, EditInv, GitCommitInv, CommitInv, UndoInv, RedoInv
<1>2. ASSUME NEW w \in Trees, NEW b \in Branches, GitSwitch(w, b) \/ Switch(w, b)
      PROVE  IInv'
  BY <1>2, GitSwitchInv, SwitchInv
<1>3. ASSUME NEW w \in Trees, NEW v \in Trees, NEW b \in Branches, NEW killed \in BOOLEAN,
             AddWorktree(w, v, b, killed)
      PROVE  IInv'
  BY <1>3, AddWorktreeInv
<1>4. ASSUME NEW w \in Trees, NEW v \in Trees, NEW killed \in BOOLEAN, RemoveWorktree(w, v, killed)
      PROVE  IInv'
  BY <1>4, RemoveWorktreeInv
<1>5. ASSUME NEW w \in Trees, NEW kept \in 0..story.ops, StartTrim(w, kept)
      PROVE  IInv'
  BY <1>5, StartTrimInv
<1>6. ASSUME NEW w \in Trees, NEW b \in Branches, DropPointer(w, b)
      PROVE  IInv'
  BY <1>6, DropPointerInv
<1>7. ASSUME NEW w \in Trees,
             DropLog(w) \/ ReplayLine(w) \/ ReleaseLock(w) \/ AppendNote(w) \/ Crash(w)
      PROVE  IInv'
  BY <1>7, DropLogInv, ReplayLineInv, ReleaseLockInv, AppendNoteInv, CrashInv
<1>8. CASE UNCHANGED vars
  BY <1>8, StutterInv
<1> QED
  BY <1>1, <1>2, <1>3, <1>4, <1>5, <1>6, <1>7, <1>8 DEF Next

-----------------------------------------------------------------------------
(***************************************************************************)
(* What the invariant gives.                                               *)
(***************************************************************************)

(* In every history of any number of worktrees and branches: each          *)
(* operation names an older one, every log and pointer names an operation, *)
(* no log a pass has locked is written by another, what a pass has still   *)
(* to write is linked to where its log ends, what undo left ahead of a log *)
(* can be stepped back to, and what a removed worktree held is in an       *)
(* operation (commit_op, rewind, trim_chain, remove_worktree).             *)
THEOREM WorktreesInvariant == Spec => []IInv
<1> QED
  BY InitInv, StepInv, PTL DEF Spec

(* A move along a log, undo or redo.                                       *)
LEMMA MoveIs ==
  ASSUME IInv, NEW w \in Trees, Undo(w) \/ Redo(w)
  PROVE  \E L, target, undone, R : Rewound(w, L, target, undone, R)
<1>1. CASE Undo(w)
  BY <1>1, UndoAsks, RewindIs
<1>2. CASE Redo(w)
  BY <1>2, RedoAsks, RewindIs
<1> QED
  BY <1>1, <1>2

(* A move along one worktree's log never moves a branch that another one   *)
(* stands on, before the worktree effects or after them (rewind's two      *)
(* filters on held branches): whatever undo and redo pass over.            *)
THEOREM HeldBranchesAreLeftAlone == Spec => HeldBranchesStay
<1>1. ASSUME IInv, [Next]_vars, NEW w \in Trees, Undo(w) \/ Redo(w), NEW v \in Trees \ {w},
             NEW b \in Branches, (v \in live /\ at[v] = b) \/ (v \in live' /\ at'[v] = b)
      PROVE  tips'[b] = tips[b]
  <2>1. PICK L, target, undone, R : Rewound(w, L, target, undone, R)
    BY <1>1, MoveIs
  <2>2. CASE v \in live /\ at[v] = b
    BY <2>1, <2>2, LogIs DEF Rewound, Movable, Held
  <2>3. CASE v \in live' /\ at'[v] = b
    <3>1. v \in R.world.live \ {w} /\ R.world.at[v] = b
      BY <2>1, <2>3 DEF Rewound
    <3> QED
      BY <2>1, <3>1 DEF Rewound, Movable, Held
  <2> QED
    BY <1>1, <2>2, <2>3
<1>2. ASSUME IInv, [Next]_vars
      PROVE  [\A w \in Trees : Undo(w) \/ Redo(w) =>
                \A v \in Trees \ {w}, b \in Branches :
                  (v \in live /\ at[v] = b) \/ (v \in live' /\ at'[v] = b)
                    => tips'[b] = tips[b]]_vars
  BY <1>1, <1>2
<1> QED
  BY <1>2, WorktreesInvariant, PTL DEF Spec, HeldBranchesStay

-----------------------------------------------------------------------------
(***************************************************************************)
(* Who opens a branch a second time: only `live' and `at' matter, and a    *)
(* step that adds nothing to them doubles nothing.                         *)
(***************************************************************************)

(* Worktrees that stay where they are, or go, share nothing new.           *)
LEMMA Staying ==
  ASSUME at' = at, live' \subseteq live
  PROVE  Doubled' \subseteq Doubled
BY DEF Doubled

(* A worktree arriving on a branch none of the standing ones is on.        *)
LEMMA Arriving ==
  ASSUME NEW w \in Trees, NEW b \in Branches,
         \A v \in live \ {w} : at[v] # b,
         live' = live \cup {w}, at'[w] = b, \A v \in live \ {w} : at'[v] = at[v]
  PROVE  Doubled' \subseteq Doubled
<1> SUFFICES ASSUME NEW c \in Doubled' PROVE c \in Doubled
  OBVIOUS
<1>1. PICK u \in live', v \in live' : u # v /\ at'[u] = c /\ at'[v] = c
  BY DEF Doubled
<1>2. u # w /\ v # w
  BY <1>1
<1>3. u \in live /\ v \in live /\ at[u] = c /\ at[v] = c
  BY <1>1, <1>2
<1> QED
  BY <1>1, <1>3 DEF Doubled

(* A removal, whole or killed, moves no HEAD and puts nothing back.        *)
LEMMA RemovedOnly ==
  ASSUME NEW w, NEW v, NEW killed \in BOOLEAN, RemoveWorktree(w, v, killed)
  PROVE  at' = at /\ live' \subseteq live
<1> USE DEF World, SetWorld
<1> DEFINE gone == Retired(Both(Preamble(w), World), v)
<1>1. gone.world = World \/ gone.world = [World EXCEPT !.live = @ \ {v}]
  <2> HIDE DEF World
  <2> QED
    BY DEF Retired, TornDown, Both
<1>2. SetWorld(IF killed THEN World ELSE gone.world)
  BY DEF RemoveWorktree
<1> QED
  BY <1>1, <1>2

(* Any step opens a branch again only through one of the two doors.        *)
LEMMA OnlyTheDoors ==
  ASSUME IInv, [Next]_vars, NEW b \in Doubled' \ Doubled
  PROVE  \E w \in live : Undo(w) \/ Redo(w) \/ (at[w] = b /\ Adds(w, b))
<1>0. live \subseteq Trees /\ at \in [Trees -> Branches]
  BY LogIs DEF IInv, WorldOK
<1> USE DEF World, SetWorld
<1>1. ASSUME NEW w \in Trees,
             \/ Edit(w) \/ GitCommit(w) \/ Commit(w)
             \/ \E kept \in 0..story.ops : StartTrim(w, kept)
             \/ DropLog(w)
             \/ \E c \in Branches : DropPointer(w, c)
             \/ ReplayLine(w) \/ ReleaseLock(w) \/ AppendNote(w) \/ Crash(w)
      PROVE  FALSE
  <2>1. at' = at /\ live' = live
    BY <1>1 DEF Edit, GitCommit, Commit, AfterCommit, StartTrim, DropLog, DropPointer,
                ReplayLine, ReleaseLock, AppendNote, Crash, UNCHANGED_World
  <2> QED
    BY <2>1, Staying
<1>2. ASSUME NEW w \in Trees, NEW c \in Branches, GitSwitch(w, c) \/ Switch(w, c)
      PROVE  FALSE
  <2>1. w \in live /\ c \notin Held(World, w)
    BY <1>2 DEF GitSwitch, Switch, Free, MayOpen
  <2>2. at' = [at EXCEPT ![w] = c] /\ live' = live
    BY <1>2 DEF GitSwitch, Switch
  <2>3. \A v \in live \ {w} : at[v] # c /\ at'[v] = at[v]
    BY <1>0, <2>1, <2>2 DEF Held
  <2>4. at'[w] = c /\ live' = live \cup {w}
    BY <1>0, <2>1, <2>2
  <2> QED
    BY <2>3, <2>4, Arriving
<1>3. ASSUME NEW w \in Trees, NEW v \in Trees, NEW c \in Branches, NEW killed \in BOOLEAN,
             AddWorktree(w, v, c, killed)
      PROVE  w \in live /\ at[w] = b /\ Adds(w, b)
  <2>1. at' = [at EXCEPT ![v] = c] /\ live' = live \cup {v} /\ w \in live
    BY <1>3 DEF AddWorktree, Stood, Free
  <2>2. c \notin Held(World, w) /\ v \notin live
    BY <1>3 DEF AddWorktree, MayStand, Occupied
  <2>3. at'[v] = c /\ \A u \in live \ {v} : at'[u] = at[u]
    BY <1>0, <2>1
  <2>4. CASE at[w] # c
    <3>1. \A u \in live \ {v} : at[u] # c
      BY <2>2, <2>4 DEF Held
    <3> QED
      BY <2>1, <2>3, <3>1, Arriving
  <2>5. CASE at[w] = c
    <3>1. c = b
      <4> SUFFICES ASSUME c # b PROVE FALSE
        OBVIOUS
      <4>1. PICK u \in live', x \in live' : u # x /\ at'[u] = b /\ at'[x] = b
        BY DEF Doubled
      <4>2. u # v /\ x # v
        BY <2>3, <4>1
      <4>3. u \in live /\ x \in live /\ at[u] = b /\ at[x] = b
        BY <2>1, <2>3, <4>1, <4>2
      <4> QED
        BY <4>1, <4>3 DEF Doubled
    <3> QED
      BY <1>3, <2>1, <2>5, <3>1 DEF Adds
  <2> QED
    BY <2>4, <2>5
<1>4. ASSUME NEW w \in Trees, NEW v \in Trees, NEW killed \in BOOLEAN,
             RemoveWorktree(w, v, killed)
      PROVE  FALSE
  BY <1>4, RemovedOnly, Staying
<1>5. ASSUME NEW w \in Trees, Undo(w) \/ Redo(w)
      PROVE  w \in live
  BY <1>5 DEF Undo, Redo, Free
<1>6. CASE UNCHANGED vars
  BY <1>6, Staying DEF vars
<1> QED
  BY <1>1, <1>2, <1>3, <1>4, <1>5, <1>6 DEF Next

(* For every number of worktrees and branches, in every history, kills     *)
(* included: a branch one worktree stands on is opened in a second only by *)
(* an add from that worktree, or by a move along a log                     *)
(* (guard_other_worktrees in ff switch, create in ff worktree, git's own   *)
(* check).                                                                 *)
THEOREM OnlyItsHolderOpensABranch == Spec => OpenedByItsHolder
<1>1. ASSUME IInv, [Next]_vars
      PROVE  [\A b \in Doubled' \ Doubled :
                \E w \in live : Undo(w) \/ Redo(w) \/ (at[w] = b /\ Adds(w, b))]_vars
  BY <1>1, OnlyTheDoors
<1> QED
  BY <1>1, WorktreesInvariant, PTL DEF Spec, OpenedByItsHolder

-----------------------------------------------------------------------------
(* The operations of a log, and those in its trash.                        *)
OnLog(w) == Reached(store, opsRef[w])
InTrash(w) == Reached(store, trash[w])
Recoverable(w) ==
  (IF trash'[w] = trash[w] THEN Kept(w) ELSE Born(Chain(w))) \subseteq Kept(w)'

LEMMA KeptIs ==
  \A w : /\ Born(Chain(w)) = {store[i].born : i \in OnLog(w)}
         /\ Kept(w) = {store[i].born : i \in OnLog(w) \cup InTrash(w)}
BY ChainIsDescent DEF Born, Kept, Chain, OnLog, InTrash

LEMMA OnLogFacts ==
  ASSUME IInv, NEW w \in Trees
  PROVE  OnLog(w) \subseteq 1..Len(store) /\ InTrash(w) \subseteq 1..Len(store)
<1>1. /\ Older(store) /\ Len(store) \in Nat /\ opsRef[w] \in 0..Len(store)
      /\ trash[w] \in 0..Len(store)
  BY PassParts, StoreIsOlder
<1>2. Reached(store, opsRef[w]) \subseteq 1..opsRef[w] /\ Reached(store, trash[w]) \subseteq 1..trash[w]
  BY <1>1, ReachedFacts
<1>3. 1..opsRef[w] \subseteq 1..Len(store) /\ 1..trash[w] \subseteq 1..Len(store)
  BY <1>1
<1> QED
  BY <1>2, <1>3 DEF OnLog, InTrash

(* Nothing leaves both a log and its trash.                                *)
LEMMA NothingLeaves ==
  ASSUME IInv, Extends(store', store), NEW w \in Trees,
         OnLog(w) \subseteq OnLog(w)' \cup InTrash(w)',
         trash'[w] = trash[w] => InTrash(w) \subseteq OnLog(w)' \cup InTrash(w)'
  PROVE  Recoverable(w)
<1>1. \A i \in OnLog(w) \cup InTrash(w) : store'[i] = store[i]
  BY OnLogFacts DEF Extends
<1>2. /\ Born(Chain(w)) = {store[i].born : i \in OnLog(w)}
      /\ Kept(w) = {store[i].born : i \in OnLog(w) \cup InTrash(w)}
  BY KeptIs
<1>3. Kept(w)' = {store'[i].born : i \in OnLog(w)' \cup InTrash(w)'}
  BY ChainIsDescent DEF Born, Kept, Chain, OnLog, InTrash
<1>4. Born(Chain(w)) \subseteq Kept(w)'
  BY <1>1, <1>2, <1>3
<1>5. trash'[w] = trash[w] => Kept(w) \subseteq Kept(w)'
  BY <1>1, <1>2, <1>3
<1> QED
  BY <1>4, <1>5 DEF Recoverable

(* A step that leaves a log and its trash where they are.                  *)
LEMMA NothingMoves ==
  ASSUME IInv, IInv', Extends(store', store), NEW w \in Trees, opsRef'[w] = opsRef[w]
  PROVE  Recoverable(w)
<1>1. StoreOK(store) /\ opsRef[w] \in 0..Len(store) /\ trash[w] \in 0..Len(store)
  BY PassParts
<1>2. StoreOK(store')
  BY DEF IInv, LogOK, Log
<1>3. Reached(store', opsRef[w]) = OnLog(w) /\ Reached(store', trash[w]) = InTrash(w)
  BY <1>1, <1>2, ReachedStays DEF OnLog, InTrash
<1>4. OnLog(w)' = OnLog(w) /\ (trash'[w] = trash[w] => InTrash(w)' = InTrash(w))
  BY <1>3 DEF OnLog, InTrash
<1> QED
  BY <1>4, NothingLeaves

LEMMA StepRecovers ==
  ASSUME IInv, IInv', [Next]_vars, NEW w \in Trees, pass'[w] # pass[w] PROVE Recoverable(w)
<1>1. /\ StoreOK(store) /\ Older(store) /\ Len(store) \in Nat /\ pass \in [Trees -> Passes]
      /\ opsRef \in [Trees -> 0..Len(store)] /\ trash \in [Trees -> 0..Len(store)]
      /\ Extends(store, store) /\ PassOK(w)
  BY PassParts, StoreIsOlder
<1>2. ASSUME NEW kept \in 0..story.ops, StartTrim(w, kept) PROVE Recoverable(w)
  BY <1>2, NothingMoves, StartTrimGrows DEF StartTrim
<1>3. CASE DropLog(w)
  <2>1. pass[w].step = "drop" /\ store' = store /\ trash' = trash /\ trash[w] = opsRef[w]
    BY <1>1, <1>3 DEF DropLog, PassOK
  <2>2. OnLog(w) = InTrash(w) /\ InTrash(w)' = InTrash(w)
    BY <2>1 DEF OnLog, InTrash
  <2> QED
    BY <1>1, <2>1, <2>2, NothingLeaves
<1>4. ASSUME NEW b \in Branches, DropPointer(w, b) PROVE Recoverable(w)
  BY <1>1, <1>4, NothingMoves DEF DropPointer
<1>5. CASE ReplayLine(w)
  <2> DEFINE p == pass[w]
             id == Min(p.lines)
  <2>1. /\ p.step = "replay" /\ p.lines # {} /\ store' = store /\ trash' = trash
        /\ opsRef' = opsRef \/ (p.ref = "log" /\ opsRef' = [opsRef EXCEPT ![w] = id])
    BY <1>5 DEF ReplayLine
  <2>2. CASE opsRef' = opsRef
    BY <1>1, <2>1, <2>2, NothingMoves
  <2>3. CASE p.ref = "log" /\ opsRef' = [opsRef EXCEPT ![w] = id]
    <3>1. p.lines \subseteq 1..Len(store) /\ Threaded(store, p.lines, opsRef[w])
      BY <1>1, <2>1, <2>3 DEF PassOK
    <3>2. id \in p.lines /\ store[id].prev = opsRef[w]
      <4> DEFINE S == p.lines
      <4>1. S \subseteq 1..Len(store) /\ Threaded(store, S, opsRef[w]) /\ S # {}
        BY <2>1, <3>1
      <4>2. Len(store) \in Nat
        BY <1>1
      <4> HIDE DEF S
      <4>3. Min(S) \in S /\ store[Min(S)].prev = opsRef[w]
        BY ONLY <4>1, <4>2, ThreadNext
      <4> QED
        BY <4>3 DEF S
    <3>3. id \in 1..Len(store) /\ opsRef'[w] = id
      BY <1>1, <2>3, <3>1, <3>2
    <3> HIDE DEF id
    <3>4. Reached(store, id) = {id} \cup Reached(store, opsRef[w])
      <4>1. Older(store)
        BY <1>1
      <4>2. \A i \in 1..Len(store) : Reached(store, i) = {i} \cup Reached(store, store[i].prev)
        BY ONLY <4>1, ReachedFacts
      <4> QED
        BY <3>2, <3>3, <4>2
    <3>5. OnLog(w) \subseteq OnLog(w)' /\ InTrash(w)' = InTrash(w)
      BY <2>1, <3>3, <3>4 DEF OnLog, InTrash
    <3> QED
      BY <1>1, <2>1, <3>5, NothingLeaves
  <2> QED
    BY <2>1, <2>2, <2>3
<1>6. CASE ReleaseLock(w) \/ Crash(w)
  BY <1>1, <1>6, NothingMoves DEF ReleaseLock, Crash, UNCHANGED_Log
<1>7. CASE AppendNote(w)
  <2>1. Wrote(Log, Log', w)
    BY <1>7, NoteWritten DEF Pushed
  <2>2. Log'.store = store' /\ Log'.ops = opsRef'
    BY DEF Log
  <2>3. OnLog(w) \subseteq OnLog(w)' /\ Extends(store', store)
    BY <2>1, <2>2, LogIs DEF Wrote, OnLog
  <2>4. trash' = trash /\ StoreOK(store') /\ InTrash(w)' = InTrash(w)
    <3>1. trash' = trash /\ StoreOK(store') /\ trash[w] \in 0..Len(store)
      BY <1>1, <1>7, <2>1, <2>2 DEF AppendNote, Wrote, LogOK
    <3> QED
      BY <1>1, <2>3, <3>1, ReachedStays DEF InTrash
  <2> QED
    BY <2>3, <2>4, NothingLeaves
(* Every other step is another pass's, or no pass's.                       *)
<1>8. ASSUME pass' = pass PROVE FALSE
  BY <1>8
<1>9. ASSUME NEW v \in Trees,
             \/ Edit(v) \/ GitCommit(v) \/ Commit(v) \/ Undo(v) \/ Redo(v)
             \/ \E b \in Branches : GitSwitch(v, b) \/ Switch(v, b)
             \/ \E u \in Trees, b \in Branches, killed \in BOOLEAN : AddWorktree(v, u, b, killed)
             \/ \E u \in Trees, killed \in BOOLEAN : RemoveWorktree(v, u, killed)
       PROVE pass' = pass
  <2>1. CASE Edit(v) \/ GitCommit(v) \/ Commit(v)
    BY <2>1 DEF Edit, GitCommit, Commit
  <2>2. CASE Undo(v) \/ Redo(v)
    BY <2>2 DEF Undo, Redo, Rewind
  <2>3. ASSUME NEW b \in Branches, GitSwitch(v, b) \/ Switch(v, b) PROVE pass' = pass
    BY <2>3 DEF GitSwitch, Switch
  <2>4. ASSUME NEW u \in Trees, NEW b \in Branches, NEW killed \in BOOLEAN,
               AddWorktree(v, u, b, killed)
        PROVE  pass' = pass
    BY <2>4 DEF AddWorktree
  <2>5. ASSUME NEW u \in Trees, NEW killed \in BOOLEAN, RemoveWorktree(v, u, killed)
        PROVE  pass' = pass
    BY <2>5 DEF RemoveWorktree
  <2> QED
    BY <1>9, <2>1, <2>2, <2>3, <2>4, <2>5
<1>10. ASSUME NEW v \in Trees \ {w},
             \/ \E kept \in 0..story.ops : StartTrim(v, kept)
             \/ DropLog(v) \/ (\E b \in Branches : DropPointer(v, b)) \/ ReplayLine(v)
             \/ ReleaseLock(v) \/ AppendNote(v) \/ Crash(v)
       PROVE pass'[w] = pass[w]
  BY <1>1, <1>10 DEF StartTrim, DropLog, DropPointer, ReplayLine, ReleaseLock, AppendNote, Crash
<1>11. CASE UNCHANGED vars
  BY <1>8, <1>11 DEF vars
<1> QED
  BY <1>2, <1>3, <1>4, <1>5, <1>6, <1>7, <1>8, <1>9, <1>10, <1>11 DEF Next

(* Whatever step a pass of retention is killed at, and whatever other      *)
(* worktrees do meanwhile, no operation of a log leaves both the log and   *)
(* its trash while the pass runs, and the next pass replaces only the      *)
(* trash of the one before (trim_chain, "trash first").                    *)
THEOREM RetentionLosesNothing == Spec => RetentionIsRecoverable
<1>1. ASSUME IInv, IInv', [Next]_vars
      PROVE  [\A w \in Trees : pass'[w] # pass[w] =>
                (IF trash'[w] = trash[w] THEN Kept(w) ELSE Born(Chain(w))) \subseteq Kept(w)']_vars
  BY <1>1, StepRecovers DEF Recoverable
<1> QED
  BY <1>1, WorktreesInvariant, PTL DEF Spec, RetentionIsRecoverable

(* A log that is written to grows.                                         *)
LEMMA WroteGrows ==
  ASSUME NEW L, LogOK(L), NEW M, NEW w, Wrote(L, M, w)
  PROVE  \A v \in Trees : L.ops[v] <= M.ops[v]
<1>1. \A v \in Trees : L.ops[v] \in Nat /\ M.ops[v] \in Nat
  BY DEF LogOK, Wrote
<1> QED
  BY <1>1 DEF Wrote

LEMMA AddGrows ==
  ASSUME IInv, NEW w \in Trees, NEW v \in Trees, AddedTo(w, v)
  PROVE  \A u \in Trees : opsRef[u] <= opsRef'[u]
<1>1. PICK L, K, M : /\ Wrote(Log, L, w) /\ Wrote(L, K, v) /\ SetLog(M)
                     /\ K = M \/ Wrote(K, M, w)
  BY DEF AddedTo
<1>2. LogOK(Log) /\ LogOK(L) /\ LogOK(K) /\ LogOK(M)
  BY <1>1 DEF IInv, Wrote
<1>3. \A u \in Trees : Log.ops[u] \in Nat /\ L.ops[u] \in Nat /\ K.ops[u] \in Nat /\ M.ops[u] \in Nat
  BY <1>2 DEF LogOK
<1>4. \A u \in Trees : Log.ops[u] <= L.ops[u] /\ L.ops[u] <= K.ops[u]
  BY <1>1, <1>2, WroteGrows
<1>5. \A u \in Trees : K.ops[u] <= M.ops[u]
  <2>1. CASE K = M
    BY <1>3, <2>1
  <2>2. CASE Wrote(K, M, w)
    BY <1>2, <2>2, WroteGrows
  <2> QED
    BY <1>1, <2>1, <2>2
<1>6. opsRef' = M.ops /\ opsRef = Log.ops
  BY <1>1, LogIs DEF SetLog
<1> QED
  BY <1>3, <1>4, <1>5, <1>6

(* A step that puts a worktree back and no undo takes nothing off a log.   *)
LEMMA RedoGrows ==
  ASSUME IInv, NEW w \in Trees, Redo(w) PROVE \A u \in Trees : opsRef[u] <= opsRef'[u]
<1> DEFINE L == Preamble(w)
           target == Last(L.ahead[w])
           fwd == Only(ChainIn(L.store, target), ChainIn(L.store, L.ops[w]))
           undone == Front(L.ahead[w])
           S == Reached(L.store, target) \ Reached(L.store, L.ops[w])
           R == AfterEffects(L, World, << >>, fwd)
<1>1. /\ Asked(w, L, target, << >>, fwd, undone, S) /\ L.ops[w] <= target
      /\ Rewind(w, L, target, << >>, fwd, undone)
  BY RedoAsks
<1> HIDE DEF L, target, fwd, undone, S
<1>2. Rewound(w, L, target, undone, R)
  BY <1>1, RewindIs
<1>3. Wrote(Log, L, w) /\ LogOK(Log) /\ WorldOK(World) /\ S \subseteq 1..Len(L.store)
  BY <1>1 DEF Asked, IInv
<1>4. LogOK(L) /\ Moved(L, World, R, S)
  BY <1>1, <1>3 DEF Asked, Wrote
<1> HIDE DEF R
<1>5. LogOK(R.log) /\ \A v \in Trees : L.ops[v] <= R.log.ops[v]
  BY <1>3, <1>4, MovedFacts DEF MovedTo
<1>6. \A v \in Trees : opsRef[v] <= L.ops[v]
  BY <1>3, WroteGrows, LogIs
<1>7. \A v \in Trees : opsRef[v] \in Nat /\ L.ops[v] \in Nat /\ R.log.ops[v] \in Nat
  BY <1>3, <1>4, <1>5, LogIs DEF LogOK
<1>8. opsRef'[w] = target /\ \A v \in Trees \ {w} : opsRef'[v] = R.log.ops[v]
  BY <1>2 DEF Rewound
<1>9. target \in Nat
  BY <1>1 DEF Asked
<1> QED
  BY <1>1, <1>5, <1>6, <1>7, <1>8, <1>9

(* What an undo takes off a log is its own, and it reverses it.            *)
LEMMA UndoReverses ==
  ASSUME IInv, NEW u \in Trees, Undo(u), NEW w \in live' \ live, NEW i \in DOMAIN store,
         Reverses(i, w), store[i].effect.capture # None
  PROVE  files'[w] = store[i].effect.held
<1> DEFINE L == Preamble(u)
           ops == ChainIn(L.store, L.ops[u])
           last == RunEnd(L, ops)
           target == ops[last + 1]
           back == SubSeq(ops, 1, last)
           undone == Append(L.ahead[u], L.ops[u])
           S == Newest(ops, last)
           R == AfterEffects(L, World, back, << >>)
           op == store[i]
           c == op.effect.capture
<1>1. /\ Rewind(u, L, target, back, << >>, undone)
      /\ Asked(u, L, target, back, << >>, undone, S)
      /\ MovedOver(L, World, R, S, FALSE)
      /\ S = Reached(L.store, L.ops[u]) \ Reached(L.store, target)
  BY UndoAsks
<1>2. u \in live
  BY DEF Undo, Free
<1> HIDE DEF L, target, back, undone, S
<1>3. Rewound(u, L, target, undone, R)
  BY <1>1, RewindIs
<1>4. /\ Wrote(Log, L, u) /\ LogOK(Log) /\ WorldOK(World) /\ S \subseteq 1..Len(L.store)
      /\ Moved(L, World, R, S) /\ target \in 1..Len(L.store)
  BY <1>1 DEF Asked, IInv
<1>5. /\ LogOK(L) /\ StoreOK(L.store) /\ L.store \in Seq(Written) /\ Extends(L.store, store)
      /\ Len(L.store) \in Nat
  BY <1>4, LogIs DEF Wrote, LogOK, StoreOK
<1> HIDE DEF R
<1>6. PICK v \in live : /\ i \in ToSet(Chain(v)) /\ i > opsRef'[v]
                        /\ op.effect.do = "remove" /\ op.effect.tree = w
  BY DEF Reverses
<1>7. v \in Trees /\ w \in Trees /\ w # u
  <2>1. live \subseteq Trees /\ live' \subseteq Trees
    BY <1>3, <1>4, LogIs DEF Rewound, WorldOK, World
  <2> QED
    BY <1>2, <2>1
<1>8. /\ i \in Reached(store, opsRef[v]) /\ i \in 1..opsRef[v] /\ i \in 1..Len(store)
      /\ opsRef[v] \in Nat
  <2>1. i \in OnLog(v)
    BY <1>6, ChainIsDescent DEF Chain, OnLog
  <2>2. StoreOK(store) /\ opsRef[v] \in 0..Len(store)
    BY <1>7, PassParts
  <2>3. Reached(store, opsRef[v]) \subseteq 1..opsRef[v]
    BY <2>2, StoreIsOlder, ReachedFacts
  <2> QED
    BY <1>7, <2>1, <2>2, <2>3, OnLogFacts DEF OnLog
<1>9. v = u
  <2> SUFFICES ASSUME v # u PROVE FALSE
    OBVIOUS
  <2>1. LogOK(R.log) /\ L.ops[v] <= R.log.ops[v]
    BY <1>4, <1>5, <1>7, MovedFacts DEF MovedTo
  <2>2. opsRef[v] <= L.ops[v]
    BY <1>4, <1>7, WroteGrows, LogIs
  <2>3. opsRef'[v] = R.log.ops[v]
    BY <1>3, <1>7 DEF Rewound
  <2>4. L.ops[v] \in Nat /\ R.log.ops[v] \in Nat
    BY <1>5, <1>7, <2>1 DEF LogOK
  <2> QED
    BY <1>6, <1>8, <2>1, <2>2, <2>3, <2>4
<1>10. i \in S
  <2>1. i \in Reached(L.store, L.ops[u])
    BY <1>4, <1>8, <1>9, LogIs DEF Wrote
  <2>2. i \notin Reached(L.store, target)
    <3>1. Reached(L.store, target) \subseteq 1..target
      BY <1>4, <1>5, StoreIsOlder, ReachedFacts
    <3>2. opsRef'[u] = target
      BY <1>3 DEF Rewound
    <3>3. ~(i \in 1..target)
      BY <1>4, <1>6, <1>8, <1>9, <3>2
    <3> QED
      BY <3>1, <3>3
  <2> QED
    BY <1>1, <2>1, <2>2
<1>11. L.store[i] = op /\ i \in 1..Len(L.store)
  BY <1>4, <1>5, <1>8, <1>10 DEF Extends
<1>12. op \in Written /\ Sane(L.store, op)
  <2>1. L.store[i] \in Written
    BY ONLY <1>5, <1>11, ElementOfSeq
  <2> QED
    BY <1>5, <1>11, <2>1 DEF StoreOK
<1>13. R = AfterEffect(Both(L, World), op, FALSE)
  BY <1>1, <1>6, <1>10, <1>11 DEF MovedOver
<1>14. Affected(L, World, R, op)
  BY <1>4, <1>5, <1>12, <1>13, EffectOK
<1>15. live' = R.world.live /\ files'[w] = R.world.files[w]
  BY <1>3, <1>7 DEF Rewound
<1>16. R.world.files[w] = L.store[c].files
  BY <1>6, <1>14, <1>15, LogIs DEF Affected
<1>17. L.store[c].files = op.effect.held
  BY <1>6, <1>12 DEF Sane
<1> QED
  BY <1>15, <1>16, <1>17

(* What undoes a removal puts back what the removal took.                  *)
LEMMA BackAsItWent ==
  ASSUME IInv, [Next]_vars, NEW w \in live' \ live, NEW i \in DOMAIN store, Reverses(i, w),
         store[i].effect.capture # None
  PROVE  files'[w] = store[i].effect.held
<1>1. ASSUME \A u \in Trees : opsRef[u] <= opsRef'[u] PROVE FALSE
  <2>1. PICK v \in live : i \in ToSet(Chain(v)) /\ i > opsRef'[v]
    BY DEF Reverses
  <2>2. v \in Trees
    BY <2>1, LogIs DEF IInv, WorldOK
  <2>3. StoreOK(store) /\ opsRef[v] \in 0..Len(store)
    BY <2>2, PassParts
  <2>4. Reached(store, opsRef[v]) \subseteq 1..opsRef[v]
    BY <2>3, StoreIsOlder, ReachedFacts
  <2>5. i \in 1..opsRef[v]
    BY <2>1, <2>4, ChainIsDescent DEF Chain
  <2>6. opsRef'[v] \in Nat
    BY <2>2, StepInv DEF IInv, LogOK, Log
  <2> QED
    BY <1>1, <2>1, <2>2, <2>3, <2>5, <2>6
<1>2. ASSUME NEW u \in Trees, Undo(u) PROVE files'[w] = store[i].effect.held
  BY <1>2, UndoReverses
<1>3. ASSUME NEW u \in Trees, Redo(u) PROVE FALSE
  BY <1>1, <1>3, RedoGrows
<1>4. ASSUME NEW u \in Trees, NEW v \in Trees, NEW b \in Branches, NEW killed \in BOOLEAN,
             AddWorktree(u, v, b, killed)
      PROVE  FALSE
  BY <1>1, <1>4, AddWrites, AddGrows
<1>5. ASSUME live' \subseteq live PROVE FALSE
  BY <1>5
<1>6. ASSUME NEW u \in Trees, NEW v \in Trees, NEW killed \in BOOLEAN,
             RemoveWorktree(u, v, killed)
      PROVE  live' \subseteq live
  BY <1>6, RemovedOnly
<1>7. ASSUME NEW u \in Trees,
             \/ Edit(u) \/ GitCommit(u) \/ Commit(u) \/ (\E b \in Branches : GitSwitch(u, b))
             \/ \E b \in Branches : Switch(u, b)
      PROVE  live' = live
  BY <1>7 DEF Edit, GitCommit, Commit, GitSwitch, Switch, SetWorld, AfterCommit, World
<1>8. ASSUME NEW u \in Trees,
             \/ \E kept \in 0..story.ops : StartTrim(u, kept)
             \/ DropLog(u) \/ (\E b \in Branches : DropPointer(u, b)) \/ ReplayLine(u)
             \/ ReleaseLock(u) \/ AppendNote(u) \/ Crash(u)
      PROVE  live' = live
  BY <1>8 DEF StartTrim, DropLog, DropPointer, ReplayLine, ReleaseLock, AppendNote, Crash,
              UNCHANGED_World
<1>9. CASE UNCHANGED vars
  BY <1>5, <1>9 DEF vars
<1> QED
  BY <1>2, <1>3, <1>4, <1>5, <1>6, <1>7, <1>8, <1>9 DEF Next

(* What a worktree held when it went is in an operation as long as nothing *)
(* is trimmed, whichever verb took it, and undoing the removal puts it     *)
(* back, whatever other worktrees have done to its branch and its log      *)
(* since (remove_worktree, capture_with, retire, revive).                  *)
THEOREM RemovedWorkIsNeverLost == Spec => RemovedWorkIsKept
<1>1. IInv => WorkIsStored
  <2> SUFFICES ASSUME IInv, NEW w \in Trees \ live, files[w].edit # None
               PROVE  \E i \in DOMAIN store : store[i].files = files[w]
    BY DEF WorkIsStored
  <2>1. DOMAIN store = 1..Len(store)
    BY PassParts, MainAssumption DEF StoreOK
  <2>2. Stored(w)
    BY DEF IInv
  <2> QED
    BY <2>1, <2>2 DEF Stored
<1>2. ASSUME IInv, [Next]_vars
      PROVE  [\A w \in live' \ live, i \in DOMAIN store :
                Reverses(i, w) /\ store[i].effect.capture # None
                  => files'[w] = store[i].effect.held]_vars
  BY <1>2, BackAsItWent
<1> QED
  BY <1>1, <1>2, WorktreesInvariant, PTL
     DEF Spec, RemovedWorkIsKept, RemovedWorkStays, BackAsItWas

-----------------------------------------------------------------------------
(***************************************************************************)
(* Pointers name the newest operations.                                    *)
(***************************************************************************)

(* i is the newest operation of S on b; None when there is none.           *)
NewestOn(st, S, b, i) ==
  /\ i = None => \A j \in S : st[j].branch # b
  /\ i # None => i \in S /\ st[i].branch = b /\ \A j \in S : st[j].branch = b => j <= i

(* Where logs only grow, every operation is on one, and a branch's pointer *)
(* names the newest that was written on it.                                *)
GrowsOK(L) ==
  /\ \A i \in 1..Len(L.store) :
       L.store[i].born = i /\ \E w \in Trees : i \in Reached(L.store, L.ops[w])
  /\ \A b \in Branches : NewestOn(L.store, 1..Len(L.store), b, L.snap[b])

(* Each operation names the newest one below it on its branch.             *)
LinkedOK(st) ==
  \A i \in 1..Len(st) :
    /\ st[i].effect.do = "none" /\ st[i].born <= i
    /\ NewestOn(st, Reached(st, st[i].prev), st[i].branch, st[i].onBranch)
    /\ \A j \in Reached(st, st[i].prev) : st[j].born < st[i].born

(* Each tip undo left lies above what it left the log at.                  *)
TipsAbove(L) ==
  \A k \in 1..Len(L.ahead[Main]) : Lower(L, Main, k) \in Reached(L.store, L.ahead[Main][k])

AloneOK(L) ==
  /\ \A w \in Trees \ {Main} : L.ops[w] = None
  /\ LinkedOK(L.store) /\ TipsAbove(L)

HeadedOK(L) ==
  \A b \in Branches : NewestOn(L.store, Reached(L.store, L.ops[Main]), b, L.snap[b])

(* A pass: before it drops the log, the pointers it will replay are those  *)
(* there are; after, the log has what it has replayed of the survivors, a  *)
(* pointer it has replayed names the newest of them on its branch.         *)
DropOK(p) ==
  /\ p.seen = snap /\ p.todo = {b \in Branches : snap[b] # None}
  /\ \A b \in Branches \ p.todo : \A i \in p.new : store[i].branch # b

ReplayOK(p) ==
  /\ \A b \in p.todo : snap[b] = p.seen[b]
  /\ Reached(store, opsRef[Main]) = IF p.ref = "log" THEN p.new \ p.lines ELSE p.new
  /\ p.lines \subseteq p.new
  /\ \A b \in Branches \ p.todo : b # p.ref => NewestOn(store, p.new, b, snap[b])
  /\ p.ref # "log" =>
       /\ p.ref \notin p.todo /\ snap[p.ref] = p.expected
       /\ NewestOn(store, p.new \ p.lines, p.ref, snap[p.ref])
       /\ \A i \in p.lines : /\ store[i].branch = p.ref
                             /\ \A j \in p.new \ p.lines : store[j].branch = p.ref => j < i

PassKnows(p) ==
  /\ p.step = "replay" => ReplayOK(p)
  /\ p.step # "replay" => HeadedOK(Log)
  /\ p.step = "drop" => DropOK(p)

(* Both kinds of histories PointerNewest speaks of.                        *)
PInv ==
  /\ OnlyGrows => GrowsOK(Log) /\ \A w \in Trees : pass[w] = Idle
  /\ Settled => /\ live = {Main} /\ AloneOK(Log) /\ PassKnows(pass[Main])
                /\ \A w \in Trees \ {Main} : pass[w] = Idle

Sound(L) ==
  /\ OnlyGrows => GrowsOK(L)
  /\ Settled => AloneOK(L) /\ HeadedOK(L)

(* An operation more, on the log or not.                                   *)
LEMMA NewestStays ==
  ASSUME NEW st, NEW su, Extends(su, st), NEW S, S \subseteq 1..Len(st), NEW b, NEW i,
         NewestOn(st, S, b, i)
  PROVE  NewestOn(su, S, b, i)
<1>1. \A j \in S : su[j] = st[j]
  BY DEF Extends
<1>2. i # None => i \in S
  BY DEF NewestOn
<1> QED
  BY <1>1, <1>2 DEF NewestOn

LEMMA NewestGrows ==
  ASSUME NEW n \in Nat, NEW st, NEW S, S \subseteq 1..n, NEW b, NEW i, NewestOn(st, S, b, i),
         NEW T, T = {n + 1} \cup S
  PROVE  NewestOn(st, T, b, IF st[n + 1].branch = b THEN n + 1 ELSE i)
<1>1. CASE st[n + 1].branch = b
  BY <1>1 DEF NewestOn, None
<1>2. CASE st[n + 1].branch # b
  BY <1>2 DEF NewestOn
<1> QED
  BY <1>1, <1>2

LEMMA PushedGrows ==
  ASSUME NEW L, LogOK(L), NEW w \in Trees, NEW draft \in Drafts, NEW M, Pushed(L, M, w, draft),
         GrowsOK(L)
  PROVE  GrowsOK(M)
<1> DEFINE n == Len(L.store)
<1>1. /\ n \in Nat /\ StoreOK(L.store) /\ StoreOK(M.store) /\ Extends(M.store, L.store)
      /\ Len(M.store) = n + 1 /\ M.ops[w] = n + 1 /\ M.store[n + 1].born = n + 1
      /\ M.store[n + 1].branch = draft.branch
      /\ M.snap = [L.snap EXCEPT ![draft.branch] = n + 1]
      /\ Reached(M.store, M.ops[w]) = {n + 1} \cup Reached(L.store, L.ops[w])
      /\ \A v \in Trees \ {w} : M.ops[v] = L.ops[v]
      /\ L.ops \in [Trees -> 0..n] /\ L.snap \in [Branches -> 0..n]
  BY DEF Pushed, Wrote, LogOK, StoreOK
<1>2. ASSUME NEW i \in 1..(n + 1)
      PROVE  M.store[i].born = i /\ \E v \in Trees : i \in Reached(M.store, M.ops[v])
  <2>1. CASE i = n + 1
    BY <1>1, <2>1
  <2>2. CASE i \in 1..n
    <3>1. M.store[i] = L.store[i]
      BY <1>1, <2>2 DEF Extends
    <3>2. L.store[i].born = i
      BY <2>2 DEF GrowsOK
    <3>3. PICK v \in Trees : i \in Reached(L.store, L.ops[v])
      BY <2>2 DEF GrowsOK
    <3>4. CASE v = w
      BY <1>1, <3>1, <3>2, <3>3, <3>4
    <3>5. CASE v # w
      <4>1. L.ops[v] \in 0..n /\ M.ops[v] = L.ops[v]
        BY <1>1, <3>5
      <4>2. Reached(M.store, L.ops[v]) = Reached(L.store, L.ops[v])
        BY ONLY <1>1, <4>1, ReachedStays
      <4> QED
        BY <3>1, <3>2, <3>3, <4>1, <4>2
    <3> QED
      BY <3>4, <3>5
  <2> QED
    BY <1>1, <2>1, <2>2
<1>3. ASSUME NEW b \in Branches
      PROVE  NewestOn(M.store, 1..(n + 1), b, M.snap[b])
  <2>1. NewestOn(L.store, 1..n, b, L.snap[b])
    BY DEF GrowsOK
  <2>2. NewestOn(M.store, 1..n, b, L.snap[b])
    BY ONLY <1>1, <2>1, NewestStays, 1..n \subseteq 1..Len(L.store)
  <2>3. 1..(n + 1) = {n + 1} \cup 1..n
    BY <1>1
  <2>4. NewestOn(M.store, 1..(n + 1), b, IF M.store[n + 1].branch = b THEN n + 1 ELSE L.snap[b])
    BY ONLY <1>1, <2>2, <2>3, NewestGrows, 1..n \subseteq 1..n
  <2>5. M.snap[b] = IF M.store[n + 1].branch = b THEN n + 1 ELSE L.snap[b]
    BY <1>1
  <2> QED
    BY <2>4, <2>5
<1> QED
  BY <1>1, <1>2, <1>3 DEF GrowsOK

LEMMA PushedAlone ==
  ASSUME NEW L, LogOK(L), NEW draft \in Drafts, NEW M, Pushed(L, M, Main, draft),
         draft.effect.do = "none", AloneOK(L), HeadedOK(L)
  PROVE  AloneOK(M) /\ HeadedOK(M)
<1> DEFINE n == Len(L.store)
           R == Reached(L.store, L.ops[Main])
<1>1. /\ n \in Nat /\ StoreOK(L.store) /\ StoreOK(M.store) /\ Extends(M.store, L.store)
      /\ Len(M.store) = n + 1 /\ M.ops[Main] = n + 1 /\ M.store[n + 1].born = n + 1
      /\ M.store[n + 1].branch = draft.branch /\ draft.branch \in Branches
      /\ M.store[n + 1].effect.do = "none" /\ M.store[n + 1].prev = L.ops[Main]
      /\ M.store[n + 1].onBranch = L.snap[draft.branch]
      /\ M.snap = [L.snap EXCEPT ![draft.branch] = n + 1] /\ M.ahead[Main] = << >>
      /\ Reached(M.store, M.ops[Main]) = {n + 1} \cup R
      /\ \A v \in Trees \ {Main} : M.ops[v] = L.ops[v]
      /\ L.ops \in [Trees -> 0..n] /\ L.snap \in [Branches -> 0..n] /\ L.ops[Main] \in 0..n
  BY MainAssumption DEF Pushed, Wrote, LogOK, StoreOK, Drafts
<1>2. \A i \in 0..n : Reached(M.store, i) = Reached(L.store, i) /\ Reached(L.store, i) \subseteq 1..i
  BY ONLY <1>1, ReachedStays
<1>3. R \subseteq 1..n
  BY <1>1, <1>2
<1> HIDE DEF n, R
<1>4. \A b \in Branches : NewestOn(M.store, R, b, L.snap[b])
  BY <1>1, <1>3, NewestStays DEF HeadedOK, R, n
<1>5. HeadedOK(M)
  <2> SUFFICES ASSUME NEW b \in Branches
               PROVE  NewestOn(M.store, {n + 1} \cup R, b, M.snap[b])
    BY <1>1 DEF HeadedOK
  <2>1. NewestOn(M.store, {n + 1} \cup R, b, IF M.store[n + 1].branch = b THEN n + 1 ELSE L.snap[b])
    BY <1>1, <1>3, <1>4, NewestGrows
  <2>2. M.snap[b] = IF M.store[n + 1].branch = b THEN n + 1 ELSE L.snap[b]
    BY <1>1
  <2> QED
    BY <2>1, <2>2
<1>6. ASSUME NEW i \in 1..(n + 1)
      PROVE  LET st == M.store
             IN /\ st[i].effect.do = "none" /\ st[i].born <= i
                /\ NewestOn(st, Reached(st, st[i].prev), st[i].branch, st[i].onBranch)
                /\ \A j \in Reached(st, st[i].prev) : st[j].born < st[i].born
  <2> DEFINE st == L.store
             below == Reached(st, st[i].prev)
  <2>1. CASE i \in 1..n
    <3>1. M.store[i] = st[i] /\ st[i].prev \in 0..n /\ st[i].prev \in 0..(i - 1)
      BY <1>1, <2>1 DEF Extends, StoreOK, n
    <3>2. Reached(M.store, st[i].prev) = below /\ below \subseteq 1..n
      <4>1. below \subseteq 1..st[i].prev
        BY <1>2, <3>1
      <4> QED
        BY <1>1, <1>2, <3>1, <4>1
    <3>3. /\ st[i].effect.do = "none" /\ st[i].born <= i
          /\ NewestOn(st, below, st[i].branch, st[i].onBranch)
          /\ \A j \in below : st[j].born < st[i].born
      BY <2>1 DEF AloneOK, LinkedOK, n
    <3> HIDE DEF below
    <3>4. NewestOn(M.store, below, st[i].branch, st[i].onBranch)
      BY <1>1, <3>2, <3>3, NewestStays DEF n
    <3>5. \A j \in below : M.store[j] = st[j]
      BY <1>1, <3>2 DEF Extends, n
    <3> QED
      BY <3>1, <3>2, <3>3, <3>4, <3>5
  <2>2. CASE i = n + 1
    <3>1. Reached(M.store, M.store[i].prev) = R
      BY <1>1, <1>2, <2>2 DEF R
    <3>2. NewestOn(M.store, R, M.store[i].branch, M.store[i].onBranch)
      BY <1>1, <1>4, <2>2
    <3>3. \A j \in R : M.store[j].born < n + 1
      <4> SUFFICES ASSUME NEW j \in R PROVE M.store[j].born < n + 1
        OBVIOUS
      <4>1. j \in 1..n
        BY <1>3
      <4>2. M.store[j] = st[j] /\ st[j].born <= j /\ st[j].born \in Nat
        <5>1. st[j] \in Written
          BY <1>1, <4>1, ElementOfSeq DEF StoreOK, n
        <5> QED
          BY <1>1, <4>1, <5>1 DEF AloneOK, LinkedOK, Extends, n, Written
      <4> QED
        BY <1>1, <4>1, <4>2
    <3> QED
      BY <1>1, <2>2, <3>1, <3>2, <3>3
  <2> QED
    BY <1>1, <2>1, <2>2
<1>7. LinkedOK(M.store)
  BY <1>1, <1>6 DEF LinkedOK
<1>8. TipsAbove(M)
  BY <1>1 DEF TipsAbove
<1> QED
  BY <1>1, <1>5, <1>7, <1>8 DEF AloneOK

LEMMA PushSound ==
  ASSUME NEW L, LogOK(L), NEW W, NEW w \in Trees, NEW draft \in Drafts, Sane(L.store, draft),
         Settled => w = Main /\ draft.effect.do = "none", Sound(L)
  PROVE  Sound(Push(L, W, w, draft))
<1> DEFINE M == Push(L, W, w, draft)
<1>1. Pushed(L, M, w, draft)
  BY PushOK
<1> HIDE DEF M
<1>2. OnlyGrows => GrowsOK(M)
  BY <1>1, PushedGrows DEF Sound
<1>3. Settled => AloneOK(M) /\ HeadedOK(M)
  BY <1>1, PushedAlone DEF Sound
<1> QED
  BY <1>2, <1>3 DEF Sound, M

(* Operations that say nothing of a worktree, in the one worktree where    *)
(* there is one.                                                           *)
LEMMA PlainSound ==
  ASSUME NEW L, LogOK(L), NEW W, NEW w \in Trees, Settled => w = Main, Sound(L),
         NEW d, NEW M, Plain(L, W, w, d, M)
  PROVE  Sound(M)
<1>1. d \in Drafts /\ Sane(L.store, d) /\ d.effect.do = "none" /\ M = Push(L, W, w, d)
  BY DEF Plain, NoEffect
<1> QED
  BY <1>1, PushSound

LEMMA ReconcileSound ==
  ASSUME NEW L, LogOK(L), NEW W, WorldOK(W), NEW w \in Trees, Settled => w = Main, Sound(L)
  PROVE  Sound(Reconciled(L, W, w))
BY ReconcileIs, PlainSound

LEMMA CaptureSound ==
  ASSUME NEW L, LogOK(L), NEW W, WorldOK(W), NEW w \in Trees, Settled => w = Main, Sound(L)
  PROVE  Sound(Captured(L, W, w))
<1> DEFINE M == Founded(L, W, w)
<1>1. Sound(M)
  BY ReconcileSound DEF Founded
<1>2. Wrote(L, M, w) /\ (Captured(L, W, w) = L \/ \E d : Plain(M, W, w, d, Captured(L, W, w)))
  BY CaptureIs
<1> HIDE DEF M
<1>3. LogOK(M)
  BY <1>2 DEF Wrote
<1> QED
  BY <1>1, <1>2, <1>3, PlainSound

LEMMA PreambleSound ==
  ASSUME LogOK(Log), WorldOK(World), NEW w \in Trees, Settled => w = Main, Sound(Log)
  PROVE  Sound(Preamble(w))
<1> DEFINE M == Reconciled(Log, World, w)
           L == Log
           W == World
<1>1. Wrote(L, M, w) /\ Sound(M)
  BY ReconcileOK, ReconcileSound
<1>2. LogOK(M)
  BY <1>1 DEF Wrote
<1> HIDE DEF M, L, W
<1>3. Sound(Captured(M, W, w))
  BY <1>1, <1>2, CaptureSound DEF W
<1> QED
  BY <1>3 DEF Preamble, M, L, W

(* A verb's own operation, after the preamble.                             *)
LEMMA VerbSound ==
  ASSUME IInv, NEW w \in Trees, Settled => w = Main, Sound(Log), NEW W, WorldOK(W)
  PROVE  Sound(Push(Preamble(w), W, w, Draft(W, w, "op", Observe(W, w))))
<1>1. LogOK(Preamble(w)) /\ Len(Preamble(w).store) \in Nat
  BY PreambleOK DEF IInv, Wrote, LogOK, StoreOK
<1>2. Sound(Preamble(w))
  BY PreambleSound DEF IInv
<1>3. Observe(W, w) \in [Branches -> Nat] /\ "op" \in Kinds
  BY ObservedType DEF Kinds
<1> DEFINE d == Draft(W, w, "op", Observe(W, w))
           L == Preamble(w)
           M == Push(L, W, w, d)
<1>4. d \in Drafts /\ Sane(L.store, d) /\ d.effect = NoEffect
  BY <1>1, <1>3, DraftIs
<1> HIDE DEF d, L
<1>5. Plain(L, W, w, d, M)
  BY <1>4 DEF Plain
<1> HIDE DEF M
<1>6. Sound(M)
  BY <1>1, <1>2, <1>5, PlainSound DEF L
<1> QED
  BY <1>6 DEF M, L, d

-----------------------------------------------------------------------------
(***************************************************************************)
(* Pointers and the moves along the log.                                   *)
(***************************************************************************)

(* The newest of a set, and of another with the same operations on b.      *)
LEMMA NewestSame ==
  ASSUME NEW st, NEW S, NEW T, NEW b, NEW i, NewestOn(st, S, b, i),
         \A j : j \in S /\ st[j].branch = b <=> j \in T /\ st[j].branch = b
  PROVE  NewestOn(st, T, b, i)
BY DEF NewestOn

LEMMA Beneath ==
  ASSUME NEW st, StoreOK(st), NEW hi \in 0..Len(st)
  PROVE  \A x \in Reached(st, hi) :
           /\ x \in 1..Len(st) /\ Reached(st, x) = Reached(st, hi) \cap 1..x
           /\ Reached(st, st[x].prev) = {j \in Reached(st, hi) : j < x}
<1>1. Older(st)
  BY StoreIsOlder
<1>2. /\ \A i \in 1..Len(st) : Reached(st, i) = {i} \cup Reached(st, st[i].prev)
      /\ \A i \in 0..Len(st) : /\ Reached(st, i) \subseteq 1..i
                               /\ \A j \in Reached(st, i) : Reached(st, j) = Reached(st, i) \cap 1..j
  BY ONLY <1>1, ReachedFacts
<1>3. Len(st) \in Nat /\ \A k \in 1..Len(st) : st[k].prev \in 0..(k - 1)
  BY <1>1 DEF Older
<1> SUFFICES ASSUME NEW x \in Reached(st, hi)
             PROVE  /\ x \in 1..Len(st) /\ Reached(st, x) = Reached(st, hi) \cap 1..x
                    /\ Reached(st, st[x].prev) = {j \in Reached(st, hi) : j < x}
  OBVIOUS
<1>4. x \in 1..hi /\ x \in 1..Len(st) /\ Reached(st, x) = Reached(st, hi) \cap 1..x
  BY <1>2, <1>3
<1>5. st[x].prev \in 0..(x - 1) /\ st[x].prev \in 0..Len(st)
  BY <1>3, <1>4
<1>6. Reached(st, st[x].prev) \subseteq 1..st[x].prev /\ Reached(st, hi) \subseteq 1..hi
  BY <1>2, <1>5
<1>7. Reached(st, hi) \cap 1..x = {x} \cup Reached(st, st[x].prev)
  BY <1>2, <1>4
<1>8. ASSUME NEW j \in Reached(st, st[x].prev) PROVE j \in Reached(st, hi) /\ j < x
  <2>1. j \in 1..st[x].prev
    BY <1>6
  <2> QED
    BY <1>5, <1>7, <2>1
<1>9. ASSUME NEW j \in Reached(st, hi), j < x PROVE j \in Reached(st, st[x].prev)
  <2>1. j \in 1..x /\ j # x
    BY <1>3, <1>4, <1>6, <1>9
  <2> QED
    BY <1>7, <2>1
<1> QED
  BY <1>4, <1>8, <1>9

(* move_pointer, leaving: the predecessor of the oldest operation left.    *)
LEMMA PointersBack ==
  ASSUME NEW L, LogOK(L), LinkedOK(L.store), NEW hi \in 0..Len(L.store),
         NEW lo \in Reached(L.store, hi), NEW back,
         Lists(back, Reached(L.store, hi) \ Reached(L.store, lo)),
         NEW b \in Branches, NewestOn(L.store, Reached(L.store, hi), b, L.snap[b])
  PROVE  NewestOn(L.store, Reached(L.store, lo), b, PointersAfter(L, back, << >>)[b])
<1> DEFINE st == L.store
           R == Reached(st, hi)
           T == Reached(st, lo)
           left == On(st, back, b)
           m == Max(left)
           x == back[m]
<1>1. StoreOK(st) /\ Len(st) \in Nat
  BY DEF LogOK, StoreOK
<1>2. /\ R \subseteq 1..Len(st) /\ T = R \cap 1..lo /\ lo \in 1..Len(st)
      /\ \A y \in R : Reached(st, st[y].prev) = {j \in R : j < y}
  BY <1>1, Beneath
<1>3. /\ Len(back) \in Nat /\ DOMAIN back = 1..Len(back) /\ Descends(back)
      /\ \A y : y \in R \ T <=> \E k \in 1..Len(back) : back[k] = y
  BY DEF Lists
<1>4. /\ left \subseteq 1..Len(back)
      /\ \A k : k \in left <=> k \in 1..Len(back) /\ st[back[k]].branch = b
  BY <1>3 DEF On
<1>5. PointersAfter(L, back, << >>)[b] = IF left # {} THEN st[x].onBranch ELSE L.snap[b]
  <2>1. On(st, << >>, b) = {}
    BY DEF On
  <2> QED
    BY <2>1 DEF PointersAfter
<1>6. \A j : st[j].branch # b => ~(j \in R /\ st[j].branch = b)
  OBVIOUS
<1> HIDE DEF left, R, T
<1>7. CASE left = {}
  <2>1. \A j : j \in R /\ st[j].branch = b <=> j \in T /\ st[j].branch = b
    BY <1>2, <1>3, <1>4, <1>7
  <2>2. NewestOn(st, R, b, L.snap[b])
    BY DEF R
  <2> QED
    BY <1>5, <1>7, <2>1, <2>2, NewestSame DEF T
<1>8. CASE left # {}
  <2>1. m \in left /\ \A k \in left : k <= m
    BY <1>3, <1>4, <1>8, MaxIs
  <2> HIDE DEF m
  <2>2. x \in R \ T /\ st[x].branch = b /\ m \in 1..Len(back)
    BY <1>3, <1>4, <2>1
  <2>3. \A y \in R \ T : st[y].branch = b => x <= y
    <3> TAKE y \in R \ T
    <3> HAVE st[y].branch = b
    <3>1. PICK k \in 1..Len(back) : back[k] = y
      BY <1>3
    <3>2. k \in left
      BY <1>4, <3>1
    <3>3. k = m \/ k < m
      BY <1>3, <2>1, <2>2, <3>2
    <3>4. y \in Nat /\ x \in Nat
      BY <1>2, <2>2
    <3> QED
      BY <1>3, <2>2, <3>1, <3>3, <3>4 DEF Descends
  <2> HIDE DEF x
  <2>4. NewestOn(st, {j \in R : j < x}, b, st[x].onBranch)
    <3>1. NewestOn(st, Reached(st, st[x].prev), st[x].branch, st[x].onBranch)
      BY <1>2, <2>2 DEF LinkedOK
    <3> QED
      BY <1>2, <2>2, <3>1
  <2>5. \A j : j \in {k \in R : k < x} /\ st[j].branch = b <=> j \in T /\ st[j].branch = b
    <3>1. x > lo /\ x \in Nat
      BY <1>2, <2>2
    <3>2. \A j \in T : j \in R /\ j < x
      BY <1>2, <3>1
    <3>3. \A j \in R : j < x /\ st[j].branch = b => j \in T
      BY <1>2, <2>3, <3>1
    <3> QED
      BY <3>2, <3>3
  <2>6. NewestOn(st, T, b, st[x].onBranch)
    BY <2>4, <2>5, NewestSame
  <2> QED
    BY <1>5, <1>8, <2>6 DEF T
<1> QED
  BY <1>7, <1>8

(* move_pointer, entering: the newest operation entered.                   *)
LEMMA PointersForward ==
  ASSUME NEW L, LogOK(L), NEW hi \in 0..Len(L.store), NEW lo \in Reached(L.store, hi), NEW fwd,
         Lists(fwd, Reached(L.store, hi) \ Reached(L.store, lo)),
         NEW b \in Branches, NewestOn(L.store, Reached(L.store, lo), b, L.snap[b])
  PROVE  NewestOn(L.store, Reached(L.store, hi), b, PointersAfter(L, << >>, fwd)[b])
<1> DEFINE st == L.store
           R == Reached(st, hi)
           T == Reached(st, lo)
           entered == On(st, fwd, b)
           m == Min(entered)
           x == fwd[m]
<1>1. StoreOK(st) /\ Len(st) \in Nat
  BY DEF LogOK, StoreOK
<1>2. R \subseteq 1..Len(st) /\ T = R \cap 1..lo /\ lo \in 1..Len(st)
  BY <1>1, Beneath
<1>3. /\ Len(fwd) \in Nat /\ DOMAIN fwd = 1..Len(fwd) /\ Descends(fwd)
      /\ \A y : y \in R \ T <=> \E k \in 1..Len(fwd) : fwd[k] = y
  BY DEF Lists
<1>4. /\ entered \subseteq 1..Len(fwd)
      /\ \A k : k \in entered <=> k \in 1..Len(fwd) /\ st[fwd[k]].branch = b
  BY <1>3 DEF On
<1>5. PointersAfter(L, << >>, fwd)[b] = IF entered # {} THEN x ELSE L.snap[b]
  <2>1. On(st, << >>, b) = {}
    BY DEF On
  <2> QED
    BY <2>1 DEF PointersAfter
<1> HIDE DEF entered, R, T
<1>6. CASE entered = {}
  <2>1. \A j : j \in T /\ st[j].branch = b <=> j \in R /\ st[j].branch = b
    BY <1>2, <1>3, <1>4, <1>6
  <2>2. NewestOn(st, T, b, L.snap[b])
    BY DEF T
  <2> QED
    BY <1>5, <1>6, <2>1, <2>2, NewestSame DEF R
<1>7. CASE entered # {}
  <2>1. m \in entered /\ \A k \in entered : m <= k
    BY <1>3, <1>4, <1>7, MinIs
  <2> HIDE DEF m
  <2>2. x \in R \ T /\ st[x].branch = b /\ m \in 1..Len(fwd) /\ x \in Nat /\ x > lo
    <3>1. x \in R \ T /\ st[x].branch = b /\ m \in 1..Len(fwd)
      BY <1>3, <1>4, <2>1
    <3> HIDE DEF x
    <3>2. x \in 1..Len(st) /\ ~(x \in 1..lo)
      BY <1>2, <3>1
    <3> QED
      BY <1>2, <3>1, <3>2
  <2>3. \A y \in R \ T : st[y].branch = b => y <= x
    <3> TAKE y \in R \ T
    <3> HAVE st[y].branch = b
    <3>1. PICK k \in 1..Len(fwd) : fwd[k] = y
      BY <1>3
    <3>2. k \in entered
      BY <1>4, <3>1
    <3>3. k = m \/ m < k
      BY <1>3, <2>1, <2>2, <3>2
    <3>4. y \in Nat
      BY <1>2
    <3> QED
      BY <1>3, <2>2, <3>1, <3>3, <3>4 DEF Descends
  <2> HIDE DEF x
  <2>4. \A y \in T : y <= x
    BY <1>2, <2>2
  <2>5. x # None
    BY <1>2, <2>2 DEF None
  <2>6. NewestOn(st, R, b, x)
    BY <2>2, <2>3, <2>4, <2>5 DEF NewestOn
  <2> QED
    BY <1>5, <1>7, <2>6 DEF R
<1> QED
  BY <1>6, <1>7

(* A move where no operation says anything of a worktree.                  *)
LEMMA RewindAlone ==
  ASSUME IInv, NEW L, NEW target, NEW back, NEW fwd, NEW undone, NEW S,
         Asked(Main, L, target, back, fwd, undone, S),
         Rewind(Main, L, target, back, fwd, undone), AloneOK(L)
  PROVE  /\ store' = L.store /\ opsRef'[Main] = target /\ ahead'[Main] = undone
         /\ \A v \in Trees \ {Main} : opsRef'[v] = L.ops[v]
         /\ snap' = PointersAfter(L, back, fwd) /\ live' = live
         /\ UNCHANGED <<story, pass, crashes>>
<1>1. /\ LogOK(L) /\ S \subseteq 1..Len(L.store)
      /\ Moved(L, World, AfterEffects(L, World, back, fwd), S)
  BY DEF Asked, Wrote
<1>2. AfterEffects(L, World, back, fwd) = Both(L, World)
  <2>1. \A i \in S : L.store[i].effect.do = "none"
    BY <1>1 DEF AloneOK, LinkedOK
  <2> QED
    BY <1>1, <2>1 DEF Moved
<1>3. /\ SetLog([L EXCEPT !.ops[Main] = target, !.snap = PointersAfter(L, back, fwd),
                          !.ahead[Main] = undone])
      /\ live' = live /\ UNCHANGED <<story, pass, crashes>>
  <2> DEFINE MW == AfterEffects(L, World, back, fwd)
             m == Movable(Main, MW.world)
             t == [b \in Branches |-> IF b \in m THEN L.store[target].table[b] ELSE tips[b]]
             N == [MW.world EXCEPT !.tips = t, !.at[Main] = L.store[target].head,
                                   !.files[Main] = L.store[target].files]
  <2>1. /\ SetLog([MW.log EXCEPT !.ops[Main] = target, !.snap = PointersAfter(MW.log, back, fwd),
                                 !.ahead[Main] = undone])
        /\ SetWorld(N) /\ UNCHANGED <<story, pass, crashes>>
    BY DEF Rewind
  <2>2. MW.log = L /\ MW.world = World
    BY <1>2 DEF Both
  <2> HIDE DEF MW, t
  <2>3. N.live = live
    BY <2>2 DEF World
  <2>4. live' = live
    BY <2>1, <2>3 DEF SetWorld
  <2> QED
    BY <2>1, <2>2, <2>4
<1>4. /\ L = [store |-> L.store, ops |-> L.ops, snap |-> L.snap, ahead |-> L.ahead]
      /\ DOMAIN L.ops = Trees /\ DOMAIN L.ahead = Trees
  BY <1>1 DEF LogOK
<1> DEFINE p == PointersAfter(L, back, fwd)
<1> HIDE DEF p
<1>5. SetLog([L EXCEPT !.ops[Main] = target, !.snap = p, !.ahead[Main] = undone])
  BY <1>3 DEF p
<1>6. /\ store' = L.store /\ opsRef' = [L.ops EXCEPT ![Main] = target] /\ snap' = p
      /\ ahead' = [L.ahead EXCEPT ![Main] = undone]
  BY ONLY <1>4, <1>5 DEF SetLog
<1> QED
  BY <1>3, <1>4, <1>6, MainAssumption DEF p

(* What undo had left, one tip more, or one tip less.                      *)
LEMMA TipsPushed ==
  ASSUME NEW L, LogOK(L), TipsAbove(L), NEW target \in Reached(L.store, L.ops[Main]),
         NEW M, M.store = L.store, M.ops[Main] = target,
         M.ahead[Main] = Append(L.ahead[Main], L.ops[Main])
  PROVE  TipsAbove(M)
<1> DEFINE s == L.ahead[Main]
           i == L.ops[Main]
           n == Len(s)
<1>1. s \in Seq(1..Len(L.store)) /\ i \in 0..Len(L.store)
  BY MainAssumption DEF LogOK
<1>2. \A k \in 1..n : (IF k = n THEN i ELSE s[k + 1]) \in Reached(L.store, s[k])
  BY DEF TipsAbove, Lower
<1>3. /\ n \in Nat /\ Len(M.ahead[Main]) = n + 1 /\ M.ahead[Main][n + 1] = i
      /\ \A k \in 1..n : M.ahead[Main][k] = s[k]
  BY <1>1
<1> HIDE DEF s, i, n
<1>4. ASSUME NEW k \in 1..(n + 1)
      PROVE  (IF k = n + 1 THEN target ELSE M.ahead[Main][k + 1]) \in Reached(L.store, M.ahead[Main][k])
  <2>1. CASE k = n + 1
    BY <1>3, <2>1 DEF i
  <2>2. CASE k # n + 1
    <3>1. k \in 1..n /\ (k # n => k + 1 \in 1..n)
      BY <1>3, <2>2
    <3> QED
      BY <1>2, <1>3, <2>2, <3>1
  <2> QED
    BY <2>1, <2>2
<1> QED
  BY <1>3, <1>4 DEF TipsAbove, Lower

LEMMA TipsPopped ==
  ASSUME NEW L, LogOK(L), TipsAbove(L), L.ahead[Main] # << >>,
         NEW M, M.store = L.store, M.ops[Main] = Last(L.ahead[Main]),
         M.ahead[Main] = Front(L.ahead[Main])
  PROVE  /\ TipsAbove(M) /\ Last(L.ahead[Main]) \in 0..Len(L.store)
         /\ L.ops[Main] \in Reached(L.store, Last(L.ahead[Main]))
<1> DEFINE s == L.ahead[Main]
           i == L.ops[Main]
           n == Len(s)
<1>1. s \in Seq(1..Len(L.store)) /\ i \in 0..Len(L.store) /\ s # << >> /\ Len(L.store) \in Nat
  BY MainAssumption DEF LogOK, StoreOK
<1>2. \A k \in 1..n : (IF k = n THEN i ELSE s[k + 1]) \in Reached(L.store, s[k])
  BY DEF TipsAbove, Lower
<1>3. n \in Nat \ {0} /\ s[n] \in 1..Len(L.store)
  <2>1. n \in Nat \ {0}
    BY <1>1
  <2> QED
    BY ONLY <1>1, <2>1, ElementOfSeq, n \in 1..n
<1>4. Last(s) = s[n] /\ Front(s) = SubSeq(s, 1, n - 1)
  BY DEF Last, Front
<1>5. Len(Front(s)) = n - 1 /\ \A k \in 1..(n - 1) : Front(s)[k] = s[k]
  BY ONLY <1>1, <1>3, <1>4, SeqFront
<1> HIDE DEF s, i, n
<1>6. ASSUME NEW k \in 1..(n - 1)
      PROVE  (IF k = n - 1 THEN s[n] ELSE Front(s)[k + 1]) \in Reached(L.store, Front(s)[k])
  <2>1. /\ k \in 1..n /\ k # n /\ k + 1 \in 1..n /\ (k = n - 1 => k + 1 = n)
        /\ (k # n - 1 => k + 1 \in 1..(n - 1))
    BY <1>3
  <2> QED
    BY <1>2, <1>5, <2>1
<1>7. i \in Reached(L.store, s[n])
  BY <1>2, <1>3
<1>8. s[n] \in 0..Len(L.store)
  BY <1>1, <1>3
<1> QED
  BY <1>4, <1>5, <1>6, <1>7, <1>8 DEF TipsAbove, Lower, s, i

LEMMA UndoSettled ==
  ASSUME IInv, Settled, AloneOK(Log), HeadedOK(Log), OnlyGrows => GrowsOK(Log), Undo(Main)
  PROVE  /\ AloneOK(Log') /\ HeadedOK(Log') /\ live' = live
         /\ UNCHANGED <<story, pass, crashes>>
<1> DEFINE L == Preamble(Main)
           ops == ChainIn(L.store, L.ops[Main])
           last == RunEnd(L, ops)
           target == ops[last + 1]
           back == SubSeq(ops, 1, last)
           undone == Append(L.ahead[Main], L.ops[Main])
           S == Newest(ops, last)
<1>1. /\ Rewind(Main, L, target, back, << >>, undone)
      /\ Asked(Main, L, target, back, << >>, undone, S)
      /\ S = Reached(L.store, L.ops[Main]) \ Reached(L.store, target)
  BY MainAssumption, UndoAsks
<1>2. LogOK(L) /\ L.ops[Main] \in 0..Len(L.store)
  BY MainAssumption, PreambleOK DEF IInv, Wrote, LogOK
<1>3. AloneOK(L) /\ HeadedOK(L)
  BY MainAssumption, PreambleSound DEF IInv, Sound
<1>4. target \in Reached(L.store, L.ops[Main])
  <2>1. HasRun(L, ops)
    BY DEF Undo, HasRun
  <2>2. last \in 1..Len(ops) /\ last < Len(ops)
    BY <1>2, <2>1, RunEndIs DEF LeavesRun, HasRun
  <2>3. ops = DescentIn(L.store, L.ops[Main]) /\ Older(L.store)
    BY <1>2, ChainIsDescent, StoreIsOlder DEF LogOK
  <2> HIDE DEF ops, last, L
  <2>4. Len(ops) \in Nat /\ \A y : y \in Reached(L.store, L.ops[Main]) <=> \E k \in 1..Len(ops) : ops[k] = y
    BY <1>2, <2>3, DescentMembers
  <2>5. last + 1 \in 1..Len(ops)
    BY <2>2, <2>4
  <2> QED
    BY <2>4, <2>5
<1>5. undone = Append(L.ahead[Main], L.ops[Main])
  OBVIOUS
<1> HIDE DEF L, ops, last, target, back, S, undone
<1>6. /\ store' = L.store /\ opsRef'[Main] = target /\ ahead'[Main] = undone
      /\ \A v \in Trees \ {Main} : opsRef'[v] = L.ops[v]
      /\ snap' = PointersAfter(L, back, << >>) /\ live' = live
      /\ UNCHANGED <<story, pass, crashes>>
  BY <1>1, <1>3, RewindAlone
<1>7. /\ Log'.store = store' /\ Log'.ops = opsRef' /\ Log'.snap = snap' /\ Log'.ahead = ahead'
  BY DEF Log
<1>8. Lists(back, Reached(L.store, L.ops[Main]) \ Reached(L.store, target))
  <2>1. PICK A, B : Lists(back, A) /\ Lists(<< >>, B) /\ A \cup B = S
    BY <1>1 DEF Asked
  <2>2. B = {}
    BY <2>1 DEF Lists
  <2> QED
    BY <1>1, <2>1, <2>2
<1>9. HeadedOK(Log')
  <2> SUFFICES ASSUME NEW b \in Branches
               PROVE  NewestOn(L.store, Reached(L.store, target), b, PointersAfter(L, back, << >>)[b])
    BY <1>6, <1>7 DEF HeadedOK
  <2> QED
    BY <1>2, <1>3, <1>4, <1>8, PointersBack DEF AloneOK, HeadedOK
<1>10. TipsAbove(Log')
  <2> DEFINE M == Log'
  <2>1. M.store = L.store /\ M.ops[Main] = target /\ M.ahead[Main] = Append(L.ahead[Main], L.ops[Main])
    BY <1>5, <1>6, <1>7
  <2> HIDE DEF M
  <2>2. TipsAbove(M)
    BY <1>2, <1>3, <1>4, <2>1, TipsPushed DEF AloneOK
  <2> QED
    BY <2>2 DEF M
<1>11. AloneOK(Log')
  BY <1>3, <1>6, <1>7, <1>10 DEF AloneOK
<1> QED
  BY <1>6, <1>9, <1>11

LEMMA RedoSettled ==
  ASSUME IInv, Settled, AloneOK(Log), HeadedOK(Log), OnlyGrows => GrowsOK(Log), Redo(Main)
  PROVE  /\ AloneOK(Log') /\ HeadedOK(Log') /\ live' = live
         /\ UNCHANGED <<story, pass, crashes>>
<1> DEFINE L == Preamble(Main)
           a == L.ahead[Main]
           target == Last(a)
           fwd == Only(ChainIn(L.store, target), ChainIn(L.store, L.ops[Main]))
           S == Reached(L.store, target) \ Reached(L.store, L.ops[Main])
<1>1. /\ Rewind(Main, L, target, << >>, fwd, Front(a))
      /\ Asked(Main, L, target, << >>, fwd, Front(a), S)
  BY MainAssumption, RedoAsks
<1>2. LogOK(L) /\ L.ops[Main] \in 0..Len(L.store)
  BY MainAssumption, PreambleOK DEF IInv, Wrote, LogOK
<1>3. AloneOK(L) /\ HeadedOK(L) /\ a # << >>
  BY MainAssumption, PreambleSound DEF IInv, Sound, Redo
<1>4. target = Last(L.ahead[Main]) /\ a = L.ahead[Main]
  OBVIOUS
<1> HIDE DEF L, target, fwd, a
<1>5. /\ store' = L.store /\ opsRef'[Main] = target /\ ahead'[Main] = Front(a)
      /\ \A v \in Trees \ {Main} : opsRef'[v] = L.ops[v]
      /\ snap' = PointersAfter(L, << >>, fwd) /\ live' = live
      /\ UNCHANGED <<story, pass, crashes>>
  BY <1>1, <1>3, RewindAlone
<1>6. /\ Log'.store = store' /\ Log'.ops = opsRef' /\ Log'.snap = snap' /\ Log'.ahead = ahead'
  BY DEF Log
<1>7. TipsAbove(Log') /\ target \in 0..Len(L.store) /\ L.ops[Main] \in Reached(L.store, target)
  <2> DEFINE M == Log'
  <2>1. M.store = L.store /\ M.ops[Main] = Last(L.ahead[Main]) /\ M.ahead[Main] = Front(L.ahead[Main])
    BY <1>4, <1>5, <1>6
  <2> HIDE DEF M
  <2>2. TipsAbove(L) /\ L.ahead[Main] # << >>
    BY <1>3, <1>4 DEF AloneOK
  <2>3. /\ TipsAbove(M) /\ Last(L.ahead[Main]) \in 0..Len(L.store)
        /\ L.ops[Main] \in Reached(L.store, Last(L.ahead[Main]))
    BY ONLY <1>2, <2>1, <2>2, TipsPopped
  <2> QED
    BY <1>4, <2>3 DEF M
<1>8. Lists(fwd, S)
  <2>1. PICK A, B : Lists(<< >>, A) /\ Lists(fwd, B) /\ A \cup B = S
    BY <1>1 DEF Asked
  <2>2. A = {}
    BY <2>1 DEF Lists
  <2> QED
    BY <2>1, <2>2
<1>9. HeadedOK(Log')
  <2> SUFFICES ASSUME NEW b \in Branches
               PROVE  NewestOn(L.store, Reached(L.store, target), b, PointersAfter(L, << >>, fwd)[b])
    BY <1>5, <1>6 DEF HeadedOK
  <2> QED
    BY <1>2, <1>3, <1>7, <1>8, PointersForward DEF HeadedOK
<1>10. AloneOK(Log')
  BY <1>3, <1>5, <1>6, <1>7 DEF AloneOK
<1> QED
  BY <1>5, <1>9, <1>10

-----------------------------------------------------------------------------
(***************************************************************************)
(* Pointers and a pass of retention.                                       *)
(***************************************************************************)

(* The first k of what is written after the n-th.                          *)
After(n, k) == {n + i : i \in 1..k}

(* The chain of what was written last, each operation upon the one before. *)
LEMMA ChainRun ==
  ASSUME NEW su, Older(su), NEW n \in Nat, NEW m \in Nat, Len(su) = n + m,
         \A i \in 1..m : su[n + i].prev = IF i = 1 THEN 0 ELSE n + i - 1
  PROVE  \A k \in 1..m : Reached(su, n + k) = After(n, k)
<1> DEFINE P(k) == k = 0 \/ Reached(su, n + k) = {n + i : i \in 1..k}
           T == {k \in 0..m : P(k)}
<1>1. /\ Reached(su, 0) = {}
      /\ \A i \in 1..Len(su) : Reached(su, i) = {i} \cup Reached(su, su[i].prev)
  BY ReachedFacts
<1>2. ASSUME NEW k \in 0..m, \A j \in 0..m : j < k => j \in T
      PROVE  k \in T
  <2>1. CASE k = 0
    BY <2>1
  <2>2. CASE k # 0
    <3>1. n + k \in 1..Len(su) /\ k \in 1..m
      BY <2>2
    <3>2. Reached(su, n + k) = {n + k} \cup Reached(su, su[n + k].prev)
      BY <1>1, <3>1
    <3>3. CASE k = 1
      <4>1. Reached(su, n + k) = {n + 1}
        BY <1>1, <3>1, <3>2, <3>3
      <4> QED
        BY <3>3, <4>1
    <3>4. CASE k # 1
      <4>1. k - 1 \in 0..m /\ k - 1 < k /\ k - 1 # 0 /\ n + k - 1 = n + (k - 1)
        BY <3>1, <3>4
      <4>2. P(k - 1)
        BY <1>2, <4>1
      <4>3. Reached(su, n + k) = {n + k} \cup {n + i : i \in 1..(k - 1)}
        BY <3>1, <3>2, <3>4, <4>1, <4>2
      <4>4. {n + k} \cup {n + i : i \in 1..(k - 1)} = {n + i : i \in 1..k}
        <5>1. 1..k = {k} \cup 1..(k - 1)
          BY <3>1
        <5> QED
          BY <5>1
      <4> QED
        BY <4>3, <4>4
    <3> QED
      BY <3>3, <3>4
  <2> QED
    BY <2>1, <2>2
<1>3. 0..m \subseteq T
  <2> HIDE DEF T
  <2> QED
    BY <1>2, AllNumbers
<1>4. \A k \in 1..m : k \in 0..m /\ k # 0
  OBVIOUS
<1> QED
  BY <1>3, <1>4 DEF After

(* The newest of a chain: whatever else it has is older than all of them.  *)
Tops(ids, m, R) ==
  /\ \A k \in 1..m : ids[k] \in R
  /\ \A j, k \in 1..m : j < k => ids[j] < ids[k]
  /\ \A y \in R : (\E k \in 1..m : ids[k] = y) \/ \A k \in 1..m : y < ids[k]

LEMMA SurvivorsAreTops ==
  ASSUME IInv, NEW w \in Trees, NEW kept \in Nat, kept < Len(Chain(w)),
         NEW ids, ids = Reverse(SubSeq(Chain(w), 1, kept))
  PROVE  Tops(ids, kept, OnLog(w))
<1> DEFINE n == Len(store)
           c == Chain(w)
           s == SubSeq(c, 1, kept)
           R == OnLog(w)
<1>1. /\ opsRef[w] \in 0..n /\ Older(store) /\ n \in Nat
  BY LogIs, StoreIsOlder DEF IInv, LogOK, StoreOK
<1>2. /\ c \in Seq(1..opsRef[w]) /\ Len(c) \in Nat /\ Descends(c)
      /\ \A k \in 1..Len(c) : c[k] \in 1..opsRef[w]
      /\ \A y : y \in R <=> \E k \in 1..Len(c) : c[k] = y
  <2> DEFINE hi == opsRef[w]
             d == DescentIn(store, hi)
  <2>1. c = d /\ R = Reached(store, hi)
    BY ChainIsDescent DEF Chain, OnLog
  <2> HIDE DEF hi, c, R
  <2>2. hi \in 0..Len(store)
    BY <1>1 DEF hi
  <2>3. /\ d \in Seq(1..hi) /\ Len(d) \in Nat /\ Descends(d)
        /\ \A k \in 1..Len(d) : d[k] \in 1..hi
        /\ \A y : y \in Reached(store, hi) <=> \E k \in 1..Len(d) : d[k] = y
    BY ONLY <1>1, <2>2, DescentMembers
  <2> HIDE DEF d
  <2>4. /\ c \in Seq(1..hi) /\ Len(c) \in Nat /\ Descends(c)
        /\ \A k \in 1..Len(c) : c[k] \in 1..hi
        /\ \A y : y \in R <=> \E k \in 1..Len(c) : c[k] = y
    BY <2>1, <2>3
  <2> QED
    BY <2>4 DEF hi
<1>3. kept < Len(c)
  OBVIOUS
<1>4. ids = Reverse(s)
  OBVIOUS
<1> HIDE DEF c, n, R
<1>5. Len(s) = kept /\ \A k \in 1..kept : s[k] = c[k]
  <2>1. kept \in 0..Len(c)
    BY <1>2, <1>3
  <2> QED
    BY ONLY <1>2, <2>1, SeqStart
<1> HIDE DEF s
<1>6. ids = [i \in 1..kept |-> s[kept - i + 1]]
  BY <1>4, <1>5 DEF Reverse
<1>7. ASSUME NEW i \in 1..kept
      PROVE  ids[i] = c[kept - i + 1] /\ kept - i + 1 \in 1..kept /\ kept - i + 1 \in 1..Len(c)
  <2>1. kept - i + 1 \in 1..kept /\ kept - i + 1 \in 1..Len(c)
    BY <1>2, <1>3
  <2> QED
    BY <1>5, <1>6, <2>1
<1>8. \A k \in 1..kept : ids[k] \in R
  BY <1>2, <1>7
<1>9. ASSUME NEW j \in 1..kept, NEW k \in 1..kept, j < k
      PROVE  ids[j] < ids[k]
  <2>1. kept - k + 1 < kept - j + 1
    BY <1>9
  <2> QED
    BY <1>2, <1>7, <2>1 DEF Descends
<1>10. ASSUME NEW y \in R
       PROVE  (\E k \in 1..kept : ids[k] = y) \/ \A k \in 1..kept : y < ids[k]
  <2>1. PICK l \in 1..Len(c) : c[l] = y
    BY <1>2
  <2>2. CASE l <= kept
    <3>1. kept - l + 1 \in 1..kept /\ kept - (kept - l + 1) + 1 = l
      BY <1>2, <2>1, <2>2
    <3>2. ids[kept - l + 1] = c[l]
      BY <1>7, <3>1
    <3> QED
      BY <2>1, <3>1, <3>2
  <2>3. CASE ~(l <= kept)
    <3>1. ASSUME NEW k \in 1..kept PROVE y < ids[k]
      <4>1. kept - k + 1 < l
        BY <1>2, <2>3
      <4> QED
        BY <1>2, <1>7, <2>1, <4>1 DEF Descends
    <3> QED
      BY <3>1
  <2> QED
    BY <2>2, <2>3
<1> QED
  BY <1>8, <1>9, <1>10 DEF Tops, R

(* The copies are linked as what they are copies of.                       *)
LEMMA CopiesLinked ==
  ASSUME StoreOK(store), LinkedOK(store), NEW hi \in 0..Len(store),
         NEW m \in Nat, NEW ids, Tops(ids, m, Reached(store, hi)),
         NEW su, Copied(ids, m, su)
  PROVE  LinkedOK(su)
<1> DEFINE n == Len(store)
           R == Reached(store, hi)
<1>1. /\ n \in Nat /\ Older(store) /\ Older(su) /\ StoreOK(su) /\ Extends(su, store)
      /\ Len(su) = n + m
  <2>1. StoreOK(su) /\ Extends(su, store) /\ Len(su) = n + m
    BY DEF Copied
  <2>2. Older(store) /\ Older(su)
    BY <2>1, StoreIsOlder
  <2>3. n \in Nat
    BY <2>2 DEF Older
  <2> QED
    BY <2>1, <2>2, <2>3
<1>2. \A i \in 0..n : Reached(su, i) = Reached(store, i) /\ Reached(store, i) \subseteq 1..i
  BY <1>1, ReachedStays
<1>3. \A x \in R : x \in 1..n /\ Reached(store, store[x].prev) = {j \in R : j < x}
  BY Beneath
<1>4. \A i \in 1..m :
        LET new == su[n + i]
            old == store[ids[i]]
        IN /\ new.prev = (IF i = 1 THEN 0 ELSE n + i - 1)
           /\ new.effect = old.effect /\ new.branch = old.branch /\ new.born = old.born
           /\ ImageIs(ids, m, old.onBranch, new.onBranch)
  BY DEF Copied
<1>5. \A k \in 1..m : ids[k] \in R /\ ids[k] \in 1..n
  BY <1>3 DEF Tops
<1>6. \A j, k \in 1..m : j < k => ids[j] < ids[k]
  BY DEF Tops
<1>7. \A y \in R : (\E k \in 1..m : ids[k] = y) \/ \A k \in 1..m : y < ids[k]
  BY DEF Tops
<1>8. /\ Reached(su, 0) = {}
      /\ \A k \in 1..m : Reached(su, n + k) = After(n, k)
  <2>1. \A i \in 1..m : su[n + i].prev = IF i = 1 THEN 0 ELSE n + i - 1
    BY <1>4
  <2> QED
    <3> HIDE DEF n
    <3>1. Reached(su, 0) = {}
      BY ONLY <1>1, ReachedFacts
    <3>2. m \in Nat
      OBVIOUS
    <3>3. \A k \in 1..m : Reached(su, n + k) = After(n, k)
      <4>1. Older(su) /\ n \in Nat /\ Len(su) = n + m
        BY ONLY <1>1
      <4> QED
        BY ONLY <2>1, <3>2, <4>1, ChainRun
    <3> QED
      BY <3>1, <3>3
<1>9. ASSUME NEW x \in 1..n
      PROVE  /\ store[x].effect.do = "none" /\ store[x].born <= x
             /\ NewestOn(store, Reached(store, store[x].prev), store[x].branch, store[x].onBranch)
             /\ \A j \in Reached(store, store[x].prev) : store[j].born < store[x].born
  BY DEF LinkedOK
<1> HIDE DEF R, n
<1>10. ASSUME NEW i \in 1..m
       PROVE  LET x == n + i
              IN /\ su[x].effect.do = "none" /\ su[x].born <= x
                 /\ NewestOn(su, Reached(su, su[x].prev), su[x].branch, su[x].onBranch)
                 /\ \A j \in Reached(su, su[x].prev) : su[j].born < su[x].born
  <2> DEFINE x == n + i
             o == ids[i]
             b == store[o].branch
             below == {n + k : k \in 1..(i - 1)}
  <2>1. Reached(su, su[x].prev) = below
    <3>1. CASE i = 1
      BY <1>4, <1>8, <3>1
    <3>2. CASE i # 1
      <4>1. i - 1 \in 1..m /\ n + i - 1 = n + (i - 1)
        BY <1>1, <3>2
      <4> QED
        BY <1>4, <1>8, <3>2, <4>1 DEF After
    <3> QED
      BY <3>1, <3>2
  <2>2. o \in 1..n /\ o \in R
    BY <1>5
  <2>3. /\ store[o].effect.do = "none" /\ store[o].born <= o
        /\ NewestOn(store, {j \in R : j < o}, b, store[o].onBranch)
        /\ \A j \in R : j < o => store[j].born < store[o].born
    BY <1>3, <1>9, <2>2
  <2>4. /\ su[x].effect = store[o].effect /\ su[x].branch = b /\ su[x].born = store[o].born
        /\ ImageIs(ids, m, store[o].onBranch, su[x].onBranch)
    BY <1>4
  <2>5. \A k \in 1..(i - 1) : /\ k \in 1..m /\ k < i /\ ids[k] < o /\ ids[k] \in R
                              /\ su[n + k].branch = store[ids[k]].branch
                              /\ su[n + k].born = store[ids[k]].born
    <3> TAKE k \in 1..(i - 1)
    <3>1. k \in 1..m /\ k < i
      OBVIOUS
    <3> QED
      BY <1>4, <1>5, <1>6, <3>1
  <2> HIDE DEF o, b
  <2>6. NewestOn(su, below, b, su[x].onBranch)
    <3> DEFINE old == store[o].onBranch
               new == su[x].onBranch
    <3>1. CASE \E k \in 1..m : ids[k] = old /\ new = n + k
      <4>1. PICK k \in 1..m : ids[k] = old /\ new = n + k
        BY <3>1
      <4>2. old # None
        BY <1>1, <1>5, <4>1 DEF None
      <4>3. old \in R /\ old < o /\ store[old].branch = b
            /\ \A j \in R : j < o /\ store[j].branch = b => j <= old
        BY <2>3, <4>2 DEF NewestOn
      <4>4. k \in 1..(i - 1)
        <5>1. k = i \/ i < k \/ k < i
          OBVIOUS
        <5>2. o \in Nat /\ ids[k] \in Nat /\ o = ids[i] /\ ids[k] < o
          BY <1>1, <1>5, <2>2, <4>1, <4>3 DEF o
        <5>3. ~(i < k)
          BY <1>6, <5>2
        <5> QED
          BY <5>1, <5>2, <5>3
      <4>5. new \in below /\ su[new].branch = b /\ new # None
        <5>1. new \in below
          BY <4>1, <4>4
        <5>2. su[n + k].branch = store[ids[k]].branch
          BY <2>5, <4>4
        <5>3. new # None
          BY <1>1, <4>1 DEF None
        <5> QED
          BY <4>1, <4>3, <5>1, <5>2, <5>3
      <4>6. ASSUME NEW l \in 1..(i - 1), su[n + l].branch = b PROVE n + l <= new
        <5>1. ids[l] <= ids[k]
          BY <2>5, <4>1, <4>3, <4>6
        <5>2. l \in 1..m /\ ids[l] \in Nat /\ ids[k] \in Nat
          BY <1>1, <1>5, <2>5
        <5>3. ~(k < l)
          BY <1>6, <5>1, <5>2
        <5> QED
          BY <1>1, <4>1, <5>2, <5>3
      <4>7. \A j \in below : su[j].branch = b => j <= new
        BY <4>6
      <4> QED
        BY <4>5, <4>7 DEF NewestOn
    <3>2. CASE (\A k \in 1..m : ids[k] # old) /\ new = None
      <4>1. ASSUME NEW k \in 1..(i - 1) PROVE su[n + k].branch # b
        <5> SUFFICES ASSUME su[n + k].branch = b PROVE FALSE
          OBVIOUS
        <5>1. ids[k] \in R /\ ids[k] < o /\ store[ids[k]].branch = b /\ k \in 1..m
          BY <2>5
        <5>2. old # None /\ old \in R /\ ids[k] <= old
          BY <2>3, <5>1 DEF NewestOn
        <5>3. old < ids[k]
          BY <1>7, <3>2, <5>1, <5>2
        <5>4. old \in Nat /\ ids[k] \in Nat
          BY <1>3, <1>5, <5>1, <5>2
        <5> QED
          BY <5>2, <5>3, <5>4
      <4> QED
        BY <3>2, <4>1 DEF NewestOn
    <3> QED
      BY <2>4, <3>1, <3>2 DEF ImageIs, n
  <2>7. \A j \in below : su[j].born < su[x].born
    BY <2>3, <2>4, <2>5
  <2>8. su[x].born <= x
    <3>1. su[x].born <= o /\ o <= n /\ o \in Nat
      BY <1>1, <2>2, <2>3, <2>4
    <3>2. su[x] \in Written /\ x \in Nat
      <4>1. x \in 1..Len(su)
        BY <1>1
      <4> QED
        BY <1>1, <4>1, ElementOfSeq DEF StoreOK
    <3>3. su[x].born \in Nat
      BY <3>2 DEF Written
    <3> QED
      BY <1>1, <3>1, <3>2, <3>3
  <2> QED
    BY <2>1, <2>3, <2>4, <2>6, <2>7, <2>8
<1>11. ASSUME NEW x \in 1..n
       PROVE  /\ su[x].effect.do = "none" /\ su[x].born <= x
              /\ NewestOn(su, Reached(su, su[x].prev), su[x].branch, su[x].onBranch)
              /\ \A j \in Reached(su, su[x].prev) : su[j].born < su[x].born
  <2> DEFINE below == Reached(store, store[x].prev)
  <2>1. su[x] = store[x] /\ store[x].prev \in 0..n /\ store[x].prev \in 0..(x - 1)
    BY <1>1 DEF Extends, Older, n
  <2>2. Reached(su, store[x].prev) = below /\ below \subseteq 1..n
    <3>1. below \subseteq 1..store[x].prev
      BY <1>2, <2>1 DEF n
    <3> QED
      BY <1>1, <1>2, <2>1, <3>1 DEF n
  <2> HIDE DEF below
  <2>3. /\ NewestOn(store, below, store[x].branch, store[x].onBranch)
        /\ \A j \in below : store[j].born < store[x].born
    BY <1>9 DEF below
  <2>4. NewestOn(su, below, store[x].branch, store[x].onBranch)
    BY <1>1, <2>2, <2>3, NewestStays DEF n
  <2>5. \A j \in below : su[j] = store[j]
    BY <1>1, <2>2 DEF Extends, n
  <2> QED
    BY <1>9, <2>1, <2>2, <2>3, <2>4, <2>5
<1>12. \A x \in 1..Len(su) : x \in 1..n \/ \E i \in 1..m : x = n + i
  <2> TAKE x \in 1..Len(su)
  <2>1. x \in 1..n \/ (x - n \in 1..m /\ x = n + (x - n))
    BY <1>1
  <2> QED
    BY <2>1
<1> QED
  BY <1>10, <1>11, <1>12 DEF LinkedOK

(* What a step of the pass has to leave behind.                            *)
StaysSettled ==
  /\ AloneOK(Log') /\ PassKnows(pass[Main])' /\ live' = live
  /\ \A w \in Trees \ {Main} : pass'[w] = pass[w]

LEMMA AloneStays ==
  ASSUME AloneOK(Log), store' = store, \A w \in Trees \ {Main} : opsRef'[w] = opsRef[w],
         ahead'[Main] = << >> \/ (ahead' = ahead /\ opsRef' = opsRef)
  PROVE  AloneOK(Log')
<1>1. /\ Log.store = store /\ Log.ops = opsRef /\ Log.ahead = ahead
      /\ Log'.store = store' /\ Log'.ops = opsRef' /\ Log'.ahead = ahead'
  BY LogIs DEF Log
<1> HIDE DEF Log
<1>2. TipsAbove(Log')
  <2>1. CASE ahead'[Main] = << >>
    BY <1>1, <2>1 DEF TipsAbove
  <2>2. CASE ahead' = ahead /\ opsRef' = opsRef
    BY <1>1, <2>2 DEF TipsAbove, Lower, AloneOK
  <2> QED
    BY <2>1, <2>2
<1> QED
  BY <1>1, <1>2 DEF AloneOK

(* The pointers there are name operations of the log, so they are the ones *)
(* a pass will replay.                                                     *)
LEMMA AllReplayed ==
  ASSUME IInv, HeadedOK(Log)
  PROVE  /\ PointersToReplay(Main) = {b \in Branches : snap[b] # None}
         /\ \A b \in Branches : snap[b] = None => \A j \in OnLog(Main) : store[j].branch # b
<1>1. \A b \in Branches : NewestOn(store, OnLog(Main), b, snap[b])
  BY LogIs DEF HeadedOK, OnLog
<1>2. \A j : j \in OnLog(Main) <=> \E k \in DOMAIN Chain(Main) : Chain(Main)[k] = j
  BY ChainIsDescent, ToSetIs DEF OnLog, Chain
<1>3. ASSUME NEW b \in Branches, snap[b] # None
      PROVE  b \in BranchesOn(Chain(Main))
  <2>1. snap[b] \in OnLog(Main) /\ store[snap[b]].branch = b
    BY <1>1, <1>3 DEF NewestOn
  <2>2. PICK k \in DOMAIN Chain(Main) : Chain(Main)[k] = snap[b]
    BY <1>2, <2>1
  <2> QED
    BY <2>1, <2>2 DEF BranchesOn
<1>4. PointersToReplay(Main) = {b \in Branches : snap[b] # None}
  BY <1>3, MainAssumption, ToReplayIs DEF PointersToReplay
<1> QED
  BY <1>1, <1>4 DEF NewestOn

LEMMA StartTrimSettled ==
  ASSUME IInv, AloneOK(Log), HeadedOK(Log), NEW kept \in 0..story.ops, StartTrim(Main, kept)
  PROVE  StaysSettled
<1> DEFINE ids == Reverse(SubSeq(Chain(Main), 1, kept))
           n == Len(store)
           p == pass'[Main]
<1>1. /\ pass' = [pass EXCEPT ![Main] =
           [step |-> "drop", ref |-> "log", lines |-> {}, todo |-> PointersToReplay(Main),
            new |-> {n + i : i \in DOMAIN ids}, seen |-> snap, expected |-> None]]
      /\ kept < Len(Chain(Main)) /\ UNCHANGED_World
      /\ UNCHANGED <<story, opsRef, snap, ahead>>
  BY DEF StartTrim
<1>2. /\ kept \in Nat /\ DOMAIN ids = 1..kept /\ Copied(ids, kept, store')
  BY MainAssumption, StartTrimCopies
<1>3. Tops(ids, kept, OnLog(Main))
  BY MainAssumption, <1>1, <1>2, SurvivorsAreTops
<1> HIDE DEF ids
<1>4. /\ StoreOK(store) /\ n \in Nat /\ opsRef[Main] \in 0..n /\ pass \in [Trees -> Passes]
      /\ opsRef \in [Trees -> 0..n] /\ ahead \in [Trees -> Seq(1..n)]
  BY MainAssumption, PassParts
<1>5. StoreOK(store') /\ Extends(store', store) /\ LinkedOK(store')
  <2>1. LinkedOK(store)
    BY LogIs DEF AloneOK
  <2>2. StoreOK(store') /\ Extends(store', store)
    BY <1>2 DEF Copied
  <2>3. opsRef[Main] \in 0..Len(store)
    BY <1>4
  <2>4. Tops(ids, kept, Reached(store, opsRef[Main]))
    BY <1>3 DEF OnLog
  <2>5. LinkedOK(store')
    BY ONLY <1>2, <1>4, <2>1, <2>3, <2>4, CopiesLinked
  <2> QED
    BY <2>2, <2>5
<1>6. \A i \in 0..n : Reached(store', i) = Reached(store, i) /\ Reached(store, i) \subseteq 1..i
  BY ONLY <1>4, <1>5, ReachedStays
<1>7. /\ Log.store = store /\ Log.ops = opsRef /\ Log.snap = snap /\ Log.ahead = ahead
      /\ Log'.store = store' /\ Log'.ops = opsRef /\ Log'.snap = snap /\ Log'.ahead = ahead
  BY <1>1, LogIs DEF Log
<1> DEFINE M == Log'
<1> HIDE DEF M
<1>8. M.store = store' /\ M.ops = opsRef /\ M.snap = snap /\ M.ahead = ahead
  BY <1>7 DEF M
<1>9. TipsAbove(M)
  <2>1. \A k \in 1..Len(ahead[Main]) : ahead[Main][k] \in 0..n
    <3> TAKE k \in 1..Len(ahead[Main])
    <3>1. ahead[Main] \in Seq(1..n)
      BY <1>4, MainAssumption
    <3>2. ahead[Main][k] \in 1..n
      BY ONLY <3>1, k \in 1..Len(ahead[Main]), ElementOfSeq
    <3> QED
      BY <1>4, <3>2
  <2>2. \A k \in 1..Len(ahead[Main]) : Lower(Log, Main, k) \in Reached(store, ahead[Main][k])
    BY <1>7 DEF AloneOK, TipsAbove
  <2>3. \A k : Lower(M, Main, k) = Lower(Log, Main, k)
    BY <1>7, <1>8 DEF Lower
  <2> QED
    BY <1>6, <1>8, <2>1, <2>2, <2>3 DEF TipsAbove
<1>10. AloneOK(M)
  BY <1>5, <1>7, <1>8, <1>9 DEF AloneOK
<1>11. HeadedOK(M)
  <2> SUFFICES ASSUME NEW b \in Branches
               PROVE  NewestOn(store', OnLog(Main), b, snap[b])
    BY <1>4, <1>6, <1>8 DEF HeadedOK, OnLog
  <2>1. NewestOn(store, OnLog(Main), b, snap[b])
    BY <1>7 DEF HeadedOK, OnLog
  <2>2. OnLog(Main) \subseteq 1..Len(store)
    BY <1>4, <1>6 DEF OnLog
  <2> QED
    BY ONLY <1>5, <2>1, <2>2, NewestStays
<1>12. /\ p.step = "drop" /\ p.todo = PointersToReplay(Main) /\ p.seen = snap
       /\ p.new = {n + i : i \in 1..kept}
  BY <1>1, <1>2, <1>4, MainAssumption
<1> HIDE DEF p
<1>13. /\ p.todo = {b \in Branches : snap[b] # None}
       /\ \A b \in Branches \ p.todo : \A i \in p.new : store'[i].branch # b
  <2>1. p.todo = {b \in Branches : snap[b] # None}
    BY <1>12, AllReplayed
  <2>2. ASSUME NEW b \in Branches \ p.todo, NEW k \in 1..kept
        PROVE  store'[n + k].branch # b
    <3>1. ids[k] \in OnLog(Main)
      BY <1>3 DEF Tops
    <3>2. store[ids[k]].branch # b
      BY <2>1, <3>1, AllReplayed
    <3>3. store'[n + k].branch = store[ids[k]].branch
      BY <1>2 DEF Copied
    <3> QED
      BY <3>2, <3>3
  <2> QED
    BY <1>12, <2>1, <2>2
<1>14. DropOK(pass[Main])'
  BY <1>1, <1>12, <1>13 DEF DropOK, p
<1>15. HeadedOK(Log)'
  BY <1>11 DEF M
<1>16. PassKnows(pass[Main])'
  BY <1>12, <1>14, <1>15 DEF PassKnows, p
<1>17. live' = live /\ \A w \in Trees \ {Main} : pass'[w] = pass[w]
  BY <1>1, <1>4 DEF UNCHANGED_World
<1> QED
  BY <1>10, <1>16, <1>17 DEF StaysSettled, M

LEMMA DropLogSettled ==
  ASSUME IInv, AloneOK(Log), DropOK(pass[Main]), DropLog(Main)
  PROVE  StaysSettled
<1> DEFINE p == pass[Main]
           q == [p EXCEPT !.step = "replay", !.lines = p.new]
<1>1. /\ p.step = "drop" /\ opsRef' = [opsRef EXCEPT ![Main] = None]
      /\ pass' = [pass EXCEPT ![Main].step = "replay", ![Main].lines = p.new]
      /\ ahead' = [ahead EXCEPT ![Main] = << >>] /\ UNCHANGED_World
      /\ UNCHANGED <<store, snap>>
  BY DEF DropLog
<1>2. /\ pass \in [Trees -> Passes] /\ p \in Passes /\ PassOK(Main)
      /\ opsRef \in [Trees -> 0..Len(store)] /\ DOMAIN ahead = Trees /\ StoreOK(store)
  BY MainAssumption, PassParts
<1>3. pass' = [pass EXCEPT ![Main] = q]
  BY <1>1, <1>2, MainAssumption
<1>4. /\ q.step = "replay" /\ q.lines = p.new /\ q.new = p.new /\ q.todo = p.todo
      /\ q.seen = p.seen /\ q.ref = p.ref
  BY <1>2 DEF Passes
<1>5. p.ref = "log"
  BY <1>1, <1>2 DEF PassOK
<1> HIDE DEF q
<1>6. pass'[Main] = q /\ \A w \in Trees \ {Main} : pass'[w] = pass[w]
  BY <1>2, <1>3, MainAssumption
<1>7. opsRef'[Main] = None /\ ahead'[Main] = << >> /\ \A w \in Trees \ {Main} : opsRef'[w] = opsRef[w]
  BY <1>1, <1>2, MainAssumption
<1>8. Reached(store, opsRef'[Main]) = {}
  BY <1>2, <1>7, StoreIsOlder, ReachedFacts DEF None
<1>9. \A b \in Branches \ p.todo : NewestOn(store, p.new, b, snap[b])
  BY DEF DropOK, NewestOn
<1>10. ReplayOK(pass[Main])'
  BY <1>1, <1>4, <1>5, <1>6, <1>8, <1>9 DEF ReplayOK, DropOK
<1>11. AloneOK(Log')
  BY <1>1, <1>7, AloneStays
<1> QED
  BY <1>1, <1>4, <1>6, <1>10, <1>11 DEF StaysSettled, PassKnows, UNCHANGED_World

LEMMA DropPointerSettled ==
  ASSUME IInv, AloneOK(Log), ReplayOK(pass[Main]), NEW b \in Branches, DropPointer(Main, b)
  PROVE  StaysSettled
<1> DEFINE p == pass[Main]
           lines == {i \in p.new : store[i].branch = b}
           q == [p EXCEPT !.todo = @ \ {b}, !.ref = b, !.lines = lines, !.expected = None]
<1>1. /\ p.step = "replay" /\ p.lines = {} /\ b \in p.todo /\ UNCHANGED_World
      /\ UNCHANGED <<store, opsRef, ahead>>
  BY DEF DropPointer
<1>2. snap[b] = p.seen[b]
  BY <1>1 DEF ReplayOK
<1>3. /\ snap' = [snap EXCEPT ![b] = None]
      /\ pass' = [pass EXCEPT ![Main].todo = @ \ {b}, ![Main].ref = b, ![Main].lines = lines,
                              ![Main].expected = None]
  BY <1>2 DEF DropPointer
<1>4. /\ pass \in [Trees -> Passes] /\ p \in Passes /\ snap \in [Branches -> 0..Len(store)]
  BY MainAssumption, PassParts
<1>5. pass' = [pass EXCEPT ![Main] = q]
  BY <1>3, <1>4, MainAssumption
<1>6. /\ q.step = "replay" /\ q.lines = lines /\ q.new = p.new /\ q.todo = p.todo \ {b}
      /\ q.seen = p.seen /\ q.ref = b /\ q.expected = None
  BY <1>1, <1>4 DEF Passes
<1> HIDE DEF q
<1>7. pass'[Main] = q /\ \A w \in Trees \ {Main} : pass'[w] = pass[w]
  BY <1>4, <1>5, MainAssumption
<1>8. b # "log"
  BY BranchesAssumption
<1>9. Reached(store, opsRef[Main]) = p.new
  BY <1>1 DEF ReplayOK
<1>10. snap'[b] = None /\ \A c \in Branches \ {b} : snap'[c] = snap[c]
  BY <1>3, <1>4
<1>11. ASSUME NEW c \in Branches \ (p.todo \ {b}), c # b
       PROVE  NewestOn(store, p.new, c, snap'[c])
  <2>1. c \in Branches \ p.todo /\ snap'[c] = snap[c]
    BY <1>10, <1>11
  <2>2. CASE c = p.ref
    <3>1. NewestOn(store, p.new \ p.lines, c, snap[c])
      BY <2>2, BranchesAssumption DEF ReplayOK
    <3>2. p.new \ p.lines = p.new
      BY <1>1
    <3> QED
      BY <2>1, <3>1, <3>2
  <2>3. CASE c # p.ref
    BY <2>1, <2>3 DEF ReplayOK
  <2> QED
    BY <2>2, <2>3
<1>12. /\ NewestOn(store, p.new \ lines, b, None)
       /\ \A i \in lines : /\ store[i].branch = b
                           /\ \A j \in p.new \ lines : store[j].branch = b => j < i
  BY DEF NewestOn
<1>13. \A c \in p.todo \ {b} : snap'[c] = p.seen[c]
  <2> TAKE c \in p.todo \ {b}
  <2>1. c \in Branches
    BY <1>4 DEF Passes
  <2> QED
    BY <1>10, <2>1 DEF ReplayOK
<1>14. lines \subseteq p.new
  OBVIOUS
<1> HIDE DEF lines, p
<1>15. ReplayOK(pass[Main])'
  BY <1>1, <1>6, <1>7, <1>8, <1>9, <1>10, <1>11, <1>12, <1>13, <1>14 DEF ReplayOK
<1>16. AloneOK(Log')
  BY <1>1, AloneStays
<1> QED
  BY <1>1, <1>6, <1>7, <1>15, <1>16 DEF StaysSettled, PassKnows, UNCHANGED_World

LEMMA ReplayLineSettled ==
  ASSUME IInv, AloneOK(Log), ReplayOK(pass[Main]), ReplayLine(Main)
  PROVE  StaysSettled
<1> DEFINE p == pass[Main]
           id == Min(p.lines)
           q == [p EXCEPT !.lines = @ \ {id}, !.expected = id]
<1>1. /\ p.step = "replay" /\ p.lines # {} /\ UNCHANGED_World /\ UNCHANGED <<store, ahead>>
  BY DEF ReplayLine
<1>2. ~(p.ref # "log" /\ snap[p.ref] # p.expected)
  BY DEF ReplayOK
<1>3. /\ pass' = [pass EXCEPT ![Main].lines = @ \ {id}, ![Main].expected = id]
      /\ opsRef' = IF p.ref = "log" THEN [opsRef EXCEPT ![Main] = id] ELSE opsRef
      /\ snap' = IF p.ref = "log" THEN snap ELSE [snap EXCEPT ![p.ref] = id]
  BY <1>2 DEF ReplayLine
<1>4. /\ pass \in [Trees -> Passes] /\ p \in Passes /\ PassOK(Main)
      /\ opsRef \in [Trees -> 0..Len(store)] /\ snap \in [Branches -> 0..Len(store)]
      /\ StoreOK(store) /\ Len(store) \in Nat
  BY MainAssumption, PassParts
<1>5. pass' = [pass EXCEPT ![Main] = q]
  BY <1>3, <1>4, MainAssumption
<1>6. /\ q.step = "replay" /\ q.lines = p.lines \ {id} /\ q.new = p.new /\ q.todo = p.todo
      /\ q.seen = p.seen /\ q.ref = p.ref /\ q.expected = id
  BY <1>1, <1>4 DEF Passes
<1>7. p.lines \subseteq 1..Len(store) /\ p.new \subseteq 1..Len(store) /\ p.ref \in Branches \cup {"log"}
      /\ p.todo \subseteq Branches
  BY <1>4 DEF PassOK, Passes
<1>8. id \in p.lines /\ \A k \in p.lines : id <= k
  BY <1>1, <1>4, <1>7, MinIs
<1> HIDE DEF q
<1>9. pass'[Main] = q /\ \A w \in Trees \ {Main} : pass'[w] = pass[w]
  BY <1>4, <1>5, MainAssumption
<1>10. p.lines \subseteq p.new /\ \A b \in p.todo : snap[b] = p.seen[b]
  BY DEF ReplayOK
<1>11. \A b \in Branches \ p.todo : b # p.ref => NewestOn(store, p.new, b, snap[b])
  BY DEF ReplayOK
<1>12. CASE p.ref = "log"
  <2>1. Threaded(store, p.lines, opsRef[Main]) /\ ahead[Main] = << >>
    BY <1>1, <1>4, <1>12 DEF PassOK
  <2>2. store[id].prev = opsRef[Main]
    <3> DEFINE S == p.lines
    <3>1. S \subseteq 1..Len(store) /\ S # {} /\ Len(store) \in Nat
      BY <1>1, <1>4, <1>7
    <3> HIDE DEF S
    <3>2. \A from : Threaded(store, S, from) => store[Min(S)].prev = from
      BY ONLY <3>1, ThreadNext
    <3> QED
      BY <2>1, <3>2 DEF S
  <2>3. Reached(store, id) = {id} \cup Reached(store, store[id].prev)
    BY <1>4, <1>7, <1>8, StoreIsOlder, ReachedFacts
  <2>4. Reached(store, opsRef[Main]) = p.new \ p.lines
    BY <1>12 DEF ReplayOK
  <2>5. opsRef'[Main] = id /\ snap' = snap /\ \A w \in Trees \ {Main} : opsRef'[w] = opsRef[w]
    BY <1>3, <1>4, <1>12, MainAssumption
  <2> HIDE DEF id, p
  <2>6. Reached(store, opsRef'[Main]) = p.new \ (p.lines \ {id})
    BY <1>8, <1>10, <2>2, <2>3, <2>4, <2>5
  <2>7. ReplayOK(pass[Main])'
    BY <1>1, <1>6, <1>9, <1>10, <1>11, <1>12, <2>5, <2>6 DEF ReplayOK
  <2>8. AloneOK(Log')
    BY <1>1, <2>1, <2>5, AloneStays
  <2> QED
    BY <1>1, <1>6, <1>9, <2>7, <2>8 DEF StaysSettled, PassKnows, UNCHANGED_World
<1>13. CASE p.ref # "log"
  <2>1. opsRef' = opsRef /\ snap' = [snap EXCEPT ![p.ref] = id] /\ p.ref \in Branches
    BY <1>3, <1>7, <1>13
  <2>2. snap'[p.ref] = id /\ \A b \in Branches \ {p.ref} : snap'[b] = snap[b]
    BY <1>4, <2>1
  <2>3. /\ p.ref \notin p.todo /\ Reached(store, opsRef[Main]) = p.new
        /\ NewestOn(store, p.new \ p.lines, p.ref, snap[p.ref])
        /\ \A i \in p.lines : /\ store[i].branch = p.ref
                              /\ \A j \in p.new \ p.lines : store[j].branch = p.ref => j < i
    BY <1>13 DEF ReplayOK
  <2>4. id \in Nat /\ id # None /\ \A j \in p.new : j \in Nat
    BY <1>4, <1>7, <1>8 DEF None
  <2> DEFINE b == p.ref
             S == p.new \ (p.lines \ {id})
  <2> HIDE DEF id, p
  <2>5. S = {id} \cup (p.new \ p.lines)
    BY <1>8, <1>10
  <2>6. \A j \in S : store[j].branch = b => j <= id
    BY <1>8, <2>3, <2>4, <2>5
  <2>7. NewestOn(store, S, b, id)
    BY <1>8, <2>3, <2>4, <2>5, <2>6 DEF NewestOn
  <2>8. \A i \in p.lines \ {id} : /\ store[i].branch = b
                                  /\ \A j \in S : store[j].branch = b => j < i
    <3> TAKE i \in p.lines \ {id}
    <3>1. id < i
      BY <1>8, <1>10, <2>4
    <3> QED
      BY <2>3, <2>4, <2>5, <3>1
  <2>9. \A c \in Branches \ p.todo : c # b => NewestOn(store, p.new, c, snap'[c])
    BY <1>11, <2>2
  <2>10. \A c \in p.todo : snap'[c] = p.seen[c]
    BY <1>7, <1>10, <2>2, <2>3
  <2>11. p.lines \ {id} \subseteq p.new
    BY <1>10
  <2> HIDE DEF S
  <2>12. /\ q.ref = b /\ b # "log" /\ q.lines = p.lines \ {id} /\ q.new \ q.lines = S
         /\ q.new = p.new /\ q.todo = p.todo /\ q.seen = p.seen /\ q.expected = id
         /\ q.step = "replay"
    BY <1>6, <1>13 DEF S
  <2> HIDE DEF b
  <2>13. ReplayOK(pass[Main])'
    <3>1. /\ \A c \in q.todo : snap'[c] = q.seen[c]
          /\ Reached(store', opsRef'[Main]) = q.new
      BY <1>1, <2>1, <2>3, <2>10, <2>12
    <3>2. /\ q.lines \subseteq q.new
          /\ \A c \in Branches \ q.todo : c # q.ref => NewestOn(store', q.new, c, snap'[c])
      BY <1>1, <2>9, <2>11, <2>12
    <3>3. /\ q.ref \notin q.todo /\ snap'[q.ref] = q.expected
          /\ NewestOn(store', q.new \ q.lines, q.ref, snap'[q.ref])
      BY <1>1, <2>2, <2>3, <2>7, <2>12 DEF b
    <3>4. \A i \in q.lines : /\ store'[i].branch = q.ref
                             /\ \A j \in q.new \ q.lines : store'[j].branch = q.ref => j < i
      BY <1>1, <2>8, <2>12
    <3> QED
      BY <1>9, <2>12, <3>1, <3>2, <3>3, <3>4 DEF ReplayOK
  <2>14. AloneOK(Log')
    BY <1>1, <2>1, AloneStays
  <2> QED
    BY <1>1, <1>9, <2>12, <2>13, <2>14 DEF StaysSettled, PassKnows, UNCHANGED_World
<1> QED
  BY <1>12, <1>13

LEMMA ReleaseLockSettled ==
  ASSUME IInv, AloneOK(Log), ReplayOK(pass[Main]), ReleaseLock(Main)
  PROVE  StaysSettled
<1> DEFINE p == pass[Main]
<1>1. /\ p.lines = {} /\ p.todo = {} /\ UNCHANGED_Log /\ UNCHANGED_World
  BY DEF ReleaseLock
<1>2. PICK q \in {Idle, [Idle EXCEPT !.step = "note"]} : pass' = [pass EXCEPT ![Main] = q]
  BY DEF ReleaseLock
<1>3. q.step \in {"none", "note"}
  BY DEF Idle
<1>4. pass \in [Trees -> Passes]
  BY MainAssumption, PassParts
<1>5. pass'[Main] = q /\ \A w \in Trees \ {Main} : pass'[w] = pass[w]
  BY <1>2, <1>4, MainAssumption
<1>6. Reached(store, opsRef[Main]) = p.new /\ p.new \ p.lines = p.new
  BY <1>1 DEF ReplayOK
<1>7. ASSUME NEW b \in Branches PROVE NewestOn(store, Reached(store, opsRef[Main]), b, snap[b])
  <2>1. CASE b = p.ref
    <3>1. NewestOn(store, p.new \ p.lines, b, snap[b])
      BY <2>1, BranchesAssumption DEF ReplayOK
    <3> QED
      BY <1>6, <3>1
  <2>2. CASE b # p.ref
    BY <1>1, <1>6, <2>2 DEF ReplayOK
  <2> QED
    BY <2>1, <2>2
<1>8. store' = store /\ opsRef' = opsRef /\ snap' = snap /\ ahead' = ahead
  BY <1>1 DEF UNCHANGED_Log
<1>9. HeadedOK(Log)'
  BY <1>7, <1>8 DEF HeadedOK, Log
<1>10. AloneOK(Log')
  BY <1>8, AloneStays
<1> QED
  BY <1>1, <1>3, <1>5, <1>9, <1>10 DEF StaysSettled, PassKnows, UNCHANGED_World

LEMMA AppendNoteSettled ==
  ASSUME IInv, AloneOK(Log), HeadedOK(Log), AppendNote(Main)
  PROVE  StaysSettled
<1> DEFINE d == Draft(World, Main, "note", Observe(World, Main))
           M == Log'
<1>1. Pushed(Log, M, Main, d)
  BY MainAssumption, NoteWritten
<1>2. d \in Drafts /\ d.effect = NoEffect
  <2>1. Observe(World, Main) \in [Branches -> Nat] /\ "note" \in Kinds /\ WorldOK(World)
    BY ObservedType DEF IInv, Kinds
  <2> QED
    BY ONLY <2>1, MainAssumption, DraftIs
<1>3. d.effect.do = "none"
  BY <1>2 DEF NoEffect
<1>4. LogOK(Log)
  BY MainAssumption, PassParts
<1> HIDE DEF M, d
<1>5. AloneOK(M) /\ HeadedOK(M)
  BY <1>1, <1>2, <1>3, <1>4, PushedAlone
<1>6. /\ pass' = [pass EXCEPT ![Main] = Idle] /\ UNCHANGED_World /\ pass \in [Trees -> Passes]
  BY MainAssumption, PassParts DEF AppendNote
<1>7. pass'[Main].step = "none" /\ \A w \in Trees \ {Main} : pass'[w] = pass[w]
  BY <1>6, MainAssumption DEF Idle
<1>8. HeadedOK(Log)'
  BY <1>5 DEF M
<1> QED
  BY <1>5, <1>6, <1>7, <1>8 DEF StaysSettled, PassKnows, UNCHANGED_World, M

-----------------------------------------------------------------------------
(***************************************************************************)
(* Pointers and the verbs.                                                 *)
(***************************************************************************)

LEMMA SoundNow ==
  ASSUME PInv, Settled => pass[Main].step # "replay"
  PROVE  Sound(Log)
BY DEF PInv, Sound, PassKnows

LEMMA SettledIsMain ==
  ASSUME PInv, NEW w \in live PROVE Settled => w = Main
BY DEF PInv

(* What a verb has to leave behind.                                        *)
LEMMA VerbKeeps ==
  ASSUME PInv, IInv, story' = story, pass' = pass, crashes' \in {crashes, crashes + 1},
         OnlyGrows => GrowsOK(Log'),
         Settled => AloneOK(Log') /\ HeadedOK(Log') /\ live' = live /\ Unlocked(Main)
  PROVE  PInv'
<1>1. OnlyGrows' => OnlyGrows
  BY DEF OnlyGrows
<1>2. Settled' => Settled
  BY DEF Settled, Alone, Says, IInv, Counted
<1>3. ASSUME Settled PROVE PassKnows(pass[Main])'
  <2>1. pass'[Main] = pass[Main] /\ HeadedOK(Log)' /\ pass[Main].step \notin {"replay", "drop"}
    BY <1>3 DEF Unlocked
  <2> QED
    BY <2>1 DEF PassKnows
<1> QED
  BY <1>1, <1>2, <1>3 DEF PInv

LEMMA GitKeeps ==
  ASSUME PInv, UNCHANGED_Log, UNCHANGED <<story, pass, crashes, live>>
  PROVE  PInv'
BY DEF PInv, UNCHANGED_Log, OnlyGrows, Settled, Alone, Says, Log, PassKnows, DropOK, ReplayOK

(* The verbs that write one operation more.                                *)
LEMMA OneMore ==
  ASSUME PInv, IInv, NEW w \in live, Unlocked(w), NEW W, WorldOK(W), W.live = live, SetWorld(W),
         SetLog(Push(Preamble(w), W, w, Draft(W, w, "op", Observe(W, w)))),
         UNCHANGED <<story, pass, crashes>>
  PROVE  PInv'
<1> DEFINE M == Push(Preamble(w), W, w, Draft(W, w, "op", Observe(W, w)))
<1>1. w \in Trees /\ (Settled => w = Main)
  BY SettledIsMain, LogIs DEF IInv, WorldOK
<1>2. Sound(Log)
  BY <1>1, SoundNow DEF Unlocked
<1>3. Sound(M)
  BY <1>1, <1>2, VerbSound
<1>4. LogOK(M) /\ SetLog(M)
  BY <1>1, PlainWrites DEF Wrote
<1>5. live' = live
  BY DEF SetWorld
<1> HIDE DEF M
<1>6. Log' = M
  BY <1>4, LogBecomes
<1> QED
  BY <1>1, <1>3, <1>5, <1>6, VerbKeeps DEF Sound

LEMMA CommitKeeps == ASSUME PInv, IInv, NEW w \in Trees, Commit(w) PROVE PInv'
<1> DEFINE W == AfterCommit(w)
<1>1. WorldOK(W) /\ W.live = live
  BY CommitWorld DEF IInv, Counted
<1>2. /\ SetWorld(W) /\ w \in live /\ Unlocked(w) /\ UNCHANGED <<story, pass, crashes>>
      /\ SetLog(Push(Preamble(w), W, w, Draft(W, w, "op", Observe(W, w))))
  BY DEF Commit, Free
<1> HIDE DEF W
<1> QED
  BY <1>1, <1>2, OneMore

LEMMA SwitchKeeps ==
  ASSUME PInv, IInv, NEW w \in Trees, NEW b \in Branches, Switch(w, b) PROVE PInv'
<1> DEFINE W == Opened(w, b)
<1>1. WorldOK(W) /\ W.live = live
  <2>1. WorldOK(World) /\ w \in Trees /\ b \in Branches
    BY DEF IInv
  <2> QED
    BY ONLY <2>1, SwitchWorld
<1>2. /\ SetWorld(W) /\ w \in live /\ Unlocked(w) /\ UNCHANGED <<story, pass, crashes>>
      /\ SetLog(Push(Preamble(w), W, w, Draft(W, w, "op", Observe(W, w))))
  BY DEF Switch, Free, Opened
<1> HIDE DEF W
<1> QED
  BY <1>1, <1>2, OneMore

(* ff worktree add: what it writes is in two logs, of a repository where   *)
(* logs only grow.                                                         *)
LEMMA AddKeeps ==
  ASSUME PInv, IInv, NEW w \in Trees, NEW v \in Trees, NEW b \in Branches, NEW killed \in BOOLEAN,
         AddWorktree(w, v, b, killed)
  PROVE  PInv'
<1> DEFINE L == Preamble(w)
           start == StartsAt(w, b)
           W == Stood([World EXCEPT !.tips[b] = start], v, b, CleanAt(start))
           floor == Reconciled(L, W, v)
           effect == [do |-> "add", tree |-> v, branch |-> b, capture |-> None,
                      held |-> CleanAt(None)]
           e == [Draft(W, w, "op", Observe(W, w)) EXCEPT !.effect = effect]
           M == IF killed THEN floor ELSE Push(floor, W, w, e)
<1>1. WorldOK(W)
  BY AddWorld DEF IInv
<1>2. /\ SetLog(M) /\ UNCHANGED <<story, pass>> /\ crashes' \in {crashes, crashes + 1}
      /\ "worktree" \in story.verbs
  BY DEF AddWorktree
<1>3. ~Settled
  BY <1>2 DEF Settled, Alone, Says
<1>4. Wrote(Log, L, w) /\ Sound(L)
  <2>1. Sound(Log)
    BY <1>3, SoundNow
  <2> QED
    BY <1>3, <2>1, PreambleOK, PreambleSound DEF IInv
<1> HIDE DEF L, W
<1>5. Wrote(L, floor, v) /\ Sound(floor)
  <2>1. LogOK(L)
    BY <1>4 DEF Wrote
  <2> QED
    BY <1>1, <1>3, <1>4, <2>1, ReconcileOK, ReconcileSound
<1>6. LogOK(M) /\ Sound(M)
  <2>1. LogOK(floor) /\ Len(floor.store) \in Nat
    BY <1>5 DEF Wrote, LogOK, StoreOK
  <2>2. effect \in Effects /\ effect.branch \in Branches /\ effect.capture = 0
        /\ effect.do # "remove"
    <3>1. CleanAt(None) \in Files
      BY CleanIs DEF None
    <3> DEFINE c == CleanAt(None)
    <3> HIDE DEF c
    <3> QED
      BY <3>1 DEF Effects, None, c
  <2>3. Observe(W, w) \in [Branches -> Nat]
    BY <1>1, ObservedType
  <2> HIDE DEF floor, effect
  <2>4. e \in Drafts /\ Sane(floor.store, e)
    BY <1>1, <2>1, <2>2, <2>3, SayingIs DEF None
  <2> HIDE DEF e
  <2>5. LogOK(Push(floor, W, w, e)) /\ Sound(Push(floor, W, w, e))
    BY <1>3, <1>5, <2>1, <2>4, PushOK, PushSound DEF Pushed, Wrote
  <2> QED
    BY <1>5, <2>1, <2>5
<1> HIDE DEF M
<1>7. Log' = M
  BY <1>2, <1>6, LogBecomes
<1> QED
  BY <1>2, <1>3, <1>6, <1>7, VerbKeeps DEF Sound

LEMMA RemoveKeeps ==
  ASSUME PInv, IInv, NEW w \in Trees, NEW v \in Trees, NEW killed \in BOOLEAN,
         RemoveWorktree(w, v, killed)
  PROVE  PInv'
<1> DEFINE P == Preamble(w)
           gone == Retired(Both(P, World), v)
           L == Captured(P, World, v)
           c == L.snap[at[v]]
           effect == [do |-> "remove", tree |-> v, branch |-> at[v], capture |-> c,
                      held |-> files[v]]
           planned == [Observe(World, w) EXCEPT ![at[v]] = tips[at[v]]]
           e == [Draft(World, w, "op", planned) EXCEPT !.effect = effect]
           M == Push(L, World, w, e)
<1>1. /\ v \in live /\ UNCHANGED <<story, pass>> /\ crashes' \in {crashes, crashes + 1}
      /\ "worktree" \in story.verbs
  BY DEF RemoveWorktree
<1>2. gone.log = L
  <2>1. Both(P, World).log = P /\ Both(P, World).world = World /\ v \in World.live
    BY <1>1, LogIs DEF Both
  <2>2. gone = Both(L, TornDown(World, v))
    BY <2>1 DEF Retired
  <2> QED
    BY <2>2 DEF Both
<1>3. SetLog(M)
  BY <1>2 DEF RemoveWorktree
<1>4. ~Settled
  BY <1>1 DEF Settled, Alone, Says
<1>5. Wrote(Log, P, w) /\ Sound(P) /\ WorldOK(World)
  <2>1. Sound(Log)
    BY <1>4, SoundNow
  <2> QED
    BY <1>4, <2>1, PreambleOK, PreambleSound DEF IInv
<1> HIDE DEF P, gone
<1>6. Wrote(P, L, v) /\ Captures(L, World, v) /\ Sound(L)
  <2>1. LogOK(P) /\ Sound(P) /\ WorldOK(World) /\ v \in Trees /\ (Settled => v = Main)
    BY <1>4, <1>5 DEF Wrote
  <2> QED
    BY ONLY <2>1, CaptureOK, CaptureSound
<1> HIDE DEF L
<1>7. /\ LogOK(L) /\ c \in 0..Len(L.store) /\ Len(L.store) \in Nat
      /\ c # None => c \in 1..Len(L.store) /\ L.store[c].files = files[v]
  <2>1. LogOK(L)
    BY <1>6 DEF Wrote
  <2>2. Len(L.store) \in Nat
    BY <2>1 DEF LogOK, StoreOK
  <2> QED
    BY <1>5, <1>6, <2>1, <2>2, CapturedIs
<1> HIDE DEF c
<1>8. /\ tips \in [Branches -> Nat] /\ live \subseteq Trees /\ at \in [Trees -> Branches]
      /\ files \in [Trees -> Files]
  BY <1>5, LogIs DEF WorldOK
<1>9. LogOK(M) /\ Sound(M)
  <2>1. effect \in Effects /\ effect.branch \in Branches /\ effect.capture = c
        /\ effect.held = files[v]
    BY <1>7, <1>8 DEF Effects
  <2>2. planned \in [Branches -> Nat]
    BY <1>5, <1>8, ObservedType
  <2> HIDE DEF effect, planned
  <2>3. e \in Drafts /\ Sane(L.store, e)
    BY <1>5, <1>7, <2>1, <2>2, SayingIs
  <2> HIDE DEF e
  <2> QED
    BY <1>4, <1>6, <1>7, <2>3, PushOK, PushSound DEF Pushed, Wrote
<1> HIDE DEF M
<1>10. Log' = M
  BY <1>3, <1>9, LogBecomes
<1> QED
  BY <1>1, <1>4, <1>9, <1>10, VerbKeeps DEF Sound

(* A move along the log: one worktree's, and none where logs only grow.    *)
LEMMA MoveKeeps ==
  ASSUME PInv, IInv, NEW w \in Trees, Undo(w) \/ Redo(w) PROVE PInv'
<1>1. w \in live /\ Unlocked(w) /\ ~OnlyGrows
  BY DEF Undo, Redo, Free, OnlyGrows
<1>2. Settled => w = Main
  BY <1>1, SettledIsMain
<1>3. Sound(Log)
  BY <1>1, <1>2, SoundNow DEF Unlocked
<1>4. UNCHANGED <<story, pass, crashes>>
  BY DEF Undo, Redo, Rewind
<1>5. ASSUME Settled PROVE AloneOK(Log') /\ HeadedOK(Log') /\ live' = live
  <2>1. Undo(Main) \/ Redo(Main)
    BY <1>2, <1>5
  <2>2. AloneOK(Log) /\ HeadedOK(Log) /\ (OnlyGrows => GrowsOK(Log))
    BY <1>3, <1>5 DEF Sound
  <2> QED
    BY <1>5, <2>1, <2>2, UndoSettled, RedoSettled
<1> QED
  BY <1>1, <1>2, <1>4, <1>5, VerbKeeps

(* A step of a pass: in the one worktree there is, where none is killed.   *)
LEMMA PassKeeps ==
  ASSUME PInv, IInv, story' = story, crashes' \in {crashes, crashes + 1}, ~OnlyGrows,
         Settled /\ Settled' => StaysSettled
  PROVE  PInv'
<1>1. ~OnlyGrows'
  BY DEF OnlyGrows
<1>2. Settled' => Settled
  BY DEF Settled, Alone, Says, IInv, Counted
<1>3. ASSUME Settled'
      PROVE  /\ (live = {Main} /\ AloneOK(Log) /\ PassKnows(pass[Main]))'
             /\ \A w \in Trees \ {Main} : pass'[w] = Idle
  BY <1>2, <1>3 DEF PInv, StaysSettled
<1> QED
  BY <1>1, <1>3 DEF PInv

LEMMA StartTrimKeeps ==
  ASSUME PInv, IInv, NEW w \in Trees, NEW kept \in 0..story.ops, StartTrim(w, kept) PROVE PInv'
<1>1. ~OnlyGrows /\ UNCHANGED <<story, crashes>> /\ pass[w] = Idle /\ kept < Len(Chain(w))
  BY DEF StartTrim, OnlyGrows
<1>2. ASSUME Settled PROVE StaysSettled
  <2>1. AloneOK(Log) /\ PassKnows(pass[Main])
    BY <1>2 DEF PInv
  <2>2. w = Main
    <3> SUFFICES ASSUME w # Main PROVE FALSE
      OBVIOUS
    <3>1. opsRef[w] = 0
      BY <2>1, LogIs DEF AloneOK, None
    <3>2. Older(store)
      BY PassParts, StoreIsOlder
    <3>3. Chain(w) = << >>
      BY <3>1, <3>2, ChainIsDescent, DescentDef DEF Chain
    <3>4. kept \in Nat
      BY StoriesAssumption DEF IInv
    <3> QED
      BY <1>1, <3>3, <3>4
  <2>3. HeadedOK(Log)
    BY <1>1, <2>1, <2>2 DEF PassKnows, Idle
  <2> QED
    BY <2>1, <2>2, <2>3, StartTrimSettled
<1> QED
  BY <1>1, <1>2, PassKeeps

LEMMA RunningPassKeeps ==
  ASSUME PInv, IInv, NEW w \in Trees,
         \/ DropLog(w) \/ (\E b \in Branches : DropPointer(w, b)) \/ ReplayLine(w)
         \/ ReleaseLock(w) \/ AppendNote(w) \/ Crash(w)
  PROVE  PInv'
<1>1. pass[w] # Idle /\ story' = story
  <2>1. pass[w].step # "none" /\ story' = story
    BY DEF DropLog, DropPointer, ReplayLine, ReleaseLock, AppendNote, Crash
  <2>2. Idle.step = "none"
    BY DEF Idle
  <2> QED
    BY <2>1, <2>2
<1>2. ~OnlyGrows
  BY <1>1 DEF PInv
<1>3. crashes' \in {crashes, crashes + 1} /\ (Crash(w) => crashes' = crashes + 1)
  BY DEF DropLog, DropPointer, ReplayLine, ReleaseLock, AppendNote, Crash
<1>4. ASSUME Settled, Settled' PROVE StaysSettled
  <2>1. w = Main /\ AloneOK(Log) /\ PassKnows(pass[Main])
    BY <1>1, <1>4 DEF PInv
  <2>2. ~Crash(w)
    BY <1>3, <1>4 DEF Settled, IInv, Counted
  <2>3. CASE DropLog(w)
    BY <2>1, <2>3, DropLogSettled DEF PassKnows, DropLog
  <2>4. CASE \E b \in Branches : DropPointer(w, b)
    BY <2>1, <2>4, DropPointerSettled DEF PassKnows, DropPointer
  <2>5. CASE ReplayLine(w)
    BY <2>1, <2>5, ReplayLineSettled DEF PassKnows, ReplayLine
  <2>6. CASE ReleaseLock(w)
    BY <2>1, <2>6, ReleaseLockSettled DEF PassKnows, ReleaseLock
  <2>7. CASE AppendNote(w)
    BY <2>1, <2>7, AppendNoteSettled DEF PassKnows, AppendNote
  <2> QED
    BY <2>2, <2>3, <2>4, <2>5, <2>6, <2>7
<1> QED
  BY <1>1, <1>2, <1>3, <1>4, PassKeeps

LEMMA InitPInv == Init => PInv
<1> SUFFICES ASSUME Init PROVE PInv
  OBVIOUS
<1>1. /\ store = << >> /\ opsRef = [w \in Trees |-> None] /\ snap = [b \in Branches |-> None]
      /\ ahead = [w \in Trees |-> << >>] /\ pass = [w \in Trees |-> Idle] /\ live = story.live
  BY DEF Init
<1>2. Len(store) = 0 /\ Reached(store, 0) = {}
  BY <1>1, ReachedFacts DEF Older
<1>3. GrowsOK(Log)
  BY <1>1, <1>2, LogIs DEF GrowsOK, NewestOn
<1>4. LinkedOK(store)
  BY <1>2 DEF LinkedOK
<1>5. TipsAbove(Log)
  <2>1. Len(Log.ahead[Main]) = 0
    BY <1>1, MainAssumption, LogIs
  <2> QED
    BY <2>1 DEF TipsAbove
<1>6. AloneOK(Log)
  BY <1>1, <1>4, <1>5, LogIs DEF AloneOK
<1>7. HeadedOK(Log)
  BY <1>1, <1>2, MainAssumption, LogIs DEF HeadedOK, NewestOn, None
<1>8. PassKnows(pass[Main])
  BY <1>1, <1>7, MainAssumption DEF PassKnows, Idle
<1>9. Settled => live = {Main}
  BY <1>1 DEF Settled, Alone
<1> QED
  BY <1>1, <1>3, <1>6, <1>8, <1>9, MainAssumption DEF PInv

LEMMA StepPInv == ASSUME PInv, IInv, [Next]_vars PROVE PInv'
<1>1. ASSUME NEW w \in Trees, Edit(w) \/ GitCommit(w) \/ \E b \in Branches : GitSwitch(w, b)
      PROVE  PInv'
  <2>1. UNCHANGED_Log /\ UNCHANGED <<story, pass, crashes, live>>
    BY <1>1 DEF Edit, GitCommit, GitSwitch, AfterCommit, SetWorld, World
  <2> QED
    BY <2>1, GitKeeps
<1>2. ASSUME NEW w \in Trees, NEW v \in Trees, NEW b \in Branches, NEW killed \in BOOLEAN,
             AddWorktree(w, v, b, killed)
      PROVE  PInv'
  BY <1>2, AddKeeps
<1>3. ASSUME NEW w \in Trees, NEW v \in Trees, NEW killed \in BOOLEAN,
             RemoveWorktree(w, v, killed)
      PROVE  PInv'
  BY <1>3, RemoveKeeps
<1>4. ASSUME NEW w \in Trees, NEW kept \in 0..story.ops, StartTrim(w, kept) PROVE PInv'
  BY <1>4, StartTrimKeeps
<1>5. ASSUME NEW w \in Trees, Commit(w) \/ \E b \in Branches : Switch(w, b) PROVE PInv'
  BY <1>5, CommitKeeps, SwitchKeeps
<1>6. ASSUME NEW w \in Trees, Undo(w) \/ Redo(w) PROVE PInv'
  BY <1>6, MoveKeeps
<1>7. ASSUME NEW w \in Trees,
             \/ DropLog(w) \/ (\E b \in Branches : DropPointer(w, b)) \/ ReplayLine(w)
             \/ ReleaseLock(w) \/ AppendNote(w) \/ Crash(w)
      PROVE  PInv'
  BY <1>7, RunningPassKeeps
<1>8. CASE UNCHANGED vars
  BY <1>8, GitKeeps DEF vars, UNCHANGED_Log
<1> QED
  BY <1>1, <1>2, <1>3, <1>4, <1>5, <1>6, <1>7, <1>8 DEF Next

(* What PointerNewest says, where there is one log and where logs only     *)
(* grow.                                                                   *)
LEMMA NewestMeans ==
  ASSUME NEW R, NEW b, NewestOn(store, R, b, snap[b]),
         \A i, j \in R : store[i].branch = b /\ store[j].branch = b /\ i <= j
                           => store[i].born <= store[j].born
  PROVE  LET onIt == {i \in R : store[i].branch = b}
         IN IF onIt = {} THEN snap[b] = None
            ELSE snap[b] \in onIt /\ \A i \in onIt : store[i].born <= store[snap[b]].born
BY DEF NewestOn

LEMMA PInvIsNewest == ASSUME IInv, PInv PROVE PointerNewest
<1> DEFINE R == UNION {ToSet(Chain(w)) : w \in Trees}
           n == Len(store)
<1> SUFFICES ASSUME Resting, Settled \/ OnlyGrows, NEW b \in Branches
             PROVE  LET onIt == {i \in R : store[i].branch = b}
                    IN IF onIt = {} THEN snap[b] = None
                       ELSE snap[b] \in onIt /\ \A i \in onIt : store[i].born <= store[snap[b]].born
  BY DEF PointerNewest
<1>1. R = UNION {Reached(store, opsRef[w]) : w \in Trees}
  BY ChainIsDescent DEF Chain
<1>2. StoreOK(store) /\ n \in Nat /\ opsRef \in [Trees -> 0..n] /\ Older(store)
  BY MainAssumption, PassParts, StoreIsOlder
<1>3. \A i \in 0..n : Reached(store, i) \subseteq 1..i
  BY <1>2, ReachedFacts
<1>4. CASE OnlyGrows
  <2>1. /\ \A i \in 1..n : store[i].born = i /\ \E w \in Trees : i \in Reached(store, opsRef[w])
        /\ NewestOn(store, 1..n, b, snap[b])
    BY <1>4, LogIs DEF PInv, GrowsOK
  <2>2. R = 1..n
    <3>1. \A w \in Trees : Reached(store, opsRef[w]) \subseteq 1..n
      <4> TAKE w \in Trees
      <4>1. opsRef[w] \in 0..n
        BY <1>2
      <4>2. Reached(store, opsRef[w]) \subseteq 1..opsRef[w]
        BY <1>3, <4>1
      <4> QED
        BY <1>2, <4>1, <4>2
    <3> QED
      BY <1>1, <2>1, <3>1
  <2> HIDE DEF R
  <2>3. \A i, j \in R : i <= j => store[i].born <= store[j].born
    BY <2>1, <2>2
  <2> QED
    BY <2>1, <2>2, <2>3, NewestMeans
<1>5. CASE Settled
  <2>1. AloneOK(Log) /\ PassKnows(pass[Main])
    BY <1>5 DEF PInv
  <2>2. HeadedOK(Log)
    BY <2>1, MainAssumption DEF PassKnows, Resting, Unlocked
  <2>3. R = Reached(store, opsRef[Main])
    <3>1. \A w \in Trees \ {Main} : Reached(store, opsRef[w]) = {}
      BY <1>2, <2>1, LogIs, ReachedFacts DEF AloneOK, None
    <3> QED
      BY <1>1, <3>1, MainAssumption
  <2>4. NewestOn(store, R, b, snap[b])
    BY <2>2, <2>3, LogIs DEF HeadedOK
  <2>5. opsRef[Main] \in 0..n
    BY <1>2, MainAssumption
  <2>6. \A x \in R : x \in 1..n /\ Reached(store, store[x].prev) = {j \in R : j < x}
    <3> DEFINE hi == opsRef[Main]
    <3> HIDE DEF hi
    <3>1. hi \in 0..Len(store) /\ R = Reached(store, hi)
      BY <2>3, <2>5 DEF hi
    <3> HIDE DEF R
    <3>2. \A x \in Reached(store, hi) :
            x \in 1..Len(store) /\ Reached(store, store[x].prev) = {j \in Reached(store, hi) : j < x}
      BY ONLY <1>2, <3>1, Beneath
    <3> QED
      BY <3>1, <3>2
  <2>7. \A x \in 1..n : \A j \in Reached(store, store[x].prev) : store[j].born < store[x].born
    BY <2>1, LogIs DEF AloneOK, LinkedOK
  <2> HIDE DEF R
  <2>8. ASSUME NEW i \in R, NEW j \in R, i <= j PROVE store[i].born <= store[j].born
    <3>1. i \in 1..n /\ j \in 1..n
      BY <2>6
    <3>2. CASE i = j
      <4>1. store[j] \in Written
        BY <1>2, <3>1, ElementOfSeq DEF StoreOK
      <4> QED
        BY <3>2, <4>1 DEF Written
    <3>3. CASE i < j
      <4>1. store[i].born < store[j].born
        BY <2>6, <2>7, <3>1, <3>3
      <4>2. store[i] \in Written /\ store[j] \in Written
        BY <1>2, <3>1, ElementOfSeq DEF StoreOK
      <4> QED
        BY <4>1, <4>2 DEF Written
    <3> QED
      BY <1>2, <2>8, <3>1, <3>2, <3>3
  <2> QED
    BY <2>4, <2>8, NewestMeans
<1> QED
  BY <1>4, <1>5

(* The shared pointer of a branch names the newest operation on it, for    *)
(* every number of worktrees and branches: where worktrees are added and   *)
(* removed and logs only grow, and in one worktree whatever is undone,     *)
(* redone and trimmed, if no pass is killed (commit_op, move_pointer,      *)
(* trim_chain).                                                            *)
THEOREM PointersAreNewest == Spec => []PointerNewest
<1>1. Init => PInv
  BY InitPInv
<1>2. PInv /\ IInv /\ [Next]_vars => PInv'
  BY StepPInv
<1>3. IInv /\ PInv => PointerNewest
  BY PInvIsNewest
<1>4. Spec => []IInv
  BY WorktreesInvariant
<1> QED
  BY <1>1, <1>2, <1>3, <1>4, PTL DEF Spec

=============================================================================
