---------------------------- MODULE RewindProofs ----------------------------
(***************************************************************************)
(* Theorems about Rewind, for every set of branches and sessions, every    *)
(* story and every bound.                                                  *)
(***************************************************************************)
EXTENDS Rewind, Walks

Kinds == {"note", "foreign", "capture", "op"}
Written ==
  [kind : Kinds, branch : Branches, session : Sessions \cup {"none"}, open : BOOLEAN,
   tips : [Branches -> Nat], head : Branches, tree : Nat, prev : Nat, onBranch : Nat]

(* Operations in the order they were written: each names an older one.     *)
Linked(st) == st \in Seq(Written) /\ \A k \in 1..Len(st) : st[k].prev \in 0..(k - 1)

(* The operations at and below i.                                          *)
Below(st, i) == ToSet(ChainIn(st, i))

-----------------------------------------------------------------------------
(***************************************************************************)
(* Walks, newest first.                                                    *)
(***************************************************************************)

(* Rewind's walks are those of Walks.                                      *)
LEMMA ChainIsDescent ==
  ASSUME NEW st, Linked(st)
  PROVE  /\ Older(st)
         /\ \A i : ChainIn(st, i) = DescentIn(st, i) /\ Below(st, i) = Reached(st, i)
BY DEF Linked, Older, ChainIn, DescentIn, Below, Reached, None

LEMMA ChainDef ==
  ASSUME NEW st, Linked(st)
  PROVE  /\ Len(st) \in Nat
         /\ ChainIn(st, 0) = << >>
         /\ \A i \in 1..Len(st) : ChainIn(st, i) = <<i>> \o ChainIn(st, st[i].prev)
BY ChainIsDescent, DescentDef

LEMMA ChainFacts ==
  ASSUME NEW st, Linked(st)
  PROVE  \A i \in 0..Len(st) : /\ ChainIn(st, i) \in Seq(1..i)
                               /\ Descends(ChainIn(st, i))
BY ChainIsDescent, DescentFacts

(* What lies below an operation of a walk is the rest of the walk.         *)
LEMMA BelowFacts ==
  ASSUME NEW st, Linked(st)
  PROVE  /\ Below(st, 0) = {}
         /\ \A i \in 1..Len(st) : Below(st, i) = {i} \cup Below(st, st[i].prev)
         /\ \A i \in 0..Len(st) : /\ Below(st, i) \subseteq 1..i
                                  /\ \A j \in Below(st, i) : Below(st, j) = Below(st, i) \cap 1..j
BY ChainIsDescent, ReachedFacts

-----------------------------------------------------------------------------
(***************************************************************************)
(* The newest operation on a branch.                                       *)
(***************************************************************************)

(* x is the newest operation of S on the branch b, None when it has none.  *)
Newest(st, S, b, x) ==
  IF \E j \in S : st[j].branch = b
    THEN x \in S /\ st[x].branch = b /\ \A j \in S : st[j].branch = b => j <= x
    ELSE x = None

LEMMA OneNewest ==
  ASSUME NEW st, NEW S \in SUBSET Nat, NEW b, NEW x, NEW y, Newest(st, S, b, x), Newest(st, S, b, y)
  PROVE  x = y
<1>1. CASE \E j \in S : st[j].branch = b
  <2>1. x \in Nat /\ y \in Nat /\ x <= y /\ y <= x
    BY <1>1 DEF Newest
  <2> QED
    BY <2>1
<1> QED
  BY <1>1 DEF Newest

(* A walk, by its members.                                                 *)
LEMMA WalkMembers ==
  ASSUME NEW st, Linked(st), NEW i \in 0..Len(st)
  PROVE  /\ ChainIn(st, i) \in Seq(1..i) /\ Len(ChainIn(st, i)) \in Nat /\ Descends(ChainIn(st, i))
         /\ DOMAIN ChainIn(st, i) = 1..Len(ChainIn(st, i))
         /\ \A k \in 1..Len(ChainIn(st, i)) : ChainIn(st, i)[k] \in 1..i
         /\ \A y : y \in Below(st, i) <=> \E k \in 1..Len(ChainIn(st, i)) : ChainIn(st, i)[k] = y
<1>1. Older(st) /\ ChainIn(st, i) = DescentIn(st, i) /\ Below(st, i) = Reached(st, i)
  BY ChainIsDescent
<1> DEFINE d == DescentIn(st, i)
           R == Reached(st, i)
<1>2. /\ d \in Seq(1..i) /\ Len(d) \in Nat /\ Descends(d) /\ DOMAIN d = 1..Len(d)
      /\ \A k \in 1..Len(d) : d[k] \in 1..i
      /\ \A y : y \in R <=> \E k \in 1..Len(d) : d[k] = y
  BY <1>1, DescentMembers
<1> HIDE DEF d, R
<1>3. ChainIn(st, i) = d /\ Below(st, i) = R
  BY <1>1 DEF d, R
<1> QED
  BY ONLY <1>2, <1>3

LEMMA WalkDown ==
  ASSUME NEW st, Linked(st), NEW i \in 0..Len(st)
  PROVE  IsWalkDown(ChainIn(st, i), Below(st, i), i)
BY ChainIsDescent, DescentDown

(* The first of a walk on a branch is the newest below it.                 *)
LEMMA FirstOn ==
  ASSUME NEW st, Linked(st), NEW i \in 0..Len(st), NEW b
  PROVE  LET ops == ChainIn(st, i)
             onIt == On(st, ops, b)
         IN Newest(st, Below(st, i), b, IF onIt = {} THEN None ELSE ops[Min(onIt)])
<1> DEFINE s == ChainIn(st, i)
           K == On(st, s, b)
           S == Below(st, i)
<1>1. /\ Len(s) \in Nat /\ Descends(s) /\ DOMAIN s = 1..Len(s)
      /\ \A k \in 1..Len(s) : s[k] \in 1..i
      /\ \A y : y \in S <=> \E k \in 1..Len(s) : s[k] = y
  BY WalkMembers
<1>2. K = {k \in 1..Len(s) : st[s[k]].branch = b}
  BY <1>1 DEF On
<1> HIDE DEF s, K, S
<1>3. CASE K = {}
  <2>1. \A j \in S : st[j].branch # b
    BY <1>1, <1>2, <1>3
  <2> QED
    BY <1>3, <2>1 DEF Newest, S, K, s
<1>4. CASE K # {}
  <2> DEFINE m == Min(K)
  <2>1. m \in K /\ \A k \in K : m <= k
    BY <1>1, <1>2, <1>4, MinIs
  <2> HIDE DEF m
  <2>2. m \in 1..Len(s) /\ s[m] \in S /\ st[s[m]].branch = b
    BY <1>1, <1>2, <2>1
  <2>3. ASSUME NEW j \in S, st[j].branch = b PROVE j <= s[m]
    <3>1. PICK k \in 1..Len(s) : s[k] = j
      BY <1>1
    <3>2. m <= k
      BY <1>2, <2>1, <2>3, <3>1
    <3>3. CASE m = k
      BY <1>1, <3>1, <3>3
    <3>4. CASE m < k
      BY <1>1, <2>2, <3>1, <3>4 DEF Descends
    <3> QED
      BY <2>2, <3>2, <3>3, <3>4
  <2>4. Newest(st, S, b, s[m])
    BY <2>2, <2>3 DEF Newest
  <2> QED
    BY <1>4, <2>4 DEF S, K, s, m
<1> QED
  BY <1>3, <1>4

(* What one walk has before it meets another.                              *)
LEMMA OnlyIs ==
  ASSUME NEW st, Linked(st), NEW i \in 0..Len(st), NEW j \in 0..Len(st)
  PROVE  LET s == ChainIn(st, i)
             o == Only(s, ChainIn(st, j))
         IN /\ o \in Seq(1..i) /\ Len(o) \in 0..Len(s) /\ DOMAIN o = 1..Len(o)
            /\ \A k \in 1..Len(o) : o[k] = s[k] /\ s[k] \notin Below(st, j)
            /\ \A k \in 1..Len(s) : k > Len(o) => s[k] \in Below(st, j)
<1>1. /\ Older(st) /\ ChainIn(st, i) = DescentIn(st, i) /\ ChainIn(st, j) = DescentIn(st, j)
      /\ Below(st, j) = Reached(st, j)
  BY ChainIsDescent
<1>2. \A these, those : Only(these, those) = Apart(these, those)
  BY DEF Only, Apart
<1> QED
  BY <1>1, <1>2, ApartIs

(* move_pointer is right: from the newest operations below the tip to      *)
(* those below the target.                                                 *)
OnBranchIsNewest(st) ==
  \A k \in 1..Len(st) : Newest(st, Below(st, st[k].prev), st[k].branch, st[k].onBranch)

LEMMA PointersAre ==
  ASSUME NEW L, Linked(L.store), OnBranchIsNewest(L.store),
         L.tip \in 0..Len(L.store), NEW target \in 0..Len(L.store),
         NEW b \in Branches, Newest(L.store, Below(L.store, L.tip), b, L.snap[b])
  PROVE  Newest(L.store, Below(L.store, target), b,
                PointersAfter(L, Back(L, target), Fwd(L, target))[b])
<1> DEFINE st == L.store
           s == ChainIn(st, L.tip)
           t == ChainIn(st, target)
           back == Back(L, target)
           fwd == Fwd(L, target)
           left == On(st, back, b)
           entered == On(st, fwd, b)
           S == Below(st, L.tip)
           U == Below(st, target)
           x == IF entered # {} THEN fwd[Min(entered)]
                ELSE IF left # {} THEN st[back[Max(left)]].onBranch
                ELSE L.snap[b]
<1>1. PointersAfter(L, back, fwd)[b] = x
  BY DEF PointersAfter
<1>2. /\ Len(s) \in Nat /\ Descends(s)
      /\ \A k \in 1..Len(s) : s[k] \in 1..L.tip
      /\ \A y : y \in S <=> \E k \in 1..Len(s) : s[k] = y
  <2>1. IsWalkDown(s, S, L.tip)
    BY ONLY Linked(L.store), L.tip \in 0..Len(L.store), WalkDown
  <2> QED
    BY ONLY <2>1 DEF IsWalkDown
<1>3. /\ Len(t) \in Nat /\ Descends(t)
      /\ \A k \in 1..Len(t) : t[k] \in 1..target
      /\ \A y : y \in U <=> \E k \in 1..Len(t) : t[k] = y
  <2>1. IsWalkDown(t, U, target)
    BY ONLY Linked(L.store), target \in 0..Len(L.store), WalkDown
  <2> QED
    BY ONLY <2>1 DEF IsWalkDown
<1>4. /\ Len(back) \in 0..Len(s) /\ DOMAIN back = 1..Len(back)
      /\ \A k \in 1..Len(back) : back[k] = s[k] /\ s[k] \notin U
      /\ \A k \in 1..Len(s) : k > Len(back) => s[k] \in U
  BY OnlyIs DEF Back, Ops
<1>5. /\ Len(fwd) \in 0..Len(t) /\ DOMAIN fwd = 1..Len(fwd)
      /\ \A k \in 1..Len(fwd) : fwd[k] = t[k] /\ t[k] \notin S
      /\ \A k \in 1..Len(t) : k > Len(fwd) => t[k] \in S
  BY OnlyIs DEF Fwd, Ops
<1>6. left = {k \in 1..Len(back) : st[back[k]].branch = b}
  BY <1>4 DEF On
<1>7. entered = {k \in 1..Len(fwd) : st[fwd[k]].branch = b}
  BY <1>5 DEF On
<1>8. /\ Linked(st) /\ st \in Seq(Written) /\ Len(st) \in Nat /\ L.tip \in 0..Len(st)
      /\ target \in 0..Len(st)
  BY DEF Linked
<1>9. Newest(st, S, b, L.snap[b]) /\ OnBranchIsNewest(st)
  OBVIOUS
<1> SUFFICES Newest(st, U, b, x)
  BY <1>1
<1> HIDE DEF st, s, t, back, fwd, left, entered, S, U
<1>10. CASE entered # {}
  <2> DEFINE m == Min(entered)
  <2>1. m \in entered /\ \A k \in entered : m <= k
    <3>1. entered \subseteq 1..Len(fwd) /\ Len(fwd) \in Nat
      BY <1>3, <1>5, <1>7
    <3> QED
      BY ONLY <1>10, <3>1, MinIs DEF m
  <2> HIDE DEF m
  <2>2. m \in 1..Len(t) /\ m \in 1..Len(fwd) /\ fwd[m] = t[m] /\ t[m] \in U /\ st[t[m]].branch = b
    BY <1>3, <1>5, <1>7, <2>1
  <2>3. ASSUME NEW j \in U, st[j].branch = b PROVE j <= t[m]
    <3>1. PICK k \in 1..Len(t) : t[k] = j
      BY <1>3
    <3>2. m <= k
      <4>1. CASE k \in 1..Len(fwd)
        BY <1>5, <1>7, <2>1, <2>3, <3>1, <4>1
      <4>2. CASE k \notin 1..Len(fwd)
        BY <1>5, <2>2, <4>2
      <4> QED
        BY <4>1, <4>2
    <3>3. CASE m = k
      BY <1>3, <3>1, <3>3
    <3>4. CASE m < k
      BY <1>3, <2>2, <3>1, <3>4 DEF Descends
    <3> QED
      BY <2>2, <3>2, <3>3, <3>4
  <2>4. Newest(st, U, b, t[m])
    BY <2>2, <2>3 DEF Newest
  <2>5. x = t[m]
    BY <1>10, <2>2 DEF m
  <2> QED
    BY <2>4, <2>5
<1>11. CASE entered = {} /\ left # {}
  <2> DEFINE m == Max(left)
             o == s[m]
             p == st[o].prev
  <2>1. m \in left /\ \A k \in left : k <= m
    <3>1. left \subseteq 1..Len(back) /\ Len(back) \in Nat
      BY <1>2, <1>4, <1>6
    <3> QED
      BY ONLY <1>11, <3>1, MaxIs DEF m
  <2> HIDE DEF m
  <2>2. m \in 1..Len(s) /\ m \in 1..Len(back) /\ back[m] = o /\ o \in S /\ st[o].branch = b
    BY <1>2, <1>4, <1>6, <2>1
  <2>3. o \in 1..Len(st) /\ p \in 0..(o - 1) /\ p \in 0..Len(st)
    <3>1. o \in 1..Len(st)
      BY <1>2, <1>8, <2>2
    <3>2. p \in 0..(o - 1)
      BY <1>8, <3>1 DEF Linked
    <3> QED
      BY <1>8, <3>1, <3>2
  <2>4. x = st[o].onBranch
    BY <1>11, <2>2 DEF m
  <2>5. Newest(st, Below(st, p), b, st[o].onBranch)
    BY <1>9, <2>2, <2>3 DEF OnBranchIsNewest
  <2>6. Below(st, o) = S \cap 1..o /\ Below(st, o) = {o} \cup Below(st, p) /\ Below(st, p) \subseteq 1..p
    <3>1. Below(st, o) = S \cap 1..o
      BY <1>8, <2>2, BelowFacts DEF S
    <3>2. Below(st, o) = {o} \cup Below(st, p)
      BY <1>8, <2>3, BelowFacts
    <3>3. Below(st, p) \subseteq 1..p
      BY <1>8, <2>3, BelowFacts
    <3> QED
      BY <3>1, <3>2, <3>3
  <2> HIDE DEF o, p
  <2>7. ASSUME NEW y, st[y].branch = b PROVE y \in Below(st, p) <=> y \in U
    <3>1. ASSUME y \in Below(st, p) PROVE y \in U
      <4>1. y \in S /\ y < o /\ y \in Nat
        BY <2>3, <2>6, <3>1
      <4>2. PICK k \in 1..Len(s) : s[k] = y
        BY <1>2, <4>1
      <4>3. k > m
        <5>1. ~(k < m) /\ k # m
          <6>1. k < m => o < y
            BY <1>2, <2>2, <4>2 DEF Descends, o
          <6>2. k = m => y = o
            BY <4>2 DEF o
          <6> QED
            BY <2>3, <4>1, <6>1, <6>2
        <5> QED
          BY <2>2, <5>1
      <4>4. k > Len(back)
        <5>1. k \notin left
          BY <1>2, <2>1, <2>2, <4>3
        <5>2. k \notin 1..Len(back)
          BY <1>4, <1>6, <2>7, <4>2, <5>1
        <5> QED
          BY <1>4, <5>2
      <4> QED
        BY <1>4, <4>2, <4>4
    <3>2. ASSUME y \in U PROVE y \in Below(st, p)
      <4>1. PICK k \in 1..Len(t) : t[k] = y
        BY <1>3, <3>2
      <4>2. k > Len(fwd)
        <5>1. k \notin 1..Len(fwd)
          BY <1>5, <1>7, <1>11, <2>7, <4>1
        <5> QED
          BY <1>5, <5>1
      <4>3. y \in S
        BY <1>5, <4>1, <4>2
      <4>4. PICK l \in 1..Len(s) : s[l] = y
        BY <1>2, <4>3
      <4>5. l > m
        <5>1. l \notin 1..Len(back)
          BY <1>4, <3>2, <4>4
        <5> QED
          BY <1>4, <2>2, <5>1
      <4>6. y < o /\ y \in 1..L.tip
        BY <1>2, <2>2, <4>4, <4>5 DEF Descends, o
      <4>7. y \in Below(st, o) /\ y # o
        BY <2>3, <2>6, <4>3, <4>6
      <4> QED
        BY <2>6, <4>7
    <3> QED
      BY <3>1, <3>2
  <2>8. Newest(st, U, b, st[o].onBranch)
    <3> DEFINE z == st[o].onBranch
    <3>1. Newest(st, Below(st, p), b, z)
      BY <2>5
    <3> HIDE DEF z
    <3>2. Newest(st, U, b, z)
      BY <2>7, <3>1 DEF Newest
    <3> QED
      BY <3>2 DEF z
  <2> QED
    BY <2>4, <2>8
<1>12. CASE entered = {} /\ left = {}
  <2>1. ASSUME NEW y, st[y].branch = b PROVE y \in S <=> y \in U
    <3>1. ASSUME y \in S PROVE y \in U
      <4>1. PICK k \in 1..Len(s) : s[k] = y
        BY <1>2, <3>1
      <4>2. k \notin 1..Len(back)
        BY <1>4, <1>6, <1>12, <2>1, <4>1
      <4>3. k > Len(back)
        BY <1>4, <4>2
      <4> QED
        BY <1>4, <4>1, <4>3
    <3>2. ASSUME y \in U PROVE y \in S
      <4>1. PICK k \in 1..Len(t) : t[k] = y
        BY <1>3, <3>2
      <4>2. k \notin 1..Len(fwd)
        BY <1>5, <1>7, <1>12, <2>1, <4>1
      <4>3. k > Len(fwd)
        BY <1>5, <4>2
      <4> QED
        BY <1>5, <4>1, <4>3
    <3> QED
      BY <3>1, <3>2
  <2>2. x = L.snap[b]
    BY <1>12
  <2> QED
    BY <1>9, <2>1, <2>2 DEF Newest
<1> QED
  BY <1>10, <1>11, <1>12

-----------------------------------------------------------------------------
(***************************************************************************)
(* The log as a value.                                                     *)
(***************************************************************************)

(* An operation written leaves every walk below it what it was.            *)
LEMMA Grown ==
  ASSUME NEW st, Linked(st), NEW e \in Written, e.prev \in 0..Len(st)
  PROVE  /\ Linked(Append(st, e)) /\ Len(st) \in Nat
         /\ Len(Append(st, e)) = Len(st) + 1
         /\ Append(st, e)[Len(st) + 1] = e
         /\ \A k \in 1..Len(st) : Append(st, e)[k] = st[k]
         /\ \A i \in 0..Len(st) : /\ ChainIn(Append(st, e), i) = ChainIn(st, i)
                                  /\ Below(Append(st, e), i) = Below(st, i)
<1> DEFINE n == Len(st)
           su == Append(st, e)
<1>1. st \in Seq(Written) /\ n \in Nat /\ \A k \in 1..n : st[k].prev \in 0..(k - 1)
  BY DEF Linked
<1>2. su \in Seq(Written) /\ Len(su) = n + 1 /\ su[n + 1] = e /\ \A k \in 1..n : su[k] = st[k]
  BY <1>1
<1> HIDE DEF su, n
<1>3. Linked(su)
  <2>1. ASSUME NEW k \in 1..(n + 1) PROVE su[k].prev \in 0..(k - 1)
    <3>1. CASE k = n + 1
      BY <1>1, <1>2, <3>1 DEF n
    <3>2. CASE k # n + 1
      <4>1. k \in 1..n
        BY <1>1, <3>2
      <4> QED
        BY <1>1, <1>2, <4>1
    <3> QED
      BY <3>1, <3>2
  <2> QED
    BY <1>2, <2>1 DEF Linked
<1>4. Older(st) /\ Older(su) /\ Len(st) <= Len(su) /\ \A k \in 1..Len(st) : su[k].prev = st[k].prev
  BY <1>1, <1>2, <1>3, ChainIsDescent DEF n
<1>5. \A i \in 0..n : DescentIn(su, i) = DescentIn(st, i) /\ Reached(su, i) = Reached(st, i)
  BY ONLY <1>4, DescentStays DEF n
<1>6. \A i \in 0..n : ChainIn(su, i) = ChainIn(st, i) /\ Below(su, i) = Below(st, i)
  BY <1>3, <1>5, ChainIsDescent
<1> QED
  BY <1>1, <1>2, <1>3, <1>6 DEF su, n

Line == [old : Nat, new : Nat, line : {"work", "undo", "redo"}]

(* A move was from an operation that is written.                           *)
Moved(lines, st) ==
  /\ lines \in Seq(Line)
  /\ \A k \in 1..Len(lines) : lines[k].line # "work" => lines[k].old \in 1..Len(st)

Pointed(st, tip, snap) ==
  /\ snap \in [Branches -> Nat]
  /\ \A b \in Branches : Newest(st, Below(st, tip), b, snap[b])

IsLog(L) == L = [store |-> L.store, tip |-> L.tip, snap |-> L.snap, reflog |-> L.reflog]

LogOK(L) ==
  /\ IsLog(L)
  /\ Linked(L.store) /\ OnBranchIsNewest(L.store)
  /\ L.tip \in 0..Len(L.store)
  /\ Pointed(L.store, L.tip, L.snap)
  /\ Moved(L.reflog, L.store)

(* What commit_op writes is in order.                                      *)
LEMMA PushOK ==
  ASSUME NEW L, LogOK(L), NEW op \in Written
  PROVE  /\ LogOK(Push(L, op)) /\ Push(L, op).tip = Len(L.store) + 1
         /\ Push(L, op).tip # None
         /\ Push(L, op).snap[op.branch] = Push(L, op).tip
         /\ \A f \in {"tips", "head", "tree", "branch", "kind"} :
              Push(L, op).store[Push(L, op).tip][f] = op[f]
         /\ Len(Push(L, op).store) = Len(L.store) + 1
<1> DEFINE st == L.store
           id == Len(st) + 1
           c == op.branch
           e == [op EXCEPT !.prev = L.tip, !.onBranch = L.snap[c]]
           su == Append(st, e)
           P == Push(L, op)
           snap == [L.snap EXCEPT ![c] = id]
           line == [old |-> L.tip, new |-> id, line |-> "work"]
           lines == Append(L.reflog, line)
<1>1. /\ Linked(st) /\ OnBranchIsNewest(st) /\ Len(st) \in Nat /\ L.tip \in 0..Len(st) /\ L.tip \in Nat
      /\ L.snap \in [Branches -> Nat] /\ c \in Branches
      /\ \A b \in Branches : Newest(st, Below(st, L.tip), b, L.snap[b])
      /\ L.reflog \in Seq(Line)
      /\ \A k \in 1..Len(L.reflog) : L.reflog[k].line # "work" => L.reflog[k].old \in 1..Len(st)
  BY DEF LogOK, Linked, Pointed, Moved, Written
<1>2. P.store = su /\ P.tip = id /\ P.snap = snap /\ P.reflog = lines
  BY DEF Push
<1>3. e \in Written /\ e.prev = L.tip /\ e.onBranch = L.snap[c] /\ e.branch = c
      /\ \A f \in {"tips", "head", "tree", "branch", "kind"} : e[f] = op[f]
  <2> DEFINE x == L.tip
             y == L.snap[c]
  <2>1. x \in Nat /\ y \in Nat
    BY <1>1
  <2> HIDE DEF x, y
  <2>2. [op EXCEPT !.prev = x, !.onBranch = y] \in Written
    BY <2>1 DEF Written
  <2>3. DOMAIN op = {"kind", "branch", "session", "open", "tips", "head", "tree", "prev", "onBranch"}
    BY DEF Written
  <2> QED
    BY <2>2, <2>3 DEF x, y
<1> HIDE DEF P, e, c
<1>4. /\ Linked(su) /\ Len(su) = id /\ su[id] = e
      /\ \A k \in 1..Len(st) : su[k] = st[k]
      /\ \A i \in 0..Len(st) : Below(su, i) = Below(st, i)
  <2>1. e.prev \in 0..Len(st)
    BY <1>1, <1>3
  <2> HIDE DEF st
  <2> QED
    BY ONLY <1>1, <1>3, <2>1, Grown DEF id, su
<1> HIDE DEF su
<1>5. Below(su, id) = {id} \cup Below(st, L.tip)
  <2>1. id \in 1..Len(su) /\ su[id].prev = L.tip
    BY <1>1, <1>3, <1>4
  <2>2. Below(su, id) = {id} \cup Below(su, su[id].prev)
    BY ONLY <1>4, <2>1, BelowFacts
  <2> QED
    BY <1>1, <1>4, <2>1, <2>2
<1>6. Below(st, L.tip) \subseteq 1..L.tip
  BY ONLY <1>1, BelowFacts
<1>7. ASSUME NEW i \in 0..Len(st), NEW b, NEW x, Newest(st, Below(st, i), b, x)
      PROVE  Newest(su, Below(su, i), b, x)
  <2>1. Below(su, i) = Below(st, i) /\ Below(st, i) \subseteq 1..i /\ 1..i \subseteq 1..Len(st)
    <3>1. Below(st, i) \subseteq 1..i
      BY ONLY <1>1, <1>7, BelowFacts
    <3> QED
      BY <1>1, <1>4, <3>1
  <2>2. \A j \in Below(st, i) : su[j] = st[j]
    BY <1>4, <2>1
  <2> DEFINE S == Below(st, i)
  <2> HIDE DEF S, st
  <2>3. Newest(st, S, b, x) /\ \A j \in S : su[j] = st[j]
    BY <1>7, <2>2 DEF S
  <2>4. Newest(su, S, b, x)
    BY ONLY <2>3 DEF Newest
  <2> QED
    BY <2>1, <2>4 DEF S
<1>8. OnBranchIsNewest(su)
  <2>1. ASSUME NEW k \in 1..Len(su)
        PROVE  Newest(su, Below(su, su[k].prev), su[k].branch, su[k].onBranch)
    <3>1. CASE k = id
      <4>1. su[k].prev = L.tip /\ su[k].branch = c /\ su[k].onBranch = L.snap[c]
        BY <1>3, <1>4, <3>1
      <4>2. Newest(st, Below(st, L.tip), c, L.snap[c])
        BY <1>1
      <4> QED
        BY <1>1, <1>7, <4>1, <4>2
    <3>2. CASE k # id
      <4>1. k \in 1..Len(st) /\ su[k] = st[k]
        BY <1>1, <1>4, <3>2
      <4>2. st[k].prev \in 0..Len(st)
        BY <1>1, <4>1 DEF Linked
      <4>3. Newest(st, Below(st, st[k].prev), st[k].branch, st[k].onBranch)
        BY <1>1, <4>1 DEF OnBranchIsNewest
      <4> QED
        BY <1>7, <4>1, <4>2, <4>3
    <3> QED
      BY <3>1, <3>2
  <2> QED
    BY <2>1 DEF OnBranchIsNewest
<1>9. Pointed(su, id, snap)
  <2>1. snap \in [Branches -> Nat] /\ snap[c] = id /\ \A b \in Branches : b # c => snap[b] = L.snap[b]
    BY <1>1
  <2>2. ASSUME NEW b \in Branches PROVE Newest(su, Below(su, id), b, snap[b])
    <3>1. CASE b = c
      <4>1. su[id].branch = c
        BY <1>3, <1>4
      <4>2. \A j \in Below(su, id) : j <= id
        BY <1>1, <1>5, <1>6
      <4> QED
        BY <1>5, <2>1, <3>1, <4>1, <4>2 DEF Newest
    <3>2. CASE b # c
      <4>1. Newest(su, Below(st, L.tip), b, L.snap[b])
        <5>1. Newest(st, Below(st, L.tip), b, L.snap[b])
          BY <1>1
        <5> QED
          BY <1>1, <1>4, <1>7, <5>1
      <4>2. su[id].branch # b
        BY <1>3, <1>4, <3>2
      <4> DEFINE S == Below(st, L.tip)
                 x == L.snap[b]
      <4>3. Newest(su, S, b, x) /\ Below(su, id) = {id} \cup S /\ snap[b] = x
        BY <1>5, <2>1, <3>2, <4>1
      <4> HIDE DEF S, x, snap, id
      <4> QED
        BY <4>2, <4>3 DEF Newest
    <3> QED
      BY <3>1, <3>2
  <2> QED
    BY <2>1, <2>2 DEF Pointed
<1>10. Moved(lines, su)
  <2> DEFINE n == Len(L.reflog)
  <2>1. line \in Line /\ line.line = "work"
    BY <1>1 DEF Line
  <2>2. lines \in Seq(Line) /\ n \in Nat /\ Len(lines) = n + 1 /\ lines[n + 1] = line
        /\ \A k \in 1..n : lines[k] = L.reflog[k]
    <3> HIDE DEF line
    <3> QED
      BY <1>1, <2>1
  <2> HIDE DEF lines, line
  <2>3. ASSUME NEW k \in 1..Len(lines), lines[k].line # "work" PROVE lines[k].old \in 1..Len(su)
    <3>1. k \in 1..n /\ lines[k] = L.reflog[k]
      <4>1. k # n + 1
        BY <2>1, <2>2, <2>3
      <4> QED
        BY <2>2, <4>1
    <3>2. L.reflog[k].old \in 1..Len(st)
      BY <1>1, <2>3, <3>1
    <3> QED
      BY <1>1, <1>4, <3>1, <3>2
  <2> QED
    BY <2>2, <2>3 DEF Moved
<1>11. P.store[P.tip] = e
  BY <1>2, <1>4
<1>12. LogOK(P)
  <2>1. P.tip \in 0..Len(P.store)
    BY <1>1, <1>2, <1>4
  <2>2. IsLog(P)
    BY DEF P, Push, IsLog
  <2> HIDE DEF id, snap, lines
  <2> QED
    BY <1>2, <1>4, <1>8, <1>9, <1>10, <2>1, <2>2 DEF LogOK
<1>13. P.snap[c] = P.tip
  BY <1>1, <1>2
<1> QED
  BY <1>1, <1>2, <1>3, <1>4, <1>11, <1>12, <1>13 DEF P, c, None

WorldOK == tips \in [Branches -> Nat] /\ head \in Branches /\ disk \in Nat /\ fresh \in Nat

LEMMA DraftIs ==
  ASSUME WorldOK, NEW kind \in Kinds, NEW session \in Sessions \cup {"none"}, NEW table,
         table.tips \in [Branches -> Nat], table.head \in Branches,
         NEW tree \in Nat, NEW headAfter
  PROVE  /\ Draft(kind, session, table, tree, headAfter) \in Written
         /\ Draft(kind, session, table, tree, headAfter).tips = table.tips
         /\ Draft(kind, session, table, tree, headAfter).head = table.head
         /\ Draft(kind, session, table, tree, headAfter).tree = tree
         /\ Draft(kind, session, table, tree, headAfter).branch = head
  BY DEF Draft, Written, WorldOK, None

(* What an operation of the log states.                                    *)
LEMMA TableIs ==
  ASSUME NEW L, LogOK(L), NEW i \in 1..Len(L.store)
  PROVE  /\ L.store[i].tips \in [Branches -> Nat] /\ L.store[i].head \in Branches
         /\ L.store[i].tree \in Nat /\ L.store[i].branch \in Branches
<1>1. L.store \in Seq(Written)
  BY DEF LogOK, Linked
<1>2. L.store[i] \in Written
  BY <1>1, ElementOfSeq
<1> QED
  BY <1>2 DEF Written

(* At most one operation was written.                                      *)
Wrote(L, M) == M = L \/ \E op \in Written : M = Push(L, op)

LEMMA ReconcileOK ==
  ASSUME NEW L, LogOK(L), WorldOK
  PROVE  /\ LogOK(Reconcile(L)) /\ Reconcile(L).tip # None /\ Table(Reconcile(L)) = Observed
         /\ Wrote(L, Reconcile(L))
<1>1. Observed.tips \in [Branches -> Nat] /\ Observed.head \in Branches /\ tips[head] \in Nat
      /\ disk \in Nat /\ Observed = [tips |-> Observed.tips, head |-> Observed.head]
  BY DEF Observed, WorldOK
<1>2. ASSUME NEW op \in Written, op.tips = Observed.tips, op.head = Observed.head
      PROVE  LogOK(Push(L, op)) /\ Push(L, op).tip # None /\ Table(Push(L, op)) = Observed
  <2>1. \A f \in {"tips", "head"} : Push(L, op).store[Push(L, op).tip][f] = op[f]
    BY PushOK
  <2>2. Push(L, op).store[Push(L, op).tip].tips = Observed.tips
        /\ Push(L, op).store[Push(L, op).tip].head = Observed.head
    BY <1>2, <2>1
  <2>3. Table(Push(L, op)) = [tips |-> Observed.tips, head |-> Observed.head]
    BY <2>2 DEF Table
  <2> QED
    BY <1>1, <2>3, PushOK
<1> DEFINE note == Draft("note", "none", Observed, tips[head], tips[head])
           foreign == Draft("foreign", "none", Observed, disk, tips[head])
<1>3. note \in Written /\ note.tips = Observed.tips /\ note.head = Observed.head
  BY <1>1, DraftIs DEF Kinds
<1>4. foreign \in Written /\ foreign.tips = Observed.tips /\ foreign.head = Observed.head
  BY <1>1, DraftIs DEF Kinds
<1> HIDE DEF note, foreign
<1>5. CASE L.tip = None
  <2>1. Reconcile(L) = Push(L, note)
    BY <1>5 DEF Reconcile, note
  <2> QED
    BY <1>2, <1>3, <2>1 DEF Wrote
<1>6. CASE L.tip # None /\ Table(L) = Observed
  <2>1. Reconcile(L) = L
    BY <1>6 DEF Reconcile
  <2> QED
    BY <1>6, <2>1 DEF Wrote
<1>7. CASE L.tip # None /\ Table(L) # Observed
  <2>1. Reconcile(L) = Push(L, foreign)
    BY <1>7 DEF Reconcile, foreign
  <2> QED
    BY <1>2, <1>4, <2>1 DEF Wrote
<1> QED
  BY <1>5, <1>6, <1>7

LEMMA CaptureOK ==
  ASSUME NEW L, LogOK(L), WorldOK, NEW session \in Sessions \cup {"none"}
  PROVE  /\ LogOK(Capture(L, session))
         /\ L.tip # None => Capture(L, session).tip # None
         /\ PreTree(Capture(L, session)) = disk
         /\ \E M : LogOK(M) /\ Wrote(L, M) /\ Wrote(M, Capture(L, session))
<1>1. CASE CaptureIsNoOp(L)
  <2>1. Capture(L, session) = L
    BY <1>1 DEF Capture
  <2>2. PreTree(L) = disk
    BY <1>1 DEF CaptureIsNoOp, PreTree
  <2> QED
    BY <2>1, <2>2 DEF Wrote
<1>2. CASE ~CaptureIsNoOp(L)
  <2> DEFINE M == IF L.tip = None THEN Reconcile(L) ELSE L
             op == Draft("capture", session, Table(M), disk, tips[head])
  <2>1. Capture(L, session) = Push(M, op)
    BY <1>2 DEF Capture, CaptureTable
  <2>2. LogOK(M) /\ M.tip # None /\ Wrote(L, M)
    BY ReconcileOK DEF Wrote
  <2> HIDE DEF M
  <2>3. M.tip \in 1..Len(M.store)
    BY <2>2 DEF LogOK, Linked, None
  <2>4. Table(M).tips \in [Branches -> Nat] /\ Table(M).head \in Branches
    BY <2>2, <2>3, TableIs DEF Table
  <2>5. op \in Written /\ op.tree = disk /\ op.branch = head
    <3>1. disk \in Nat
      BY DEF WorldOK
    <3> QED
      BY <2>4, <3>1, DraftIs DEF Kinds
  <2> HIDE DEF op
  <2>6. /\ LogOK(Push(M, op)) /\ Push(M, op).tip # None
        /\ Push(M, op).snap[head] = Push(M, op).tip
        /\ Push(M, op).store[Push(M, op).tip]["tree"] = disk
    <3>1. /\ LogOK(Push(M, op)) /\ Push(M, op).tip # None
          /\ Push(M, op).snap[op.branch] = Push(M, op).tip
          /\ \A f \in {"tips", "head", "tree", "branch", "kind"} :
               Push(M, op).store[Push(M, op).tip][f] = op[f]
      BY <2>2, <2>5, PushOK
    <3> QED
      BY <2>5, <3>1
  <2>7. PreTree(Push(M, op)) = disk
    BY <2>6 DEF PreTree
  <2> QED
    BY <2>1, <2>2, <2>5, <2>6, <2>7 DEF Wrote
<1> QED
  BY <1>1, <1>2

LEMMA PreambleOK ==
  ASSUME LogOK(Log), WorldOK
  PROVE  /\ LogOK(Preamble) /\ Preamble.tip # None /\ PreTree(Preamble) = disk
         /\ \E L, M : /\ LogOK(L) /\ LogOK(M)
                      /\ Wrote(Log, L) /\ Wrote(L, M) /\ Wrote(M, Preamble)
<1>1. LogOK(Reconcile(Log)) /\ Reconcile(Log).tip # None /\ Wrote(Log, Reconcile(Log))
  BY ReconcileOK
<1> DEFINE L == Reconcile(Log)
<1> HIDE DEF L
<1>2. LogOK(L) /\ L.tip # None /\ Wrote(Log, L)
  BY <1>1 DEF L
<1>3. LogOK(Capture(L, "none")) /\ Capture(L, "none").tip # None /\ PreTree(Capture(L, "none")) = disk
      /\ \E M : LogOK(M) /\ Wrote(L, M) /\ Wrote(M, Capture(L, "none"))
  BY <1>2, CaptureOK
<1> QED
  BY <1>2, <1>3 DEF Preamble, L

-----------------------------------------------------------------------------
(***************************************************************************)
(* Reading the reflog.                                                     *)
(***************************************************************************)

LEMMA UpTo ==
  ASSUME NEW n \in Nat, NEW T, 0 \in T, \A m \in 0..(n - 1) : m \in T => m + 1 \in T
  PROVE  0..n \subseteq T
<1>1. ASSUME NEW m \in 0..n, \A k \in 0..n : k < m => k \in T PROVE m \in T
  <2>1. CASE m = 0
    BY <2>1
  <2>2. CASE m # 0
    <3>1. m - 1 \in 0..n /\ m - 1 < m /\ m - 1 \in 0..(n - 1) /\ (m - 1) + 1 = m
      BY <2>2
    <3> QED
      BY <1>1, <3>1
  <2> QED
    BY <2>1, <2>2
<1> QED
  BY <1>1, AllNumbers

Start == [path |-> << >>, consumed |-> 0, over |-> FALSE]

(* f is what reading the first m lines finds, newest first.                *)
IsScan(f, tip, lines, m) ==
  f = [k \in 0..m |-> IF k = 0 THEN Start
                      ELSE ReadLine(tip, f[k - 1], lines[Len(lines) + 1 - k])]

LEMMA ScanExists ==
  ASSUME NEW tip, NEW lines, NEW n \in Nat
  PROVE  \E f : IsScan(f, tip, lines, n)
<1> DEFINE T == {m \in 0..n : \E f : IsScan(f, tip, lines, m)}
<1>1. 0 \in T
  <2> DEFINE f == [k \in 0..0 |-> Start]
  <2>1. IsScan(f, tip, lines, 0)
    BY DEF IsScan
  <2> QED
    BY <2>1
<1>2. ASSUME NEW m \in 0..(n - 1), m \in T PROVE m + 1 \in T
  <2>1. PICK f : IsScan(f, tip, lines, m)
    BY <1>2
  <2> DEFINE Next1(g, k) == ReadLine(tip, g[k - 1], lines[Len(lines) + 1 - k])
             g == [k \in 0..(m + 1) |-> IF k = m + 1 THEN Next1(f, m + 1) ELSE f[k]]
  <2> HIDE DEF Next1
  <2>2. \A k \in 0..m : f[k] = IF k = 0 THEN Start ELSE Next1(f, k)
    BY <2>1 DEF IsScan, Next1
  <2>3. \A k \in 0..m : g[k] = f[k]
    OBVIOUS
  <2>4. ASSUME NEW k \in 1..(m + 1) PROVE Next1(g, k) = Next1(f, k)
    <3>1. g[k - 1] = f[k - 1]
      <4>1. k - 1 \in 0..m
        OBVIOUS
      <4> QED
        BY <2>3, <4>1
    <3> QED
      BY <3>1 DEF Next1
  <2>5. ASSUME NEW k \in 0..(m + 1) PROVE g[k] = IF k = 0 THEN Start ELSE Next1(g, k)
    <3>1. CASE k = m + 1
      <4>1. g[m + 1] = Next1(f, m + 1) /\ m + 1 \in 1..(m + 1) /\ m + 1 # 0
        OBVIOUS
      <4> HIDE DEF g
      <4> QED
        BY <2>4, <3>1, <4>1
    <3>2. CASE k # m + 1
      <4>1. k \in 0..m /\ (k # 0 => k \in 1..(m + 1))
        BY <3>2
      <4> HIDE DEF g
      <4> QED
        BY <2>2, <2>3, <2>4, <4>1
    <3> QED
      BY <3>1, <3>2
  <2>6. g = [k \in 0..(m + 1) |-> g[k]]
    OBVIOUS
  <2> HIDE DEF g
  <2>7. g = [k \in 0..(m + 1) |-> IF k = 0 THEN Start ELSE Next1(g, k)]
    BY <2>5, <2>6
  <2>8. IsScan(g, tip, lines, m + 1)
    BY <2>7 DEF IsScan, Next1
  <2>9. m + 1 \in 0..n
    OBVIOUS
  <2> QED
    BY <2>8, <2>9
<1>3. 0..n \subseteq T
  <2> HIDE DEF T
  <2> QED
    BY <1>1, <1>2, UpTo
<1> QED
  BY <1>3

LEMMA ScanIs ==
  ASSUME NEW L, Len(L.reflog) \in Nat
  PROVE  /\ Scanned(L)[0] = Start
         /\ \A k \in 1..Len(L.reflog) :
              Scanned(L)[k] = ReadLine(L.tip, Scanned(L)[k - 1], L.reflog[Len(L.reflog) + 1 - k])
<1> DEFINE n == Len(L.reflog)
           scan[k \in 0..n] == IF k = 0 THEN [path |-> << >>, consumed |-> 0, over |-> FALSE]
                               ELSE ReadLine(L.tip, scan[k - 1], L.reflog[n + 1 - k])
<1>1. \E f : IsScan(f, L.tip, L.reflog, n)
  BY ScanExists
<1>2. scan = [k \in 0..n |-> IF k = 0 THEN [path |-> << >>, consumed |-> 0, over |-> FALSE]
                             ELSE ReadLine(L.tip, scan[k - 1], L.reflog[n + 1 - k])]
  BY <1>1 DEF IsScan, Start
<1>3. Scanned(L) = scan
  BY DEF Scanned
<1> HIDE DEF scan
<1>4. scan[0] = Start
  BY <1>2 DEF Start
<1>5. ASSUME NEW k \in 1..n
      PROVE  scan[k] = ReadLine(L.tip, scan[k - 1], L.reflog[n + 1 - k])
  <2>1. k \in 0..n /\ k # 0
    OBVIOUS
  <2> QED
    BY <1>2, <2>1
<1> QED
  BY <1>3, <1>4, <1>5

States(n) == [path : Seq(1..n), consumed : Nat, over : BOOLEAN]

(* What reading a line does, case by case.                                 *)
Reads(n, tip, s, e) ==
  /\ ReadLine(tip, s, e) \in States(n)
  /\ s.over => ReadLine(tip, s, e) = s
  /\ e.line = "work" => ReadLine(tip, s, e) = [s EXCEPT !.over = TRUE]
  /\ ~s.over /\ e.line = "redo" => ReadLine(tip, s, e) = [s EXCEPT !.consumed = @ + 1]
  /\ ~s.over /\ e.line = "undo" /\ s.consumed > 0 =>
       ReadLine(tip, s, e) = [s EXCEPT !.consumed = @ - 1]
  /\ ~s.over /\ e.line = "undo" /\ s.consumed = 0
       /\ e.old \notin ToSet(s.path) /\ e.old # tip =>
       ReadLine(tip, s, e) = [s EXCEPT !.path = Append(s.path, e.old)]
  /\ ReadLine(tip, s, e).path \in {s.path, Append(s.path, e.old)}

LEMMA LineRead ==
  ASSUME NEW n \in Nat, NEW tip, NEW s \in States(n), NEW e \in Line,
         e.line # "work" => e.old \in 1..n
  PROVE  Reads(n, tip, s, e)
<1>1. s.path \in Seq(1..n) /\ s.consumed \in Nat /\ s.over \in BOOLEAN
      /\ e.line \in {"work", "undo", "redo"}
  BY DEF States, Line
<1> DEFINE r == ReadLine(tip, s, e)
<1>2. CASE s.over \/ e.line = "work"
  <2>1. r = [s EXCEPT !.over = TRUE]
    BY <1>2 DEF ReadLine
  <2>2. [s EXCEPT !.over = TRUE] \in States(n)
    BY DEF States
  <2>3. s.over => [s EXCEPT !.over = TRUE] = s
    BY DEF States
  <2> QED
    BY <1>1, <1>2, <2>1, <2>2, <2>3 DEF Reads, States
<1>3. CASE ~s.over /\ e.line = "redo"
  <2>1. r = [s EXCEPT !.consumed = @ + 1]
    BY <1>3 DEF ReadLine
  <2>2. [s EXCEPT !.consumed = @ + 1] \in States(n)
    BY DEF States
  <2> QED
    BY <1>1, <1>3, <2>1, <2>2 DEF Reads, States
<1>4. CASE ~s.over /\ e.line = "undo"
  <2>1. CASE s.consumed > 0
    <3>1. r = [s EXCEPT !.consumed = @ - 1]
      BY <1>4, <2>1 DEF ReadLine
    <3>2. [s EXCEPT !.consumed = @ - 1] \in States(n)
      BY <1>1, <2>1 DEF States
    <3> QED
      BY <1>1, <1>4, <2>1, <3>1, <3>2 DEF Reads, States
  <2>2. CASE ~(s.consumed > 0) /\ (e.old \in ToSet(s.path) \/ (s.path = << >> /\ e.old = tip))
    <3>1. r = [s EXCEPT !.over = TRUE]
      BY <1>4, <2>2 DEF ReadLine
    <3>2. [s EXCEPT !.over = TRUE] \in States(n)
      BY DEF States
    <3> QED
      BY <1>1, <1>4, <2>2, <3>1, <3>2 DEF Reads, States
  <2>3. CASE ~(s.consumed > 0) /\ ~(e.old \in ToSet(s.path) \/ (s.path = << >> /\ e.old = tip))
    <3>1. r = [s EXCEPT !.path = Append(@, e.old)]
      BY <1>4, <2>3 DEF ReadLine
    <3>2. [s EXCEPT !.path = Append(@, e.old)] \in States(n)
      <4>1. Append(s.path, e.old) \in Seq(1..n)
        BY <1>1, <1>4
      <4> QED
        BY <4>1 DEF States
    <3> QED
      BY <1>1, <1>4, <2>3, <3>1, <3>2 DEF Reads, States
  <2> QED
    BY <1>1, <2>1, <2>2, <2>3
<1> QED
  BY <1>1, <1>2, <1>3, <1>4

LEMMA ScanTyped ==
  ASSUME NEW L, LogOK(L)
  PROVE  /\ Len(L.reflog) \in Nat
         /\ \A k \in 0..Len(L.reflog) : Scanned(L)[k] \in States(Len(L.store))
         /\ ForwardPath(L) \in Seq(1..Len(L.store))
<1> DEFINE n == Len(L.reflog)
           m == Len(L.store)
           scan == Scanned(L)
           T == {k \in 0..n : scan[k] \in States(m)}
<1>1. /\ n \in Nat /\ m \in Nat /\ L.reflog \in Seq(Line)
      /\ \A k \in 1..n : L.reflog[k] \in Line /\ (L.reflog[k].line # "work" => L.reflog[k].old \in 1..m)
  <2>1. L.reflog \in Seq(Line) /\ m \in Nat
        /\ \A k \in 1..n : L.reflog[k].line # "work" => L.reflog[k].old \in 1..m
    BY DEF LogOK, Moved, Linked
  <2> QED
    BY <2>1, ElementOfSeq
<1>2. scan[0] = Start /\ \A k \in 1..n : scan[k] = ReadLine(L.tip, scan[k - 1], L.reflog[n + 1 - k])
  BY <1>1, ScanIs
<1> HIDE DEF scan, n, m
<1>3. 0 \in T
  <2>1. Start \in States(m)
    BY DEF Start, States
  <2> QED
    BY <1>1, <1>2, <2>1
<1>4. ASSUME NEW k \in 0..(n - 1), k \in T PROVE k + 1 \in T
  <2>1. k + 1 \in 1..n /\ (k + 1) - 1 = k /\ n + 1 - (k + 1) \in 1..n /\ k + 1 \in 0..n
    BY <1>1
  <2>2. scan[k + 1] = ReadLine(L.tip, scan[k], L.reflog[n + 1 - (k + 1)])
    BY <1>2, <2>1
  <2>3. scan[k] \in States(m)
    BY <1>4
  <2>4. scan[k + 1] \in States(m)
    <3> DEFINE e == L.reflog[n + 1 - (k + 1)]
    <3>1. e \in Line /\ (e.line # "work" => e.old \in 1..m)
      BY <1>1, <2>1
    <3> HIDE DEF e
    <3>2. ReadLine(L.tip, scan[k], e) \in States(m)
      BY ONLY <1>1, <2>3, <3>1, LineRead DEF Reads
    <3> QED
      BY <2>2, <3>2 DEF e
  <2> QED
    BY <2>1, <2>4
<1>5. 0..n \subseteq T
  <2> HIDE DEF T
  <2> QED
    BY <1>1, <1>3, <1>4, UpTo
<1>6. \A k \in 0..n : scan[k] \in States(m)
  BY <1>5
<1>7. scan[n].path \in Seq(1..m)
  BY <1>1, <1>6 DEF States
<1> QED
  BY <1>1, <1>6, <1>7 DEF ForwardPath, scan, n, m

-----------------------------------------------------------------------------
(***************************************************************************)
(* Where a move may land.                                                  *)
(***************************************************************************)

LEMMA RunEndIs ==
  ASSUME NEW L, NEW ops, Len(ops) \in Nat, NEW i \in 1..Len(ops)
  PROVE  RunEnd(L, ops, i) \in i..Len(ops)
<1> DEFINE grouped(j) == \A k \in i..j :
             /\ L.store[ops[k]].kind = "capture"
             /\ L.store[ops[k]].session = L.store[ops[i]].session
           K == {i} \cup {j \in i..Len(ops) : grouped(j)}
<1>1. K \subseteq 1..Len(ops) /\ K # {}
  <2> HIDE DEF grouped
  <2> QED
    OBVIOUS
<1>2. \A k \in K : k \in i..Len(ops)
  <2> HIDE DEF grouped
  <2> QED
    OBVIOUS
<1>3. RunEnd(L, ops, i) = Max(K)
  BY DEF RunEnd
<1> HIDE DEF K
<1>4. Max(K) \in K
  BY <1>1, MaxIs
<1> QED
  BY <1>2, <1>3, <1>4

(* An undo lands below the tip.                                            *)
LEMMA OneRunIs ==
  ASSUME NEW L, LogOK(L), OneRun(L) # None
  PROVE  OneRun(L) \in Below(L.store, L.tip) /\ OneRun(L) < L.tip /\ OneRun(L) \in 1..Len(L.store)
<1> DEFINE ops == Ops(L)
           undoable == {i \in DOMAIN ops : L.store[ops[i]].kind # "note"}
           i == Min(undoable)
           last == RunEnd(L, ops, i)
<1>1. /\ Len(ops) \in Nat /\ Descends(ops) /\ DOMAIN ops = 1..Len(ops)
      /\ \A k \in 1..Len(ops) : ops[k] \in 1..L.tip
      /\ \A y : y \in Below(L.store, L.tip) <=> \E k \in 1..Len(ops) : ops[k] = y
  BY WalkMembers DEF LogOK, Ops
<1>2. undoable # {} /\ last # Len(ops) /\ OneRun(L) = ops[last + 1]
  BY <1>1 DEF OneRun
<1>3. undoable \subseteq 1..Len(ops)
  BY <1>1
<1> HIDE DEF ops, undoable, i, last
<1>4. i \in 1..Len(ops)
  BY <1>1, <1>2, <1>3, MinIs DEF i
<1>5. last \in i..Len(ops)
  BY <1>1, <1>4, RunEndIs DEF last
<1>6. last + 1 \in 1..Len(ops) /\ 1 \in 1..Len(ops) /\ 1 < last + 1
  <2>1. Len(ops) \in Nat /\ last # Len(ops)
    BY <1>1, <1>2
  <2> QED
    BY ONLY <1>4, <1>5, <2>1
<1>7. ops[last + 1] < ops[1] /\ ops[1] \in 1..L.tip /\ ops[last + 1] \in 1..L.tip
  BY <1>1, <1>6 DEF Descends
<1>8. ops[last + 1] \in Below(L.store, L.tip)
  BY <1>1, <1>6
<1>9. L.tip \in 0..Len(L.store) /\ Len(L.store) \in Nat
  BY DEF LogOK, Linked
<1> QED
  BY <1>2, <1>7, <1>8, <1>9

LEMMA LandingsAre ==
  ASSUME NEW L, LogOK(L), NEW how \in Landings, NEW target \in LandingsOf(L, how)
  PROVE  /\ target \in 1..Len(L.store)
         /\ how = "undo" => target \in Below(L.store, L.tip) /\ target < L.tip
         /\ how = "redo" => ForwardPath(L) # << >> /\ target = ForwardPath(L)[1]
<1>1. CASE how = "undo"
  BY <1>1, OneRunIs DEF LandingsOf
<1>2. CASE how = "redo"
  <2> DEFINE p == ForwardPath(L)
  <2>1. p \in Seq(1..Len(L.store))
    BY ScanTyped
  <2>2. target \in ToSet(p) /\ target = p[1]
    BY <1>2 DEF LandingsOf
  <2> HIDE DEF p
  <2>3. PICK k \in DOMAIN p : p[k] = target
    BY <2>2, ToSetIs
  <2>4. k \in 1..Len(p) /\ p # << >>
    BY <2>1, <2>3
  <2>5. target \in 1..Len(L.store)
    BY <2>1, <2>3, <2>4, ElementOfSeq
  <2> QED
    BY <1>2, <2>2, <2>4, <2>5 DEF p
<1>3. CASE how = "restore"
  <2>1. L.store \in Seq(Written)
    BY DEF LogOK, Linked
  <2> QED
    BY <1>3, <2>1 DEF LandingsOf
<1> QED
  BY <1>1, <1>2, <1>3 DEF Landings

-----------------------------------------------------------------------------
(***************************************************************************)
(* The inductive invariant.                                                *)
(***************************************************************************)

Moving == {"refs", "head", "tree", "pointer"}

(* The log stands still while a move is under way, so what the plan says   *)
(* of it still holds at the last step.                                     *)
PlanOK ==
  /\ pc \in {"idle", "hooks", "land"} \cup Moving
  /\ pc \in {"hooks", "land"} => plan.branch \in Branches /\ plan.target \in Nat
  /\ pc \in Moving =>
       /\ plan.how \in story.landings
       /\ opsRef # None /\ plan.tip = opsRef
       /\ plan.target \in LandingsOf(Log, plan.how)
       /\ plan.how \in Landings
       /\ plan.back = Back(Log, plan.target)
       /\ plan.fwd = Fwd(Log, plan.target)

(* How much of the landing stands after each step, when nobody interferes. *)
HalfWay ==
  ~story.interfere =>
    /\ pc = "refs" => plan.seen = Observed
    /\ pc = "head" => tips = Landed.tips /\ plan.seen.head = head
    /\ pc \in {"tree", "pointer"} => tips = Landed.tips /\ head = Landed.head
    /\ pc \in {"refs", "head", "tree"} => plan.from = disk
    /\ pc = "pointer" => disk = Landed.tree

IInv == WorldOK /\ LogOK(Log) /\ PlanOK /\ HalfWay

-----------------------------------------------------------------------------
(***************************************************************************)
(* The stack redo goes forward on.                                         *)
(***************************************************************************)

(* An undo line not yet consumed was written above all the scan has found. *)
Above(tip, s, e) ==
  ~s.over /\ e.line = "undo" /\ s.consumed = 0 =>
    e.old > tip /\ \A x \in ToSet(s.path) : e.old > x

(* The reflog, its newest line first.                                      *)
LineAt(L, k) == L.reflog[Len(L.reflog) + 1 - k]

Ahead(L) == \A k \in 1..Len(L.reflog) : Above(L.tip, Scanned(L)[k - 1], LineAt(L, k))

(* Each place on the way forward lies below the next.                      *)
StrictlyBelow(st, x, y) == x \in Below(st, y) /\ x # y

Climbs(st, tip, path) ==
  /\ path # << >> => StrictlyBelow(st, tip, path[1])
  /\ \A k \in 1..(Len(path) - 1) : StrictlyBelow(st, path[k], path[k + 1])

StackOK(L) == Ahead(L) /\ Climbs(L.store, L.tip, ForwardPath(L))

LEMMA SetTo ==
  ASSUME NEW L, LogOK(L), SetLog(L)
  PROVE  Log' = L /\ LogOK(Log')
<1>1. Log' = L
  BY DEF SetLog, Log, LogOK, IsLog
<1> QED
  BY <1>1

LEMMA SameLog ==
  ASSUME UNCHANGED log
  PROVE  Log' = Log
  BY DEF log, Log

LEMMA InitOK == ASSUME Init PROVE IInv
<1>1. WorldOK
  BY DEF Init, WorldOK, Root
<1>2. LogOK(Log)
  <2>1. store \in Seq(Written) /\ Len(store) = 0 /\ opsRef = 0 /\ snapRef \in [Branches -> Nat]
        /\ reflog \in Seq(Line) /\ Len(reflog) = 0 /\ \A b \in Branches : snapRef[b] = None
    BY DEF Init, None
  <2>2. Linked(store) /\ OnBranchIsNewest(store)
    BY <2>1 DEF Linked, OnBranchIsNewest
  <2>3. Below(store, 0) = {}
    BY <2>2, BelowFacts
  <2>4. \A b \in Branches : Newest(store, Below(store, 0), b, snapRef[b])
    BY <2>1, <2>3 DEF Newest
  <2>5. Moved(reflog, store)
    BY <2>1 DEF Moved
  <2> QED
    BY <2>1, <2>2, <2>4, <2>5 DEF LogOK, IsLog, Pointed, Log
<1>3. PlanOK /\ HalfWay
  BY DEF Init, PlanOK, HalfWay, Moving
<1> QED
  BY <1>1, <1>2, <1>3 DEF IInv

(* Git and the editor touch the world, and not while a verb runs that they *)
(* leave alone.                                                            *)
LEMMA OutsideOK ==
  ASSUME IInv, Outside, WorldOK'
  PROVE  IInv'
<1>1. Log' = Log
  BY SameLog DEF Outside
<1>2. PlanOK'
  <2>1. UNCHANGED <<pc, plan, story, opsRef>>
    BY DEF Outside, log
  <2> QED
    BY <1>1, <2>1 DEF IInv, PlanOK
<1>3. HalfWay'
  BY DEF Outside, HalfWay
<1> QED
  BY <1>1, <1>2, <1>3 DEF IInv

(* The log is written while no move is under way, or a step does nothing   *)
(* that the invariant tells apart.                                         *)
LEMMA QuietOK ==
  ASSUME IInv, WorldOK', LogOK(Log'), pc' \in {"idle", "hooks", "land"},
         pc' \in {"hooks", "land"} => plan'.branch \in Branches /\ plan'.target \in Nat
  PROVE  IInv'
  BY DEF IInv, PlanOK, HalfWay, Moving

LEMMA StartMoveOK ==
  ASSUME IInv, NEW how \in Landings, StartMove(how)
  PROVE  IInv'
<1> DEFINE L == Preamble
<1>1. LogOK(L) /\ L.tip # None /\ PreTree(L) = disk
  BY PreambleOK DEF IInv
<1>2. SetLog(L) /\ how \in story.landings /\ UNCHANGED <<world, fresh, story>>
  BY DEF StartMove
<1>3. Log' = L /\ LogOK(Log')
  BY <1>1, <1>2, SetTo
<1>4. WorldOK'
  BY <1>2 DEF IInv, WorldOK, world
<1>5. CASE pc' = "idle"
  BY <1>3, <1>4, <1>5, QuietOK
<1>6. ASSUME NEW target \in LandingsOf(L, how), pc' = "refs",
             plan' = [how |-> how, branch |-> head, tip |-> L.tip,
                      target |-> target, back |-> Back(L, target), fwd |-> Fwd(L, target),
                      from |-> PreTree(L), seen |-> Observed]
      PROVE  IInv'
  <2> HIDE DEF L
  <2>1. opsRef' = L.tip
    BY <1>2 DEF SetLog
  <2>2. PlanOK'
    BY <1>1, <1>2, <1>3, <1>6, <2>1 DEF PlanOK, Moving
  <2>3. Observed' = Observed
    BY <1>2 DEF Observed, world
  <2>4. HalfWay'
    BY <1>1, <1>2, <1>6, <2>3 DEF HalfWay, world
  <2> QED
    BY <1>3, <1>4, <2>2, <2>4 DEF IInv
<1> QED
  BY <1>5, <1>6 DEF StartMove

(* Where a move lands, and what was recorded there.                        *)
LEMMA LandedIs ==
  ASSUME IInv, pc \in Moving
  PROVE  /\ plan.target \in 1..Len(store) /\ Landed.tips \in [Branches -> Nat]
         /\ Landed.head \in Branches /\ Landed.tree \in Nat
<1>1. LogOK(Log) /\ Log.store = store
  BY DEF IInv, Log
<1>2. plan.target \in LandingsOf(Log, plan.how) /\ plan.how \in Landings
  BY DEF IInv, PlanOK
<1>3. plan.target \in 1..Len(Log.store)
  BY <1>1, <1>2, LandingsAre
<1> QED
  BY <1>1, <1>3, TableIs DEF Landed

(* A step of a move before the last leaves log and plan alone.             *)
LEMMA StepOK ==
  ASSUME IInv, pc \in Moving, pc' \in Moving \cup {"idle"}, UNCHANGED <<log, plan, story>>,
         WorldOK', HalfWay'
  PROVE  IInv'
<1>1. Log' = Log /\ opsRef' = opsRef
  BY SameLog DEF log
<1>2. PlanOK'
  <2>1. plan' = plan /\ story' = story
    OBVIOUS
  <2> QED
    BY <1>1, <2>1 DEF IInv, PlanOK, Moving
<1> QED
  BY <1>1, <1>2 DEF IInv

LEMMA MoveRefsOK ==
  ASSUME IInv, MoveRefs
  PROVE  IInv'
<1>1. /\ pc = "refs" /\ pc \in Moving /\ pc' = (IF Contended THEN "idle" ELSE "head")
      /\ UNCHANGED <<log, plan, story>> /\ UNCHANGED <<head, disk, fresh>>
  BY DEF MoveRefs, bounds, Moving
<1>2. Landed.tips \in [Branches -> Nat] /\ tips \in [Branches -> Nat]
  BY <1>1, LandedIs DEF IInv, WorldOK
<1>3. Landed' = Landed
  BY <1>1 DEF Landed, log
<1>4. tips' \in [Branches -> Nat]
  BY <1>2 DEF MoveRefs
<1>5. WorldOK'
  BY <1>1, <1>4 DEF IInv, WorldOK
<1>6. HalfWay'
  <2>1. CASE Contended \/ story.interfere
    BY <1>1, <2>1 DEF HalfWay
  <2>2. CASE ~Contended /\ ~story.interfere
    <3>1. plan.seen = Observed /\ plan.from = disk
      BY <1>1, <2>2 DEF IInv, HalfWay
    <3>2. tips' = [b \in Branches |-> IF b \in RefsToMove THEN Landed.tips[b] ELSE tips[b]]
      BY <2>2 DEF MoveRefs
    <3>3. \A b \in Branches : tips'[b] = Landed.tips[b]
      BY <3>1, <3>2 DEF RefsToMove, Observed
    <3>4. tips' = Landed.tips
      BY <1>2, <1>4, <3>3
    <3>5. pc' = "head" /\ plan'.seen.head = head' /\ plan'.from = disk'
      BY <1>1, <2>2, <3>1 DEF Observed
    <3> QED
      BY <1>3, <3>4, <3>5 DEF HalfWay
  <2> QED
    BY <2>1, <2>2
<1> QED
  BY <1>1, <1>5, <1>6, StepOK DEF Moving

LEMMA MoveHeadOK ==
  ASSUME IInv, MoveHead
  PROVE  IInv'
<1>1. /\ pc = "head" /\ pc \in Moving /\ pc' = "tree"
      /\ UNCHANGED <<log, plan, story>> /\ UNCHANGED <<tips, disk, fresh>>
      /\ head' = IF plan.seen.head # Landed.head THEN Landed.head ELSE head
  BY DEF MoveHead, bounds, Moving
<1>2. Landed.head \in Branches
  BY <1>1, LandedIs
<1>3. Landed' = Landed
  BY <1>1 DEF Landed, log
<1>4. WorldOK'
  BY <1>1, <1>2 DEF IInv, WorldOK
<1>5. HalfWay'
  <2>1. CASE story.interfere
    BY <1>1, <2>1 DEF HalfWay
  <2>2. CASE ~story.interfere
    <3>1. tips = Landed.tips /\ plan.seen.head = head /\ plan.from = disk
      BY <1>1, <2>2 DEF IInv, HalfWay
    <3> QED
      BY <1>1, <1>3, <3>1 DEF HalfWay
  <2> QED
    BY <2>1, <2>2
<1> QED
  BY <1>1, <1>4, <1>5, StepOK DEF Moving

LEMMA MoveTreeOK ==
  ASSUME IInv, MoveTree
  PROVE  IInv'
<1>1. /\ pc = "tree" /\ pc \in Moving /\ pc' = "pointer"
      /\ UNCHANGED <<log, plan, story>> /\ UNCHANGED <<tips, head, fresh>>
      /\ disk' = IF plan.from = Landed.tree THEN disk ELSE Landed.tree
  BY DEF MoveTree, bounds, Moving
<1>2. Landed.tree \in Nat
  BY <1>1, LandedIs
<1>3. Landed' = Landed
  BY <1>1 DEF Landed, log
<1>4. WorldOK'
  BY <1>1, <1>2 DEF IInv, WorldOK
<1>5. HalfWay'
  <2>1. CASE story.interfere
    BY <1>1, <2>1 DEF HalfWay
  <2>2. CASE ~story.interfere
    <3>1. tips = Landed.tips /\ head = Landed.head /\ plan.from = disk
      BY <1>1, <2>2 DEF IInv, HalfWay
    <3> QED
      BY <1>1, <1>3, <3>1 DEF HalfWay
  <2> QED
    BY <2>1, <2>2
<1> QED
  BY <1>1, <1>4, <1>5, StepOK DEF Moving

LEMMA MovePointerOK ==
  ASSUME IInv, MovePointer
  PROVE  IInv'
<1> DEFINE target == plan.target
           word == IF plan.back = << >> THEN "redo" ELSE "undo"
           line == [old |-> plan.tip, new |-> target, line |-> word]
<1>1. /\ pc = "pointer" /\ pc \in Moving /\ pc' = "idle"
      /\ opsRef' = target /\ store' = store
      /\ snapRef' = PointersAfter(Log, plan.back, plan.fwd)
      /\ reflog' = IF target = plan.tip THEN reflog ELSE Append(reflog, line)
      /\ UNCHANGED <<world, fresh>>
  BY DEF MovePointer, Moving
<1>2. /\ plan.back = Back(Log, target) /\ plan.fwd = Fwd(Log, target)
      /\ plan.tip = opsRef /\ opsRef # None
  BY <1>1 DEF IInv, PlanOK
<1>3. target \in 1..Len(store)
  BY <1>1, LandedIs
<1>4. /\ LogOK(Log) /\ Log.store = store /\ Log.tip = opsRef /\ Log.snap = snapRef /\ Log.reflog = reflog
      /\ Log' = [store |-> store', tip |-> opsRef', snap |-> snapRef', reflog |-> reflog']
  BY DEF IInv, Log
<1>5. /\ Linked(store) /\ OnBranchIsNewest(store) /\ Len(store) \in Nat
      /\ opsRef \in 1..Len(store)
      /\ \A b \in Branches : Newest(store, Below(store, opsRef), b, snapRef[b])
      /\ reflog \in Seq(Line)
      /\ \A k \in 1..Len(reflog) : reflog[k].line # "work" => reflog[k].old \in 1..Len(store)
  BY <1>2, <1>4 DEF LogOK, Pointed, Moved, Linked, None
<1> HIDE DEF target, line
<1>6. Pointed(store, target, snapRef')
  <2>1. ASSUME NEW b \in Branches
        PROVE  Newest(store, Below(store, target), b, snapRef'[b])
    <3>1. /\ Linked(Log.store) /\ OnBranchIsNewest(Log.store)
          /\ Log.tip \in 0..Len(Log.store) /\ target \in 0..Len(Log.store)
          /\ Newest(Log.store, Below(Log.store, Log.tip), b, Log.snap[b])
      BY <1>3, <1>4, <1>5
    <3>2. Newest(Log.store, Below(Log.store, target), b,
                 PointersAfter(Log, Back(Log, target), Fwd(Log, target))[b])
      BY ONLY <3>1, b \in Branches, PointersAre
    <3> QED
      BY <1>1, <1>2, <1>4, <3>2
  <2>2. Below(store, target) \subseteq 1..target
    BY <1>3, <1>5, BelowFacts
  <2>3. \A b \in Branches : snapRef'[b] \in Nat
    BY <2>1, <2>2 DEF Newest, None
  <2>4. snapRef' \in [Branches -> Nat]
    <3>1. snapRef' = [b \in Branches |-> snapRef'[b]]
      BY <1>1 DEF PointersAfter
    <3> QED
      BY <2>3, <3>1
  <2> QED
    BY <2>1, <2>4 DEF Pointed
<1>7. Moved(reflog', store)
  <2>1. line \in Line /\ line.old \in 1..Len(store)
    BY <1>2, <1>3, <1>5 DEF line, Line
  <2>2. CASE target = plan.tip
    BY <1>1, <1>5, <2>2 DEF Moved
  <2>3. CASE target # plan.tip
    <3> DEFINE lines == Append(reflog, line)
               n == Len(reflog)
    <3>1. lines \in Seq(Line) /\ n \in Nat /\ Len(lines) = n + 1 /\ lines[n + 1] = line
          /\ \A k \in 1..n : lines[k] = reflog[k]
      BY <1>5, <2>1
    <3> HIDE DEF lines
    <3>2. ASSUME NEW k \in 1..Len(lines), lines[k].line # "work" PROVE lines[k].old \in 1..Len(store)
      <4>1. CASE k = n + 1
        BY <2>1, <3>1, <4>1
      <4>2. CASE k # n + 1
        <5>1. k \in 1..n
          BY <3>1, <4>2
        <5> QED
          BY <1>5, <3>1, <3>2, <5>1
      <4> QED
        BY <4>1, <4>2
    <3>3. Moved(lines, store)
      BY <3>1, <3>2 DEF Moved
    <3> QED
      BY <1>1, <2>3, <3>3 DEF lines
  <2> QED
    BY <2>2, <2>3
<1>8. LogOK(Log')
  <2>1. /\ Log'.store = store /\ Log'.tip = target /\ Log'.snap = snapRef' /\ Log'.reflog = reflog'
        /\ IsLog(Log')
    BY <1>1, <1>4 DEF IsLog
  <2>2. target \in 0..Len(store)
    BY <1>3, <1>5
  <2> QED
    BY <1>5, <1>6, <1>7, <2>1, <2>2 DEF LogOK
<1>9. WorldOK'
  BY <1>1 DEF IInv, WorldOK, world
<1> QED
  BY <1>1, <1>8, <1>9, QuietOK

LEMMA OutsideSteps ==
  ASSUME IInv, Edit \/ GitCommit \/ (\E b \in Branches : GitSwitch(b))
               \/ \E b \in Branches, commit \in {Root} \cup {tips[c] : c \in Branches} : GitMove(b, commit)
  PROVE  IInv'
<1>1. tips \in [Branches -> Nat] /\ head \in Branches /\ disk \in Nat /\ fresh \in Nat
  BY DEF IInv, WorldOK
<1>2. CASE Edit
  BY <1>1, <1>2, OutsideOK DEF Edit, WorldOK
<1>3. CASE GitCommit
  BY <1>1, <1>3, OutsideOK DEF GitCommit, WorldOK
<1>4. ASSUME NEW b \in Branches, GitSwitch(b) PROVE IInv'
  BY <1>1, <1>4, OutsideOK DEF GitSwitch, WorldOK
<1>5. ASSUME NEW b \in Branches, NEW commit \in {Root} \cup {tips[c] : c \in Branches}, GitMove(b, commit)
      PROVE  IInv'
  <2>1. commit \in Nat
    BY <1>1 DEF Root
  <2> QED
    BY <1>1, <1>5, <2>1, OutsideOK DEF GitMove, WorldOK
<1> QED
  BY <1>2, <1>3, <1>4, <1>5

LEMMA HookCaptureOK ==
  ASSUME IInv, NEW session \in Sessions, HookCapture(session)
  PROVE  IInv'
<1> DEFINE L == Capture(Log, session)
<1>1. LogOK(L)
  BY CaptureOK DEF IInv
<1>2. SetLog(L) /\ pc' = "idle" /\ UNCHANGED <<world, fresh>>
  BY DEF HookCapture
<1>3. LogOK(Log')
  BY <1>1, <1>2, SetTo
<1>4. WorldOK'
  BY <1>2 DEF IInv, WorldOK, world
<1> QED
  BY <1>2, <1>3, <1>4, QuietOK

LEMMA StartCommitOK ==
  ASSUME IInv, StartCommit
  PROVE  IInv'
<1>1. LogOK(Preamble)
  BY PreambleOK DEF IInv
<1>2. SetLog(Preamble) /\ UNCHANGED <<world, fresh>>
  BY DEF StartCommit
<1>3. LogOK(Log')
  BY <1>1, <1>2, SetTo
<1>4. WorldOK'
  BY <1>2 DEF IInv, WorldOK, world
<1>5. \/ pc' = "idle"
      \/ /\ pc' = "hooks"
         /\ plan' = [NoPlan EXCEPT !.how = "commit", !.tip = tips[head], !.target = disk]
  BY DEF StartCommit
<1>6. pc' = "hooks" => plan'.branch \in Branches /\ plan'.target \in Nat
  BY <1>5 DEF NoPlan, IInv, WorldOK
<1> QED
  BY <1>3, <1>4, <1>5, <1>6, QuietOK

(* What a commit records is an operation.                                  *)
LEMMA RecordIs ==
  ASSUME IInv, pc = "hooks",
         NEW planned, planned = [tips |-> [tips EXCEPT ![plan.branch] = plan.target], head |-> head]
  PROVE  [Draft("op", "none", planned, plan.target, plan.target) EXCEPT !.branch = plan.branch] \in Written
<1> DEFINE d == Draft("op", "none", planned, plan.target, plan.target)
<1>1. plan.branch \in Branches /\ plan.target \in Nat /\ WorldOK
  BY DEF IInv, PlanOK
<1>2. planned.tips \in [Branches -> Nat] /\ planned.head \in Branches
  BY <1>1 DEF WorldOK
<1>3. d \in Written
  BY <1>1, <1>2, DraftIs DEF Kinds
<1> HIDE DEF d
<1> DEFINE b == plan.branch
<1>4. b \in Branches
  BY <1>1
<1> HIDE DEF b
<1>5. [d EXCEPT !.branch = b] \in Written
  BY <1>3, <1>4 DEF Written
<1> QED
  BY <1>5 DEF d, b

LEMMA RecordCommitOK ==
  ASSUME IInv, RecordCommit
  PROVE  IInv'
<1> DEFINE planned == [tips |-> [tips EXCEPT ![plan.branch] = plan.target], head |-> head]
           op == [Draft("op", "none", planned, plan.target, plan.target) EXCEPT !.branch = plan.branch]
<1>1. pc = "hooks" /\ SetLog(Push(Log, op)) /\ pc' = "land" /\ UNCHANGED <<world, fresh, plan>>
  BY DEF RecordCommit
<1>2. op \in Written
  BY <1>1, RecordIs
<1> HIDE DEF op
<1>3. LogOK(Push(Log, op))
  BY <1>2, PushOK DEF IInv
<1>4. LogOK(Log')
  BY <1>1, <1>3, SetTo
<1>5. WorldOK'
  BY <1>1 DEF IInv, WorldOK, world
<1>6. plan'.branch \in Branches /\ plan'.target \in Nat
  BY <1>1 DEF IInv, PlanOK
<1> QED
  BY <1>1, <1>4, <1>5, <1>6, QuietOK

LEMMA LandCommitOK ==
  ASSUME IInv, LandCommit
  PROVE  IInv'
<1>1. pc = "land" /\ pc' = "idle" /\ UNCHANGED <<head, disk, fresh>> /\ UNCHANGED log
      /\ (tips' = tips \/ tips' = [tips EXCEPT ![plan.branch] = plan.target])
  BY DEF LandCommit
<1>2. plan.branch \in Branches /\ plan.target \in Nat
  BY <1>1 DEF IInv, PlanOK
<1>3. WorldOK'
  BY <1>1, <1>2 DEF IInv, WorldOK
<1>4. LogOK(Log')
  BY <1>1, SameLog DEF IInv
<1> QED
  BY <1>1, <1>3, <1>4, QuietOK

LEMMA CrashOK ==
  ASSUME IInv, Crash
  PROVE  IInv'
<1>1. pc' = "idle" /\ UNCHANGED <<world, fresh>> /\ UNCHANGED log
  BY DEF Crash
<1>2. WorldOK'
  BY <1>1 DEF IInv, WorldOK, world
<1>3. LogOK(Log')
  BY <1>1, SameLog DEF IInv
<1> QED
  BY <1>1, <1>2, <1>3, QuietOK

LEMMA StutterOK ==
  ASSUME IInv, UNCHANGED vars
  PROVE  IInv'
<1>1. Log' = Log /\ UNCHANGED <<tips, head, disk, fresh, pc, plan, story, store, opsRef>>
  BY DEF vars, Log
<1>2. WorldOK' /\ LogOK(Log')
  BY <1>1 DEF IInv, WorldOK
<1>3. PlanOK'
  BY <1>1 DEF IInv, PlanOK
<1>4. HalfWay'
  BY <1>1 DEF IInv, HalfWay, Landed, Observed
<1> QED
  BY <1>2, <1>3, <1>4 DEF IInv

LEMMA NextOK ==
  ASSUME IInv, [Next]_vars
  PROVE  IInv'
  BY OutsideSteps, HookCaptureOK, StartCommitOK, RecordCommitOK, LandCommitOK, StartMoveOK,
     MoveRefsOK, MoveHeadOK, MoveTreeOK, MovePointerOK, CrashOK, StutterOK DEF Next

(* A history is always one the verbs can go on from: the log is a log, its *)
(* pointers name the newest operations, a plan still says what it said.    *)
THEOREM RewindInvariant == Spec => []IInv
<1>1. Init => IInv
  BY InitOK
<1>2. IInv /\ [Next]_vars => IInv'
  BY NextOK
<1> QED
  BY <1>1, <1>2, PTL DEF Spec

(* However the log was moved, and wherever a crash cut the move short, the *)
(* pointer of a branch names its newest operation on the chain.            *)
THEOREM PointersFollow == Spec => []PointerFollowsLog
<1>1. IInv => PointerFollowsLog
  <2> SUFFICES ASSUME IInv, NEW b \in Branches
               PROVE  LET ops == Chain(opsRef)
                          onIt == On(store, ops, b)
                      IN snapRef[b] = IF onIt = {} THEN None ELSE ops[Min(onIt)]
    BY DEF PointerFollowsLog
  <2> DEFINE ops == Chain(opsRef)
             onIt == On(store, ops, b)
             x == IF onIt = {} THEN None ELSE ops[Min(onIt)]
             S == Below(store, opsRef)
  <2>1. LogOK(Log) /\ Log.store = store /\ Log.tip = opsRef /\ Log.snap = snapRef
    BY DEF IInv, Log
  <2>2. Linked(store) /\ opsRef \in 0..Len(store) /\ Newest(store, S, b, snapRef[b])
    BY <2>1 DEF LogOK, Pointed
  <2>3. Newest(store, S, b, x)
    BY <2>2, FirstOn DEF Chain
  <2>4. S \in SUBSET Nat
    <3>1. S \subseteq 1..opsRef /\ 1..opsRef \subseteq Nat
      BY <2>2, BelowFacts DEF Linked
    <3> QED
      BY <3>1
  <2> HIDE DEF x, S
  <2>5. snapRef[b] = x
    BY <2>2, <2>3, <2>4, OneNewest
  <2> QED
    BY <2>5 DEF x
<1> QED
  BY <1>1, RewindInvariant, PTL

(* When nothing interferes, a move has put back all of the state that the  *)
(* operation it lands on recorded, before the log says it is there.        *)
THEOREM LandingIsWhole == Spec => []LandsWhole
<1>1. IInv => LandsWhole
  BY DEF IInv, HalfWay, LandsWhole, Observed
<1> QED
  BY <1>1, RewindInvariant, PTL

-----------------------------------------------------------------------------
(***************************************************************************)
(* Undo pushes and redo pops.                                              *)
(***************************************************************************)

(* What reading the reflog finds, one line after the other.                *)
LEMMA Reading ==
  ASSUME NEW L, LogOK(L)
  PROVE  /\ Len(L.reflog) \in Nat /\ L.reflog \in Seq(Line)
         /\ Scanned(L)[0] = Start
         /\ \A k \in 1..Len(L.reflog) :
              /\ Scanned(L)[k] = ReadLine(L.tip, Scanned(L)[k - 1], LineAt(L, k))
              /\ Scanned(L)[k - 1] \in States(Len(L.store))
              /\ LineAt(L, k) \in Line
              /\ LineAt(L, k).line # "work" => LineAt(L, k).old \in 1..Len(L.store)
<1> DEFINE n == Len(L.reflog)
<1>1. n \in Nat /\ \A k \in 0..n : Scanned(L)[k] \in States(Len(L.store))
  BY ScanTyped
<1>2. L.reflog \in Seq(Line)
      /\ \A k \in 1..n : L.reflog[k].line # "work" => L.reflog[k].old \in 1..Len(L.store)
  BY DEF LogOK, Moved
<1>3. Scanned(L)[0] = Start
      /\ \A k \in 1..n : Scanned(L)[k] = ReadLine(L.tip, Scanned(L)[k - 1], L.reflog[n + 1 - k])
  BY <1>1, ScanIs
<1>4. \A k \in 1..n : L.reflog[k] \in Line
  BY <1>2, ElementOfSeq
<1> HIDE DEF n
<1>5. \A k \in 1..n : k - 1 \in 0..n /\ n + 1 - k \in 1..n
  BY <1>1
<1> QED
  BY <1>1, <1>2, <1>3, <1>4, <1>5 DEF n, LineAt

(* New work leaves nothing ahead.                                          *)
LEMMA WorkClears ==
  ASSUME NEW L, LogOK(L), Len(L.reflog) # 0, L.reflog[Len(L.reflog)].line = "work"
  PROVE  ForwardPath(L) = << >> /\ StackOK(L)
<1> DEFINE n == Len(L.reflog)
           m == Len(L.store)
           f == Scanned(L)
           at(k) == LineAt(L, k)
           T == {k \in 0..n : k # 0 => f[k].over /\ f[k].path = << >>}
<1>1. /\ n \in Nat /\ f[0] = Start
      /\ \A k \in 1..n : /\ f[k] = ReadLine(L.tip, f[k - 1], at(k)) /\ f[k - 1] \in States(m)
                         /\ at(k) \in Line /\ (at(k).line # "work" => at(k).old \in 1..m)
  BY Reading
<1>2. m \in Nat
  BY DEF LogOK, Linked
<1>3. n # 0 /\ at(1).line = "work"
  <2>1. n + 1 - 1 = n
    BY <1>1
  <2> QED
    BY <2>1 DEF LineAt
<1> HIDE DEF n, m, f, at
<1>4. 0 \in T
  BY <1>1
<1>5. ASSUME NEW k \in 0..(n - 1), k \in T PROVE k + 1 \in T
  <2>1. k + 1 \in 1..n /\ (k + 1) - 1 = k /\ k + 1 \in 0..n
    BY <1>1
  <2> DEFINE s == f[k]
             e == at(k + 1)
  <2>2. f[k + 1] = ReadLine(L.tip, s, e) /\ s \in States(m)
        /\ e \in Line /\ (e.line # "work" => e.old \in 1..m)
    BY <1>1, <2>1
  <2>3. CASE k = 0
    <3>1. s = Start /\ e.line = "work"
      BY <1>1, <1>3, <2>3
    <3> HIDE DEF s, e
    <3>2. f[k + 1] = [s EXCEPT !.over = TRUE]
      <4>1. Reads(m, L.tip, s, e)
        BY <1>2, <2>2, LineRead
      <4> QED
        BY <2>2, <3>1, <4>1 DEF Reads
    <3>3. f[k + 1].over /\ f[k + 1].path = << >>
      BY <3>1, <3>2 DEF Start
    <3> QED
      BY <2>1, <3>3
  <2>4. CASE k # 0
    <3>1. s.over /\ s.path = << >>
      BY <1>5, <2>4
    <3> HIDE DEF s, e
    <3>2. f[k + 1] = s
      <4>1. Reads(m, L.tip, s, e)
        BY <1>2, <2>2, LineRead
      <4> QED
        BY <2>2, <3>1, <4>1 DEF Reads
    <3> QED
      BY <2>1, <3>1, <3>2
  <2> QED
    BY <2>3, <2>4
<1>6. 0..n \subseteq T
  <2> HIDE DEF T
  <2> QED
    BY <1>1, <1>4, <1>5, UpTo
<1>7. \A k \in 1..n : f[k].over /\ f[k].path = << >>
  BY <1>6
<1>8. ForwardPath(L) = << >>
  <2>1. n \in 1..n
    BY <1>1, <1>3
  <2> QED
    BY <1>7, <2>1 DEF ForwardPath, f, n
<1>9. Ahead(L)
  <2>1. ASSUME NEW k \in 1..n PROVE Above(L.tip, f[k - 1], at(k))
    <3>1. CASE k = 1
      BY <1>3, <3>1 DEF Above
    <3>2. CASE k # 1
      <4>1. k - 1 \in 1..n
        BY <1>1, <3>2
      <4> QED
        BY <1>7, <4>1 DEF Above
    <3> QED
      BY <3>1, <3>2
  <2> QED
    BY <2>1 DEF Ahead, f, n, at
<1>10. Climbs(L.store, L.tip, << >>)
  BY DEF Climbs
<1> QED
  BY <1>8, <1>9, <1>10 DEF StackOK

(* Two scans of which one has one place more, t, at the head of its path.  *)
Shifted(t, small, big) ==
  /\ big.over = small.over /\ big.consumed = small.consumed
  /\ big.path = <<t>> \o small.path

LEMMA AppendCons ==
  ASSUME NEW S, NEW s \in Seq(S), NEW t \in S, NEW x \in S
  PROVE  Append(<<t>> \o s, x) = <<t>> \o Append(s, x)
  OBVIOUS

LEMMA ShiftStep ==
  ASSUME NEW n \in Nat, NEW u \in Nat, NEW t \in 1..n, u < t,
         NEW small \in States(n), NEW big \in States(n), Shifted(t, small, big),
         NEW e \in Line, e.line # "work" => e.old \in 1..n,
         Above(t, small, e) \/ Above(u, big, e)
  PROVE  /\ Above(t, small, e) /\ Above(u, big, e)
         /\ Shifted(t, ReadLine(t, small, e), ReadLine(u, big, e))
<1>1. /\ small.path \in Seq(1..n) /\ big.path = <<t>> \o small.path /\ small.consumed \in Nat
      /\ small.over \in BOOLEAN
      /\ big.over = small.over /\ big.consumed = small.consumed
      /\ e.line \in {"work", "undo", "redo"}
  BY DEF States, Shifted, Line
<1>2. ToSet(big.path) = {t} \cup ToSet(small.path)
  BY <1>1, ConsFacts
<1>3. ToSet(small.path) \subseteq 1..n
  BY <1>1, ToSetIs
<1>4. Above(t, small, e) /\ Above(u, big, e)
  <2>1. CASE ~small.over /\ e.line = "undo" /\ small.consumed = 0
    <3>1. e.old \in Nat /\ t \in Nat /\ e.old > t => e.old > u
      BY <2>1
    <3>2. Above(t, small, e) <=> e.old > t /\ \A x \in ToSet(small.path) : e.old > x
      BY <2>1 DEF Above
    <3>3. Above(u, big, e) <=> e.old > u /\ \A x \in ToSet(big.path) : e.old > x
      BY <1>1, <2>1 DEF Above
    <3> QED
      BY <1>2, <2>1, <3>1, <3>2, <3>3
  <2>2. CASE ~(~small.over /\ e.line = "undo" /\ small.consumed = 0)
    BY <1>1, <2>2 DEF Above
  <2> QED
    BY <2>1, <2>2
<1>5. Reads(n, t, small, e) /\ Reads(n, u, big, e)
  BY LineRead
<1>6. CASE small.over
  <2>1. ReadLine(t, small, e) = small /\ ReadLine(u, big, e) = big
    BY <1>1, <1>6, <1>5 DEF Reads
  <2> QED
    BY <1>4, <2>1
<1>7. CASE e.line = "work"
  <2>1. /\ ReadLine(t, small, e) = [small EXCEPT !.over = TRUE]
        /\ ReadLine(u, big, e) = [big EXCEPT !.over = TRUE]
    BY <1>7, <1>5 DEF Reads
  <2> QED
    BY <1>1, <1>4, <2>1 DEF Shifted, States
<1>8. CASE ~small.over /\ e.line = "redo"
  <2>1. /\ ReadLine(t, small, e) = [small EXCEPT !.consumed = @ + 1]
        /\ ReadLine(u, big, e) = [big EXCEPT !.consumed = @ + 1]
    BY <1>1, <1>8, <1>5 DEF Reads
  <2> QED
    BY <1>1, <1>4, <2>1 DEF Shifted, States
<1>9. CASE ~small.over /\ e.line = "undo" /\ small.consumed > 0
  <2>1. /\ ReadLine(t, small, e) = [small EXCEPT !.consumed = @ - 1]
        /\ ReadLine(u, big, e) = [big EXCEPT !.consumed = @ - 1]
    BY <1>1, <1>9, <1>5 DEF Reads
  <2> QED
    BY <1>1, <1>4, <2>1 DEF Shifted, States
<1>10. CASE ~small.over /\ e.line = "undo" /\ small.consumed = 0
  <2>0. e.old \in 1..n
    BY <1>10
  <2>1. e.old > t /\ \A x \in ToSet(small.path) : e.old > x
    BY <1>4, <1>10 DEF Above
  <2>2. e.old # t /\ e.old # u /\ e.old \notin ToSet(small.path)
    BY <1>3, <2>0, <2>1
  <2>3. e.old \notin ToSet(big.path)
    BY <1>2, <2>2
  <2>4. ReadLine(t, small, e) = [small EXCEPT !.path = Append(small.path, e.old)]
    BY <1>10, <2>2, <1>5 DEF Reads
  <2>5. ReadLine(u, big, e) = [big EXCEPT !.path = Append(big.path, e.old)]
    BY <1>1, <1>10, <2>2, <2>3, <1>5 DEF Reads
  <2>6. Append(big.path, e.old) = <<t>> \o Append(small.path, e.old)
    BY <1>1, <2>0, AppendCons
  <2> QED
    BY <1>1, <1>4, <2>4, <2>5, <2>6 DEF Shifted, States
<1> QED
  BY <1>1, <1>6, <1>7, <1>8, <1>9, <1>10

LEMMA ClimbsCons ==
  ASSUME NEW st, NEW u, NEW S, NEW t \in S, NEW q \in Seq(S)
  PROVE  Climbs(st, u, <<t>> \o q) <=> StrictlyBelow(st, u, t) /\ Climbs(st, t, q)
<1> DEFINE p == <<t>> \o q
           n == Len(q)
<1>1. p \in Seq(S) /\ n \in Nat /\ Len(p) = n + 1 /\ p[1] = t /\ \A k \in 1..n : p[k + 1] = q[k]
  BY ConsFacts
<1>2. p # << >> /\ (q # << >> <=> n # 0)
  BY <1>1
<1> HIDE DEF p
<1>3. ASSUME Climbs(st, u, p) PROVE StrictlyBelow(st, u, t) /\ Climbs(st, t, q)
  <2>1. StrictlyBelow(st, u, t) /\ \A k \in 1..n : StrictlyBelow(st, p[k], p[k + 1])
    BY <1>1, <1>2, <1>3 DEF Climbs
  <2>2. q # << >> => StrictlyBelow(st, t, q[1])
    <3>1. ASSUME q # << >> PROVE 1 \in 1..n
      BY <1>1, <1>2, <3>1
    <3> QED
      BY <1>1, <2>1, <3>1
  <2>3. ASSUME NEW k \in 1..(n - 1) PROVE StrictlyBelow(st, q[k], q[k + 1])
    <3>1. k + 1 \in 1..n /\ k \in 1..n
      BY <1>1
    <3>2. StrictlyBelow(st, p[k + 1], p[(k + 1) + 1])
      BY <2>1, <3>1
    <3>3. p[k + 1] = q[k] /\ p[(k + 1) + 1] = q[k + 1]
      BY <1>1, <3>1
    <3> QED
      BY <3>2, <3>3
  <2> QED
    BY <2>1, <2>2, <2>3 DEF Climbs
<1>4. ASSUME StrictlyBelow(st, u, t), Climbs(st, t, q) PROVE Climbs(st, u, p)
  <2>1. ASSUME NEW k \in 1..(Len(p) - 1) PROVE StrictlyBelow(st, p[k], p[k + 1])
    <3>1. k \in 1..n /\ p[k + 1] = q[k]
      BY <1>1
    <3>2. CASE k = 1
      BY <1>1, <1>2, <1>4, <3>1, <3>2 DEF Climbs
    <3>3. CASE k # 1
      <4>1. k - 1 \in 1..(n - 1) /\ k - 1 \in 1..n /\ (k - 1) + 1 = k
        BY <1>1, <3>1, <3>3
      <4>2. p[k] = q[k - 1]
        BY <1>1, <4>1
      <4>3. StrictlyBelow(st, q[k - 1], q[(k - 1) + 1])
        BY <1>4, <4>1 DEF Climbs
      <4> QED
        BY <3>1, <4>1, <4>2, <4>3
    <3> QED
      BY <3>2, <3>3
  <2> QED
    BY <1>1, <1>4, <2>1 DEF Climbs
<1> QED
  BY <1>3, <1>4 DEF p

(* M is L moved to another operation, with one line in the reflog.         *)
MovedTo(L, M, target, word) ==
  /\ M.store = L.store /\ M.tip = target
  /\ M.reflog = Append(L.reflog, [old |-> L.tip, new |-> target, line |-> word])

(* Reading M's lines after its newest is reading L's.                      *)
LEMMA OneMoreLine ==
  ASSUME NEW L, LogOK(L), NEW M, NEW target, NEW word, MovedTo(L, M, target, word)
  PROVE  /\ Len(L.reflog) \in Nat /\ Len(M.reflog) = Len(L.reflog) + 1
         /\ LineAt(M, 1) = [old |-> L.tip, new |-> target, line |-> word]
         /\ \A k \in 1..Len(L.reflog) :
              LineAt(M, k + 1) = LineAt(L, k) /\ k + 1 \in 1..(Len(L.reflog) + 1) /\ (k + 1) - 1 = k
<1> DEFINE n == Len(L.reflog)
           line == [old |-> L.tip, new |-> target, line |-> word]
<1>1. n \in Nat /\ L.reflog \in Seq(Line)
  BY DEF LogOK, Moved
<1>2. M.reflog = Append(L.reflog, line)
  BY DEF MovedTo
<1>3. Len(M.reflog) = n + 1 /\ M.reflog[n + 1] = line /\ \A k \in 1..n : M.reflog[k] = L.reflog[k]
  <2> HIDE DEF line
  <2> QED
    BY <1>1, <1>2
<1> HIDE DEF n, line
<1>4. (n + 1) + 1 - 1 = n + 1
      /\ \A k \in 1..n : /\ (n + 1) + 1 - (k + 1) = n + 1 - k /\ n + 1 - k \in 1..n
                         /\ k + 1 \in 1..(n + 1) /\ (k + 1) - 1 = k
  BY <1>1
<1>5. LineAt(M, 1) = line
  BY <1>3, <1>4 DEF LineAt
<1>6. \A k \in 1..n : LineAt(M, k + 1) = LineAt(L, k)
  <2> TAKE k \in 1..n
  <2>1. LineAt(M, k + 1) = M.reflog[(n + 1) + 1 - (k + 1)]
    BY <1>3 DEF LineAt
  <2>2. LineAt(L, k) = L.reflog[n + 1 - k]
    BY DEF LineAt, n
  <2> QED
    BY <1>3, <1>4, <2>1, <2>2
<1> QED
  BY <1>1, <1>3, <1>4, <1>5, <1>6 DEF n, line

(* An undo puts what it leaves first on the way forward.                   *)
LEMMA UndoPushes ==
  ASSUME NEW L, LogOK(L), StackOK(L), NEW M, LogOK(M), NEW target \in Below(L.store, L.tip),
         target < L.tip, MovedTo(L, M, target, "undo")
  PROVE  ForwardPath(M) = <<L.tip>> \o ForwardPath(L) /\ StackOK(M)
<1> DEFINE n == Len(L.reflog)
           m == Len(L.store)
           f == Scanned(L)
           g == Scanned(M)
           at(k) == LineAt(L, k)
           bt(k) == LineAt(M, k)
           t == L.tip
           T == {k \in 0..n : Shifted(t, f[k], g[k + 1])}
<1>1. /\ n \in Nat /\ f[0] = Start
      /\ \A k \in 1..n : /\ f[k] = ReadLine(t, f[k - 1], at(k)) /\ f[k - 1] \in States(m)
                         /\ at(k) \in Line /\ (at(k).line # "work" => at(k).old \in 1..m)
  BY Reading
<1>2. M.tip = target /\ M.store = L.store /\ m \in Nat /\ target \in Nat /\ t \in 1..m /\ t \in Nat
  <2>1. Linked(L.store) /\ L.tip \in 0..Len(L.store)
    BY DEF LogOK
  <2>2. Below(L.store, L.tip) \subseteq 1..L.tip
    BY <2>1, BelowFacts
  <2> QED
    BY <2>1, <2>2 DEF MovedTo, Linked
<1>3. /\ n \in Nat /\ Len(M.reflog) = n + 1
      /\ bt(1) = [old |-> L.tip, new |-> target, line |-> "undo"]
      /\ \A k \in 1..n : bt(k + 1) = at(k) /\ k + 1 \in 1..(n + 1) /\ (k + 1) - 1 = k
  BY OneMoreLine
<1>4. /\ g[0] = Start
      /\ \A k \in 1..(n + 1) : /\ g[k] = ReadLine(target, g[k - 1], bt(k)) /\ g[k - 1] \in States(m)
                               /\ bt(k) \in Line /\ (bt(k).line # "work" => bt(k).old \in 1..m)
  BY <1>2, <1>3, Reading
<1>5. \A k \in 1..n : Above(t, f[k - 1], at(k))
  BY DEF StackOK, Ahead
<1>6. f[n].path = ForwardPath(L) /\ g[n + 1].path = ForwardPath(M)
  BY <1>3 DEF ForwardPath
<1>7. Climbs(L.store, t, ForwardPath(L)) /\ ForwardPath(L) \in Seq(1..m)
  BY ScanTyped DEF StackOK
<1>8. StrictlyBelow(L.store, target, t)
  BY <1>2 DEF StrictlyBelow
<1>9. Ahead(M) <=> \A k \in 1..(n + 1) : Above(target, g[k - 1], bt(k))
  BY <1>2, <1>3 DEF Ahead
<1> HIDE DEF n, m, f, g, at, bt, t
<1>10. 1 \in 1..(n + 1) /\ 1 - 1 = 0 /\ g[1] = ReadLine(target, Start, bt(1))
       /\ bt(1) \in Line /\ bt(1).line = "undo" /\ bt(1).old = t /\ bt(1).old \in 1..m
  <2>1. 1 \in 1..(n + 1) /\ 1 - 1 = 0
    BY <1>1
  <2>2. bt(1).line = "undo" /\ bt(1).old = t
    BY <1>3 DEF t
  <2>3. "undo" # "work"
    OBVIOUS
  <2> QED
    BY <1>4, <2>1, <2>2, <2>3
<1>11. 0 \in T
  <2> DEFINE e == bt(1)
  <2>1. Start \in States(m) /\ ~Start.over /\ Start.consumed = 0 /\ Start.path = << >> /\ ToSet(<< >>) = {}
    BY <1>2, ToSetIs DEF Start, States
  <2>2. e \in Line /\ e.line = "undo" /\ e.old = t /\ e.old \in 1..m
    BY <1>10
  <2> HIDE DEF e
  <2>3. Reads(m, target, Start, e)
    BY <1>2, <2>1, <2>2, LineRead
  <2>4. ReadLine(target, Start, e) = [Start EXCEPT !.path = Append(Start.path, e.old)]
    <3>1. e.old \notin ToSet(Start.path) /\ e.old # target
      BY <1>2, <2>1, <2>2 DEF t
    <3> QED
      BY <2>1, <2>2, <2>3, <3>1 DEF Reads
  <2>5. Append(<< >>, t) = <<t>> \o << >>
    OBVIOUS
  <2>6. ReadLine(target, Start, e) = [path |-> Append(<< >>, t), consumed |-> 0, over |-> FALSE]
    BY <2>2, <2>4 DEF Start
  <2>7. Shifted(t, Start, [path |-> Append(<< >>, t), consumed |-> 0, over |-> FALSE])
    BY <2>5 DEF Shifted, Start
  <2>8. Shifted(t, f[0], g[1])
    BY <1>1, <1>10, <2>6, <2>7 DEF e
  <2>9. 0 \in 0..n /\ 0 + 1 = 1
    BY <1>1
  <2> QED
    BY <2>8, <2>9
<1>12. ASSUME NEW k \in 1..n, Shifted(t, f[k - 1], g[k])
       PROVE  Above(target, g[k], at(k)) /\ Shifted(t, f[k], g[k + 1])
  <2>1. bt(k + 1) = at(k) /\ k + 1 \in 1..(n + 1) /\ (k + 1) - 1 = k
    BY <1>3
  <2>2. g[k + 1] = ReadLine(target, g[k], at(k)) /\ g[k] \in States(m)
    BY <1>4, <2>1
  <2> DEFINE e == at(k)
             s == f[k - 1]
             r == g[k]
  <2>3. /\ f[k] = ReadLine(t, s, e) /\ s \in States(m)
        /\ e \in Line /\ (e.line # "work" => e.old \in 1..m) /\ Above(t, s, e)
        /\ g[k + 1] = ReadLine(target, r, e) /\ r \in States(m) /\ Shifted(t, s, r)
    BY <1>1, <1>5, <1>12, <2>2
  <2>4. target < t
    BY DEF t
  <2> HIDE DEF e, s, r
  <2>5. Above(target, r, e) /\ Shifted(t, ReadLine(t, s, e), ReadLine(target, r, e))
    BY ONLY <1>2, <2>3, <2>4, ShiftStep
  <2> QED
    BY <2>3, <2>5 DEF e, r
<1>13. ASSUME NEW k \in 0..(n - 1), k \in T PROVE k + 1 \in T
  <2>1. k + 1 \in 1..n /\ (k + 1) - 1 = k /\ k + 1 \in 0..n
    BY <1>1
  <2>2. Shifted(t, f[(k + 1) - 1], g[k + 1])
    BY <1>13, <2>1
  <2>3. Shifted(t, f[k + 1], g[(k + 1) + 1])
    BY <1>12, <2>1, <2>2
  <2> QED
    BY <2>1, <2>3
<1>14. 0..n \subseteq T
  <2> HIDE DEF T
  <2> QED
    BY <1>1, <1>11, <1>13, UpTo
<1>15. \A k \in 0..n : Shifted(t, f[k], g[k + 1])
  BY <1>14
<1>16. ForwardPath(M) = <<t>> \o ForwardPath(L)
  <2>1. n \in 0..n
    BY <1>1
  <2> QED
    BY <1>6, <1>15, <2>1 DEF Shifted
<1>17. ASSUME NEW k \in 1..(n + 1) PROVE Above(target, g[k - 1], bt(k))
  <2>1. CASE k = 1
    <3>1. target < t
      BY DEF t
    <3> QED
      BY <1>4, <1>10, <2>1, <3>1, ToSetIs DEF Above, Start
  <2>2. CASE k # 1
    <3>1. k - 1 \in 1..n /\ k - 1 \in 0..n /\ (k - 1) + 1 = k /\ (k - 1) - 1 \in 0..n
          /\ ((k - 1) - 1) + 1 = k - 1
      BY <1>1, <2>2
    <3>2. bt(k) = at(k - 1)
      BY <1>3, <3>1
    <3>3. Shifted(t, f[(k - 1) - 1], g[k - 1])
      BY <1>15, <3>1
    <3> QED
      BY <1>12, <3>1, <3>2, <3>3
  <2> QED
    BY <2>1, <2>2
<1>18. Climbs(M.store, M.tip, ForwardPath(M))
  <2> DEFINE p == ForwardPath(L)
  <2>1. Climbs(L.store, t, p) /\ p \in Seq(1..m)
    BY <1>7
  <2> HIDE DEF p
  <2>2. Climbs(L.store, target, <<t>> \o p)
    BY <1>2, <1>8, <2>1, ClimbsCons
  <2> QED
    BY <1>2, <1>16, <2>2 DEF p
<1> QED
  BY <1>9, <1>16, <1>17, <1>18 DEF StackOK, t

(* What the way forward starts with is what the scan found first.          *)
LEMMA FirstStays ==
  ASSUME NEW L, LogOK(L), NEW j \in 0..Len(L.reflog), Scanned(L)[j].path # << >>
  PROVE  ForwardPath(L)[1] = Scanned(L)[j].path[1]
<1> DEFINE n == Len(L.reflog)
           m == Len(L.store)
           f == Scanned(L)
           at(k) == LineAt(L, k)
           first == f[j].path[1]
           T == {k \in 0..n : k >= j => f[k].path # << >> /\ f[k].path[1] = first}
<1>1. /\ n \in Nat
      /\ \A k \in 1..n : /\ f[k] = ReadLine(L.tip, f[k - 1], at(k)) /\ f[k - 1] \in States(m)
                         /\ at(k) \in Line /\ (at(k).line # "work" => at(k).old \in 1..m)
  BY Reading
<1>2. m \in Nat
  BY DEF LogOK, Linked
<1>3. f[n].path = ForwardPath(L) /\ f[j].path # << >> /\ j \in 0..n
  BY DEF ForwardPath
<1> HIDE DEF n, m, f, at
<1>4. 0 \in T
  <2>1. 0 \in 0..n /\ (0 >= j => j = 0)
    BY <1>1, <1>3
  <2> QED
    BY <1>3, <2>1
<1>5. ASSUME NEW k \in 0..(n - 1), k \in T PROVE k + 1 \in T
  <2>1. k + 1 \in 1..n /\ (k + 1) - 1 = k /\ k + 1 \in 0..n
    BY <1>1
  <2>2. CASE k + 1 = j
    BY <1>3, <2>1, <2>2
  <2>3. CASE k + 1 # j /\ ~(k + 1 >= j)
    BY <2>1, <2>3
  <2>4. CASE k >= j
    <3> DEFINE s == f[k]
               e == at(k + 1)
    <3>1. f[k + 1] = ReadLine(L.tip, s, e) /\ s \in States(m)
          /\ e \in Line /\ (e.line # "work" => e.old \in 1..m)
      BY <1>1, <2>1
    <3>2. s.path # << >> /\ s.path[1] = first
      BY <1>5, <2>4
    <3> HIDE DEF s, e, first
    <3>3. Reads(m, L.tip, s, e)
      BY <1>2, <3>1, LineRead
    <3>4. f[k + 1].path \in {s.path, Append(s.path, e.old)}
      BY <3>1, <3>3 DEF Reads
    <3>5. s.path \in Seq(1..m)
      BY <3>1 DEF States
    <3>6. Append(s.path, e.old) # << >> /\ Append(s.path, e.old)[1] = s.path[1]
      BY <3>2, <3>5
    <3>7. f[k + 1].path # << >> /\ f[k + 1].path[1] = first
      BY <3>2, <3>4, <3>6
    <3> QED
      BY <2>1, <3>7
  <2>5. k + 1 = j \/ (k + 1 # j /\ ~(k + 1 >= j)) \/ k >= j
    BY <1>1, <1>3
  <2> QED
    BY <2>2, <2>3, <2>4, <2>5
<1>6. 0..n \subseteq T
  <2> HIDE DEF T
  <2> QED
    BY <1>1, <1>4, <1>5, UpTo
<1>7. n \in 0..n /\ n >= j
  BY <1>1, <1>3
<1>8. f[n].path[1] = first
  BY <1>6, <1>7
<1> QED
  BY <1>3, <1>8 DEF f

(* Of two scans, one has a redo line more: where s has found t, r has not. *)
Popped(t, s, r) ==
  /\ r.over = s.over
  /\ IF s.path = << >> THEN r.path = << >> /\ r.consumed = s.consumed + 1
     ELSE Shifted(t, r, s)

LEMMA PopStep ==
  ASSUME NEW n \in Nat, NEW u \in Nat, NEW t \in 1..n, u < t,
         NEW s \in States(n), NEW r \in States(n), Popped(t, s, r),
         NEW e \in Line, e.line # "work" => e.old \in 1..n, Above(u, s, e),
         ReadLine(u, s, e).path # << >> => ReadLine(u, s, e).path[1] = t
  PROVE  Above(t, r, e) /\ Popped(t, ReadLine(u, s, e), ReadLine(t, r, e))
<1>1. CASE s.path # << >>
  <2>1. Shifted(t, r, s)
    BY <1>1 DEF Popped
  <2>2. Above(t, r, e) /\ Shifted(t, ReadLine(t, r, e), ReadLine(u, s, e))
    BY <2>1, ShiftStep
  <2>3. Reads(n, t, r, e)
    BY LineRead
  <2> DEFINE q == ReadLine(t, r, e).path
  <2>4. q \in Seq(1..n)
    BY <2>3 DEF Reads, States
  <2>5. ReadLine(u, s, e).path = <<t>> \o q /\ ReadLine(u, s, e).over = ReadLine(t, r, e).over
    BY <2>2 DEF Shifted
  <2> HIDE DEF q
  <2>6. <<t>> \o q # << >>
    BY <2>4
  <2> QED
    BY <2>2, <2>5, <2>6 DEF Popped
<1>2. CASE s.path = << >>
  <2>1. /\ r.path = << >> /\ r.consumed = s.consumed + 1 /\ r.over = s.over
        /\ s.consumed \in Nat /\ s.over \in BOOLEAN /\ e.line \in {"work", "undo", "redo"}
    BY <1>2 DEF Popped, States, Line
  <2>2. Above(t, r, e)
    BY <2>1 DEF Above
  <2>3. Reads(n, u, s, e) /\ Reads(n, t, r, e)
    BY LineRead
  <2>4. CASE s.over
    <3>1. ReadLine(u, s, e) = s /\ ReadLine(t, r, e) = r
      BY <2>1, <2>3, <2>4 DEF Reads
    <3> QED
      BY <2>2, <3>1
  <2>5. CASE e.line = "work"
    <3>1. ReadLine(u, s, e) = [s EXCEPT !.over = TRUE] /\ ReadLine(t, r, e) = [r EXCEPT !.over = TRUE]
      BY <2>3, <2>5 DEF Reads
    <3> QED
      BY <1>2, <2>1, <2>2, <3>1 DEF Popped, States
  <2>6. CASE ~s.over /\ e.line = "redo"
    <3>1. /\ ReadLine(u, s, e) = [s EXCEPT !.consumed = @ + 1]
          /\ ReadLine(t, r, e) = [r EXCEPT !.consumed = @ + 1]
      BY <2>1, <2>3, <2>6 DEF Reads
    <3> QED
      BY <1>2, <2>1, <2>2, <3>1 DEF Popped, States
  <2>7. CASE ~s.over /\ e.line = "undo" /\ s.consumed > 0
    <3>1. /\ ReadLine(u, s, e) = [s EXCEPT !.consumed = @ - 1]
          /\ ReadLine(t, r, e) = [r EXCEPT !.consumed = @ - 1]
      <4>1. r.consumed > 0
        BY <2>1
      <4> QED
        BY <2>1, <2>3, <2>7, <4>1 DEF Reads
    <3> QED
      BY <1>2, <2>1, <2>2, <3>1 DEF Popped, States
  <2>8. CASE ~s.over /\ e.line = "undo" /\ s.consumed = 0
    <3>1. e.old \in 1..n /\ e.old > u /\ e.old # u /\ e.old \notin ToSet(s.path)
      <4>1. ToSet(s.path) = {}
        BY <1>2, ToSetIs
      <4> QED
        BY <2>8, <4>1 DEF Above
    <3>2. ReadLine(u, s, e) = [s EXCEPT !.path = Append(s.path, e.old)]
      BY <2>3, <2>8, <3>1 DEF Reads
    <3>3. ReadLine(t, r, e) = [r EXCEPT !.consumed = @ - 1]
      <4>1. r.consumed > 0
        BY <2>1, <2>8
      <4> QED
        BY <2>1, <2>3, <2>8, <4>1 DEF Reads
    <3>4. ReadLine(u, s, e).path = Append(<< >>, e.old)
      BY <1>2, <3>2 DEF States
    <3>5. e.old = t
      <4>1. Append(<< >>, e.old) # << >> /\ Append(<< >>, e.old)[1] = e.old
        OBVIOUS
      <4> QED
        BY <3>4, <4>1
    <3>6. Append(<< >>, t) = <<t>> \o << >> /\ Append(<< >>, t) # << >>
      OBVIOUS
    <3>7. ReadLine(t, r, e).path = << >> /\ ReadLine(t, r, e).over = s.over
          /\ ReadLine(t, r, e).consumed = s.consumed
      BY <2>1, <3>3 DEF States
    <3>8. ReadLine(u, s, e).over = s.over /\ ReadLine(u, s, e).consumed = s.consumed
      BY <3>2 DEF States
    <3> QED
      BY <2>2, <3>4, <3>5, <3>6, <3>7, <3>8 DEF Popped, Shifted
  <2> QED
    BY <2>1, <2>4, <2>5, <2>6, <2>7, <2>8
<1> QED
  BY <1>1, <1>2

(* A redo takes what it enters off the way forward.                        *)
LEMMA RedoPops ==
  ASSUME NEW L, LogOK(L), StackOK(L), ForwardPath(L) # << >>,
         NEW M, LogOK(M), NEW target, target = ForwardPath(L)[1], MovedTo(L, M, target, "redo")
  PROVE  ForwardPath(L) = <<target>> \o ForwardPath(M) /\ StackOK(M)
<1> DEFINE n == Len(L.reflog)
           m == Len(L.store)
           f == Scanned(L)
           g == Scanned(M)
           at(k) == LineAt(L, k)
           bt(k) == LineAt(M, k)
           u == L.tip
           T == {k \in 0..n : Popped(target, f[k], g[k + 1])}
<1>1. /\ n \in Nat /\ f[0] = Start
      /\ \A k \in 1..n : /\ f[k] = ReadLine(u, f[k - 1], at(k)) /\ f[k - 1] \in States(m)
                         /\ at(k) \in Line /\ (at(k).line # "work" => at(k).old \in 1..m)
  BY Reading
<1>2. M.tip = target /\ M.store = L.store
  BY DEF MovedTo
<1>3. /\ Len(M.reflog) = n + 1
      /\ bt(1) = [old |-> L.tip, new |-> target, line |-> "redo"]
      /\ \A k \in 1..n : bt(k + 1) = at(k) /\ k + 1 \in 1..(n + 1) /\ (k + 1) - 1 = k
  BY OneMoreLine
<1>4. /\ g[0] = Start
      /\ \A k \in 1..(n + 1) : /\ g[k] = ReadLine(target, g[k - 1], bt(k)) /\ g[k - 1] \in States(m)
                               /\ bt(k) \in Line /\ (bt(k).line # "work" => bt(k).old \in 1..m)
  BY <1>2, <1>3, Reading
<1>5. \A k \in 1..n : Above(u, f[k - 1], at(k))
  BY DEF StackOK, Ahead
<1>6. f[n].path = ForwardPath(L) /\ g[n + 1].path = ForwardPath(M)
  BY <1>3 DEF ForwardPath
<1>7. Climbs(L.store, u, ForwardPath(L)) /\ ForwardPath(L) \in Seq(1..m) /\ ForwardPath(M) \in Seq(1..m)
  BY <1>2, ScanTyped DEF StackOK
<1>8. \A k \in 0..n : f[k].path # << >> => f[k].path[1] = target
  BY FirstStays
<1>9. Ahead(M) <=> \A k \in 1..(n + 1) : Above(target, g[k - 1], bt(k))
  BY <1>2, <1>3 DEF Ahead
<1>10. target \in 1..m /\ u \in Nat /\ u < target /\ m \in Nat
  <2>1. Linked(L.store) /\ u \in 0..m /\ m \in Nat
    BY DEF LogOK, Linked
  <2>2. target \in 1..m /\ StrictlyBelow(L.store, u, target)
    <3> DEFINE p == ForwardPath(L)
    <3>1. p \in Seq(1..m) /\ p # << >> /\ target = p[1] /\ Climbs(L.store, u, p)
      BY <1>7
    <3> HIDE DEF p, m, u
    <3>2. 1 \in 1..Len(p)
      BY <3>1
    <3>3. p[1] \in 1..m
      BY ONLY <3>1, <3>2, ElementOfSeq
    <3>4. StrictlyBelow(L.store, u, p[1])
      BY ONLY <3>1 DEF Climbs
    <3> QED
      BY <3>1, <3>3, <3>4
  <2>3. Below(L.store, target) \subseteq 1..target
    <3>1. target \in 0..Len(L.store)
      BY <2>1, <2>2
    <3> QED
      BY <2>1, <3>1, BelowFacts
  <2> HIDE DEF m, u
  <2>4. u \in 1..target /\ u # target
    BY <2>2, <2>3 DEF StrictlyBelow
  <2> QED
    BY <2>1, <2>2, <2>4
<1> HIDE DEF n, m, f, g, at, bt, u
<1>11. 1 \in 1..(n + 1) /\ 1 - 1 = 0 /\ g[1] = ReadLine(target, Start, bt(1))
       /\ bt(1) \in Line /\ bt(1).line = "redo" /\ bt(1).old \in 1..m
  <2>1. 1 \in 1..(n + 1) /\ 1 - 1 = 0
    BY <1>1
  <2>2. bt(1).line = "redo"
    BY <1>3
  <2>3. "redo" # "work"
    OBVIOUS
  <2> QED
    BY <1>4, <2>1, <2>2, <2>3
<1>12. 0 \in T
  <2> DEFINE e == bt(1)
  <2>1. Start \in States(m) /\ ~Start.over /\ Start.consumed = 0 /\ Start.path = << >>
    BY <1>10 DEF Start, States
  <2>2. e \in Line /\ e.line = "redo" /\ e.old \in 1..m
    BY <1>11
  <2> HIDE DEF e
  <2>3. Reads(m, target, Start, e)
    BY <1>10, <2>1, <2>2, LineRead
  <2>4. ReadLine(target, Start, e) = [Start EXCEPT !.consumed = @ + 1]
    BY <2>1, <2>2, <2>3 DEF Reads
  <2>5. Popped(target, Start, [Start EXCEPT !.consumed = @ + 1])
    BY DEF Popped, Start
  <2>6. Popped(target, f[0], g[1])
    BY <1>1, <1>11, <2>4, <2>5 DEF e
  <2>7. 0 \in 0..n /\ 0 + 1 = 1
    BY <1>1
  <2> QED
    BY <2>6, <2>7
<1>13. ASSUME NEW k \in 1..n, Popped(target, f[k - 1], g[k])
       PROVE  Above(target, g[k], at(k)) /\ Popped(target, f[k], g[k + 1])
  <2>1. bt(k + 1) = at(k) /\ k + 1 \in 1..(n + 1) /\ (k + 1) - 1 = k /\ k \in 0..n
    BY <1>1, <1>3
  <2>2. g[k + 1] = ReadLine(target, g[k], at(k)) /\ g[k] \in States(m)
    BY <1>4, <2>1
  <2> DEFINE e == at(k)
             s == f[k - 1]
             r == g[k]
  <2>3. /\ f[k] = ReadLine(u, s, e) /\ s \in States(m)
        /\ e \in Line /\ (e.line # "work" => e.old \in 1..m) /\ Above(u, s, e)
        /\ g[k + 1] = ReadLine(target, r, e) /\ r \in States(m) /\ Popped(target, s, r)
        /\ (ReadLine(u, s, e).path # << >> => ReadLine(u, s, e).path[1] = target)
    BY <1>1, <1>5, <1>8, <1>13, <2>1, <2>2
  <2> HIDE DEF e, s, r
  <2>4. Above(target, r, e) /\ Popped(target, ReadLine(u, s, e), ReadLine(target, r, e))
    BY ONLY <1>10, <2>3, PopStep
  <2> QED
    BY <2>3, <2>4 DEF e, r
<1>14. ASSUME NEW k \in 0..(n - 1), k \in T PROVE k + 1 \in T
  <2>1. k + 1 \in 1..n /\ (k + 1) - 1 = k /\ k + 1 \in 0..n
    BY <1>1
  <2>2. Popped(target, f[(k + 1) - 1], g[k + 1])
    BY <1>14, <2>1
  <2>3. Popped(target, f[k + 1], g[(k + 1) + 1])
    BY <1>13, <2>1, <2>2
  <2> QED
    BY <2>1, <2>3
<1>15. 0..n \subseteq T
  <2> HIDE DEF T
  <2> QED
    BY <1>1, <1>12, <1>14, UpTo
<1>16. \A k \in 0..n : Popped(target, f[k], g[k + 1])
  BY <1>15
<1>17. ForwardPath(L) = <<target>> \o ForwardPath(M)
  <2>1. n \in 0..n
    BY <1>1
  <2> QED
    BY <1>6, <1>16, <2>1 DEF Shifted, Popped
<1>18. ASSUME NEW k \in 1..(n + 1) PROVE Above(target, g[k - 1], bt(k))
  <2>1. CASE k = 1
    BY <1>11, <2>1 DEF Above
  <2>2. CASE k # 1
    <3>1. k - 1 \in 1..n /\ k - 1 \in 0..n /\ (k - 1) + 1 = k /\ (k - 1) - 1 \in 0..n
          /\ ((k - 1) - 1) + 1 = k - 1
      BY <1>1, <2>2
    <3>2. bt(k) = at(k - 1)
      BY <1>3, <3>1
    <3>3. Popped(target, f[(k - 1) - 1], g[k - 1])
      BY <1>16, <3>1
    <3> QED
      BY <1>13, <3>1, <3>2, <3>3
  <2> QED
    BY <2>1, <2>2
<1>19. Climbs(M.store, M.tip, ForwardPath(M))
  <2> DEFINE q == ForwardPath(M)
  <2>1. Climbs(L.store, u, <<target>> \o q) /\ q \in Seq(1..m)
    BY <1>7, <1>17
  <2> HIDE DEF q
  <2>2. Climbs(L.store, target, q)
    BY <1>10, <2>1, ClimbsCons
  <2> QED
    BY <1>2, <2>2 DEF q
<1> QED
  BY <1>9, <1>17, <1>18, <1>19 DEF StackOK

(* The log is the same, or new work stands at its end and nothing is ahead.*)
Worked(L, M) ==
  \/ M = L
  \/ /\ Len(M.store) > Len(L.store) /\ M.tip = Len(M.store)
     /\ ForwardPath(M) = << >> /\ StackOK(M)

LEMMA WroteWorked ==
  ASSUME NEW L, LogOK(L), NEW M, Wrote(L, M)
  PROVE  LogOK(M) /\ Worked(L, M) /\ Len(L.store) \in Nat /\ Len(M.store) \in Nat
<1>1. Len(L.store) \in Nat
  BY DEF LogOK, Linked
<1>2. CASE M = L
  BY <1>1, <1>2 DEF Worked
<1>3. ASSUME NEW op \in Written, M = Push(L, op)
      PROVE  LogOK(M) /\ Worked(L, M) /\ Len(M.store) \in Nat
  <2>1. LogOK(M) /\ M.tip = Len(L.store) + 1 /\ Len(M.store) = Len(L.store) + 1
    BY <1>3, PushOK
  <2> DEFINE line == [old |-> L.tip, new |-> Len(L.store) + 1, line |-> "work"]
  <2>2. M.reflog = Append(L.reflog, line) /\ L.reflog \in Seq(Line) /\ line.line = "work"
    BY <1>3 DEF Push, LogOK, Moved
  <2> HIDE DEF line
  <2>3. Len(M.reflog) # 0 /\ M.reflog[Len(M.reflog)] = line
    BY <2>2
  <2>4. ForwardPath(M) = << >> /\ StackOK(M)
    BY <2>1, <2>2, <2>3, WorkClears
  <2> QED
    BY <1>1, <2>1, <2>4 DEF Worked
<1> QED
  BY <1>1, <1>2, <1>3 DEF Wrote

LEMMA WorkedOn ==
  ASSUME NEW L, NEW M, NEW N, Len(L.store) \in Nat, Len(M.store) \in Nat, Len(N.store) \in Nat,
         Worked(L, M), Worked(M, N)
  PROVE  Worked(L, N)
<1>1. CASE M = L \/ N = M
  BY <1>1
<1>2. CASE M # L /\ N # M
  BY <1>2 DEF Worked
<1> QED
  BY <1>1, <1>2

LEMMA WroteTwice ==
  ASSUME NEW L, LogOK(L), NEW N, \E M : LogOK(M) /\ Wrote(L, M) /\ Wrote(M, N)
  PROVE  Worked(L, N) /\ LogOK(N)
<1>1. PICK M : LogOK(M) /\ Wrote(L, M) /\ Wrote(M, N)
  OBVIOUS
<1>2. Worked(L, M) /\ Worked(M, N) /\ LogOK(N)
      /\ Len(L.store) \in Nat /\ Len(M.store) \in Nat /\ Len(N.store) \in Nat
  BY <1>1, WroteWorked
<1> QED
  BY <1>2, WorkedOn

LEMMA PreambleWorked ==
  ASSUME LogOK(Log), WorldOK
  PROVE  Worked(Log, Preamble)
<1>1. PICK L, M : LogOK(L) /\ LogOK(M) /\ Wrote(Log, L) /\ Wrote(L, M) /\ Wrote(M, Preamble)
  BY PreambleOK
<1>2. Worked(Log, M)
  BY <1>1, WroteTwice
<1>3. Worked(M, Preamble) /\ Len(M.store) \in Nat /\ Len(Preamble.store) \in Nat
  BY <1>1, WroteWorked
<1>4. Len(Log.store) \in Nat
  BY DEF LogOK, Linked
<1> QED
  BY <1>2, <1>3, <1>4, WorkedOn

(* What the reflog will say of a move.                                     *)
LEMMA LineSays ==
  ASSUME NEW L, LogOK(L), NEW target \in 1..Len(L.store), L.tip # None
  PROVE  /\ target < L.tip => Back(L, target) # << >>
         /\ L.tip \in Below(L.store, target) => Back(L, target) = << >>
<1> DEFINE s == Ops(L)
           o == Back(L, target)
           B == Below(L.store, target)
<1>1. Linked(L.store) /\ L.tip \in 1..Len(L.store) /\ L.tip \in 0..Len(L.store) /\ Len(L.store) \in Nat
      /\ target \in 0..Len(L.store) /\ L.store \in Seq(Written)
  BY DEF LogOK, None, Linked
<1>2. Len(s) \in Nat /\ DOMAIN s = 1..Len(s)
  BY <1>1, WalkMembers DEF Ops
<1>3. Len(s) # 0 /\ s[1] = L.tip
  <2> DEFINE r == ChainIn(L.store, L.store[L.tip].prev)
  <2>1. s = <<L.tip>> \o r
    BY <1>1, ChainDef DEF Ops
  <2>2. L.store[L.tip].prev \in 0..(L.tip - 1)
    BY <1>1 DEF Linked
  <2>3. L.store[L.tip].prev \in 0..Len(L.store)
    BY <1>1, <2>2
  <2>4. r \in Seq(1..L.store[L.tip].prev)
    BY <1>1, <2>3, ChainFacts
  <2> HIDE DEF r, s
  <2>5. r \in Seq(Nat) /\ L.tip \in Nat
    <3>1. 1..L.store[L.tip].prev \subseteq Nat
      BY <2>3
    <3>2. r \in Seq(Nat)
      BY ONLY <2>4, <3>1, SeqMonotone
    <3> QED
      BY <1>1, <3>2
  <2> QED
    BY <2>1, <2>5, ConsFacts
<1>4. /\ o \in Seq(1..L.tip) /\ Len(o) \in 0..Len(s) /\ DOMAIN o = 1..Len(o)
      /\ \A k \in 1..Len(o) : o[k] = s[k] /\ s[k] \notin B
      /\ \A k \in 1..Len(s) : k > Len(o) => s[k] \in B
  BY <1>1, OnlyIs DEF Back, Ops
<1>5. B \subseteq 1..target
  BY <1>1, BelowFacts
<1> HIDE DEF o, s, B
<1>6. ASSUME target < L.tip PROVE o # << >>
  <2>1. L.tip \notin B
    BY <1>1, <1>5, <1>6
  <2>2. 1 \in 1..Len(s)
    BY <1>2, <1>3
  <2>3. ~(1 > Len(o))
    BY <1>3, <1>4, <2>1, <2>2
  <2> QED
    BY <2>3
<1>7. ASSUME L.tip \in B PROVE o = << >>
  <2>1. 1 \notin 1..Len(o)
    BY <1>3, <1>4, <1>7
  <2>2. Len(o) = 0
    BY <1>2, <1>4, <2>1
  <2> QED
    BY <1>4, <2>2
<1> QED
  BY <1>6, <1>7 DEF o, B

-----------------------------------------------------------------------------
(***************************************************************************)
(* Undo and redo are the stack they promise.                               *)
(***************************************************************************)

At == IF Restores THEN None ELSE opsRef
Made == IF Restores THEN 0 ELSE Len(store)
Ahead0 == IF Restores THEN << >> ELSE ForwardPath(Log)

StackGoal == (~Restores => StackOK(Log))' /\ [Stack!Next]_<<At, Made, Ahead0>>

(* A step that writes to the log writes work, or nothing.                  *)
LEMMA WorkSteps ==
  ASSUME Worked(Log, Log'), ~Restores => StackOK(Log), Len(store) \in Nat, Len(store)' \in Nat,
         story' = story
  PROVE  StackGoal
<1>1. Restores' = Restores
  BY DEF Restores
<1>2. /\ Log.store = store /\ Log'.store = store' /\ Log'.tip = opsRef' /\ Log.tip = opsRef
      /\ ForwardPath(Log)' = ForwardPath(Log') /\ StackOK(Log)' = StackOK(Log')
      /\ Len(store)' = Len(store')
  BY DEF Log
<1>3. CASE Restores
  BY <1>1, <1>3 DEF StackGoal, At, Made, Ahead0
<1>4. CASE ~Restores /\ Log' = Log
  <2>1. ForwardPath(Log)' = ForwardPath(Log) /\ opsRef' = opsRef /\ Len(store)' = Len(store)
    BY <1>2, <1>4
  <2> QED
    BY <1>1, <1>2, <1>4, <2>1 DEF StackGoal, At, Made, Ahead0
<1>5. CASE ~Restores /\ Log' # Log
  <2>1. /\ Len(store') > Len(store) /\ opsRef' = Len(store')
        /\ ForwardPath(Log)' = << >> /\ StackOK(Log)'
    BY <1>2, <1>5 DEF Worked
  <2>2. Stack!Work
    BY <1>1, <1>2, <1>5, <2>1 DEF Stack!Work
  <2> QED
    BY <1>1, <2>1, <2>2 DEF StackGoal, Stack!Next, At, Made, Ahead0
<1> QED
  BY <1>3, <1>4, <1>5

(* The last step of a move is an undo or a redo of the stack.              *)
LEMMA MoveSteps ==
  ASSUME IInv, IInv', MovePointer, ~Restores, StackOK(Log)
  PROVE  StackGoal
<1> DEFINE target == plan.target
           word == IF plan.back = << >> THEN "redo" ELSE "undo"
           L == Log
           M == Log'
<1>1. /\ pc \in Moving /\ opsRef' = target /\ store' = store /\ story' = story
      /\ reflog' = IF target = plan.tip THEN reflog
                   ELSE Append(reflog, [old |-> plan.tip, new |-> target, line |-> word])
  BY DEF MovePointer, Moving, bounds
<1>2. /\ plan.back = Back(L, target) /\ plan.tip = opsRef /\ opsRef # None
      /\ plan.how \in story.landings /\ plan.how \in Landings /\ target \in LandingsOf(L, plan.how)
  BY <1>1 DEF IInv, PlanOK
<1>3. LogOK(L) /\ LogOK(M)
  BY DEF IInv
<1>4. /\ L.store = store /\ L.tip = opsRef /\ L.reflog = reflog
      /\ M.store = store' /\ M.tip = opsRef' /\ M.reflog = reflog'
      /\ ForwardPath(L)' = ForwardPath(M) /\ StackOK(L)' = StackOK(M)
  BY DEF Log
<1>5. Restores' = Restores
  BY <1>1 DEF Restores
<1>6. plan.how \in {"undo", "redo"}
  BY <1>2 DEF Landings, Restores
<1>7. /\ target \in 1..Len(L.store)
      /\ plan.how = "undo" => target \in Below(L.store, L.tip) /\ target < L.tip
      /\ plan.how = "redo" => ForwardPath(L) # << >> /\ target = ForwardPath(L)[1]
  BY <1>2, <1>3, LandingsAre
<1>8. /\ target < L.tip => Back(L, target) # << >>
      /\ L.tip \in Below(L.store, target) => Back(L, target) = << >>
  BY <1>2, <1>3, <1>4, <1>7, LineSays
<1>9. L.tip \in Nat /\ target \in Nat
  BY <1>3, <1>7 DEF LogOK, Linked
<1>10. StackOK(L) /\ Made' = Made
  BY <1>1, <1>5 DEF Made
<1>11. ForwardPath(L) \in Seq(1..Len(L.store)) /\ ForwardPath(M) \in Seq(1..Len(L.store))
  BY <1>1, <1>3, <1>4, ScanTyped
<1>12. At = L.tip /\ At' = target /\ Ahead0 = ForwardPath(L) /\ Ahead0' = ForwardPath(M)
  BY <1>1, <1>4, <1>5 DEF At, Ahead0
<1>13. ASSUME StackOK(M), Stack!Undo \/ Stack!Redo PROVE StackGoal
  BY <1>4, <1>13 DEF StackGoal, Stack!Next
<1>14. Made' = Made => Len(store)' = Len(store)
  BY <1>1
<1> HIDE DEF target, L, M, word
<1>15. CASE plan.how = "undo"
  <2>1. target # plan.tip /\ word = "undo"
    BY <1>2, <1>4, <1>7, <1>8, <1>9, <1>15 DEF word
  <2>2. MovedTo(L, M, target, "undo")
    BY <1>1, <1>2, <1>4, <2>1 DEF MovedTo
  <2>3. ForwardPath(M) = <<L.tip>> \o ForwardPath(L) /\ StackOK(M)
    BY <1>3, <1>7, <1>10, <1>15, <2>2, UndoPushes
  <2>4. At' < At /\ Ahead0' = <<At>> \o Ahead0 /\ Made' = Made
    BY <1>7, <1>10, <1>12, <1>15, <2>3
  <2>5. Stack!Undo
    BY <2>4 DEF Stack!Undo, At, Ahead0, Made
  <2> QED
    BY <1>13, <2>3, <2>5
<1>16. CASE plan.how = "redo"
  <2> DEFINE p == ForwardPath(L)
             q == ForwardPath(M)
  <2>1. p \in Seq(1..Len(L.store)) /\ p # << >> /\ target = p[1] /\ Climbs(L.store, L.tip, p)
        /\ q \in Seq(1..Len(L.store))
    BY <1>7, <1>10, <1>11, <1>16 DEF StackOK
  <2>2. StrictlyBelow(L.store, L.tip, target)
    <3> HIDE DEF p
    <3> QED
      BY <2>1 DEF Climbs
  <2>3. target # plan.tip /\ word = "redo"
    BY <1>2, <1>4, <1>8, <2>2 DEF word, StrictlyBelow
  <2>4. MovedTo(L, M, target, "redo")
    BY <1>1, <1>2, <1>4, <2>3 DEF MovedTo
  <2>5. p = <<target>> \o q /\ StackOK(M)
    BY <1>3, <1>7, <1>10, <1>16, <2>4, RedoPops
  <2> HIDE DEF p, q
  <2>6. Head(p) = target /\ Tail(p) = q
    <3> DEFINE S == 1..Len(L.store)
    <3>1. q \in Seq(S) /\ target \in S /\ p = <<target>> \o q
      BY <1>7, <2>1, <2>5
    <3> HIDE DEF S
    <3> QED
      BY ONLY <3>1
  <2>7. Ahead0 # << >> /\ At' = Head(Ahead0) /\ Ahead0' = Tail(Ahead0) /\ Made' = Made
    BY <1>10, <1>12, <2>1, <2>6 DEF p, q
  <2>8. Stack!Redo
    BY <2>7 DEF Stack!Redo, At, Ahead0, Made
  <2> QED
    BY <1>13, <2>5, <2>8
<1> QED
  BY <1>6, <1>15, <1>16

(* Every step is new work, an undo, a redo, or none of these.              *)
LEMMA StackStep ==
  ASSUME IInv, IInv', ~Restores => StackOK(Log), [Next]_vars
  PROVE  StackGoal
<1>1. LogOK(Log) /\ WorldOK /\ Len(store) \in Nat /\ Len(store)' \in Nat
  <2>1. LogOK(Log) /\ LogOK(Log') /\ Log.store = store /\ Log'.store = store'
    BY DEF IInv, Log
  <2> QED
    BY <2>1 DEF IInv, LogOK, Linked
<1>2. ASSUME UNCHANGED log, story' = story PROVE StackGoal
  <2>1. Worked(Log, Log')
    BY <1>2, SameLog DEF Worked
  <2> QED
    BY <1>1, <1>2, <2>1, WorkSteps
<1>3. ASSUME NEW K, LogOK(K), Worked(Log, K), SetLog(K), story' = story PROVE StackGoal
  <2>1. Log' = K
    BY <1>3, SetTo
  <2> QED
    BY <1>1, <1>3, <2>1, WorkSteps
<1>4. ASSUME Edit \/ GitCommit \/ (\E b \in Branches : GitSwitch(b))
             \/ \E b \in Branches, commit \in {Root} \cup {tips[c] : c \in Branches} : GitMove(b, commit)
      PROVE  StackGoal
  <2>1. UNCHANGED log /\ story' = story
    BY <1>4 DEF Edit, GitCommit, GitSwitch, GitMove, Outside
  <2> QED
    BY <1>2, <2>1
<1>5. ASSUME NEW session \in Sessions, HookCapture(session) PROVE StackGoal
  <2>1. LogOK(Capture(Log, session))
        /\ \E M : LogOK(M) /\ Wrote(Log, M) /\ Wrote(M, Capture(Log, session))
    BY <1>1, CaptureOK
  <2>2. Worked(Log, Capture(Log, session))
    BY <1>1, <2>1, WroteTwice
  <2>3. SetLog(Capture(Log, session)) /\ story' = story
    BY <1>5 DEF HookCapture, bounds
  <2> QED
    BY <1>3, <2>1, <2>2, <2>3
<1>6. LogOK(Preamble) /\ Worked(Log, Preamble)
  BY <1>1, PreambleOK, PreambleWorked
<1>7. CASE StartCommit
  <2>1. SetLog(Preamble) /\ story' = story
    BY <1>7 DEF StartCommit, bounds
  <2> QED
    BY <1>3, <1>6, <2>1
<1>8. ASSUME NEW how \in Landings, StartMove(how) PROVE StackGoal
  <2>1. SetLog(Preamble) /\ story' = story
    BY <1>8 DEF StartMove
  <2> QED
    BY <1>3, <1>6, <2>1
<1>9. CASE RecordCommit
  <2> DEFINE planned == [tips |-> [tips EXCEPT ![plan.branch] = plan.target], head |-> head]
             op == [Draft("op", "none", planned, plan.target, plan.target) EXCEPT !.branch = plan.branch]
  <2>1. pc = "hooks" /\ SetLog(Push(Log, op)) /\ story' = story
    BY <1>9 DEF RecordCommit, bounds
  <2>2. op \in Written
    BY <2>1, RecordIs
  <2> HIDE DEF op
  <2>3. Wrote(Log, Push(Log, op))
    BY <2>2 DEF Wrote
  <2>4. LogOK(Push(Log, op)) /\ Worked(Log, Push(Log, op))
    BY <1>1, <2>3, WroteWorked
  <2> QED
    BY <1>3, <2>1, <2>4
<1>10. CASE LandCommit \/ MoveRefs \/ MoveHead \/ MoveTree
  <2>1. UNCHANGED log /\ story' = story
    BY <1>10 DEF LandCommit, MoveRefs, MoveHead, MoveTree, bounds
  <2> QED
    BY <1>2, <2>1
<1>11. CASE MovePointer
  <2>1. CASE Restores
    <3>1. Restores' = Restores
      BY <1>11 DEF MovePointer, bounds, Restores
    <3> QED
      BY <2>1, <3>1 DEF StackGoal, At, Made, Ahead0
  <2>2. CASE ~Restores
    BY <1>11, <2>2, MoveSteps
  <2> QED
    BY <2>1, <2>2
<1>12. CASE Crash
  <2>1. UNCHANGED log /\ story' = story
    BY <1>12 DEF Crash
  <2> QED
    BY <1>2, <2>1
<1>13. CASE UNCHANGED vars
  <2>1. UNCHANGED log /\ story' = story
    BY <1>13 DEF vars, log
  <2> QED
    BY <1>2, <2>1
<1> QED
  BY <1>4, <1>5, <1>7, <1>8, <1>9, <1>10, <1>11, <1>12, <1>13 DEF Next

(* Where undo and redo are the only moves, what redo offers is the stack   *)
(* of the places undone from: the history refines UndoStack, although      *)
(* forward_scan has nothing to read but the reflog (RedoIsAStack).         *)
THEOREM RedoGoesForward == Spec => RedoIsAStack
<1> DEFINE Stacked == ~Restores => StackOK(Log)
<1>1. Init => ForwardPath(Log) = << >> /\ StackOK(Log)
  <2> SUFFICES ASSUME Init PROVE ForwardPath(Log) = << >> /\ StackOK(Log)
    OBVIOUS
  <2>1. Log.reflog = << >> /\ Len(Log.reflog) = 0
    BY DEF Init, Log
  <2>2. Scanned(Log)[0] = Start
    BY <2>1, ScanIs
  <2>3. ForwardPath(Log) = << >>
    BY <2>1, <2>2 DEF ForwardPath, Start
  <2> QED
    BY <2>1, <2>3 DEF StackOK, Ahead, Climbs
<1>2. Init => Stack!Init
  BY <1>1 DEF Init, Stack!Init, None
<1>3. Init => Stacked
  BY <1>1
<1>4. IInv /\ IInv' /\ Stacked /\ [Next]_vars => Stacked' /\ [Stack!Next]_<<At, Made, Ahead0>>
  BY StackStep DEF StackGoal
<1> QED
  BY <1>2, <1>3, <1>4, RewindInvariant, PTL
     DEF Spec, RedoIsAStack, Stack!Spec, At, Made, Ahead0
=============================================================================
