------------------------------- MODULE Walks -------------------------------
(***************************************************************************)
(* Lemmas about walks along links that lead to smaller numbers, as the     *)
(* walk over fufu-prev from an operation to the root of its log: every     *)
(* operation is written after the one it names.  First the walk that lists *)
(* oldest first, then the one that lists newest first, what it reaches,    *)
(* and what one walk has before it meets another.                          *)
(*                                                                         *)
(* The induction over numbers they rest on is that of a set of numbers,    *)
(* and comes down to its least element.                                    *)
(***************************************************************************)
EXTENDS Integers, Sequences, SequencesExt, FiniteSetsExt, TLAPS, SequenceTheorems,
        WellFoundedInduction

(* A list of members of a set is one of members of a larger set.           *)
LEMMA SeqMonotone ==
  ASSUME NEW S, NEW T, S \subseteq T, NEW s \in Seq(S)
  PROVE  s \in Seq(T)
  BY SeqDef

(* What a list ends with, after its first k members.                       *)
LEMMA SeqEnd ==
  ASSUME NEW S, NEW s \in Seq(S), NEW k \in 0..Len(s)
  PROVE  /\ SubSeq(s, k + 1, Len(s)) \in Seq(S)
         /\ Len(SubSeq(s, k + 1, Len(s))) = Len(s) - k
         /\ \A m \in 1..(Len(s) - k) : SubSeq(s, k + 1, Len(s))[m] = s[k + m]
<1> DEFINE n == Len(s)
<1>1. n \in Nat /\ k \in Nat /\ k <= n /\ \A m \in 1..n : s[m] \in S
  BY LenProperties, ElementOfSeq
<1> HIDE DEF n
<1>2. \A m \in (k + 1)..n : m \in 1..n
  BY <1>1
<1>3. /\ SubSeq(s, k + 1, n) \in Seq(S)
      /\ Len(SubSeq(s, k + 1, n)) = IF k + 1 <= n THEN n - (k + 1) + 1 ELSE 0
      /\ \A m \in 1..(n - (k + 1) + 1) : SubSeq(s, k + 1, n)[m] = s[(k + 1) + m - 1]
  <2>1. k + 1 \in Int /\ n \in Int /\ \A m \in (k + 1)..n : s[m] \in S
    BY <1>1, <1>2
  <2> QED
    BY <2>1, SubSeqProperties
<1>4. /\ n - (k + 1) + 1 = n - k
      /\ ~(k + 1 <= n) => n - k = 0
      /\ \A m \in 1..(n - k) : (k + 1) + m - 1 = k + m
  BY <1>1
<1>5. Len(SubSeq(s, k + 1, n)) = n - k
  BY ONLY <1>3, <1>4
<1>6. \A m \in 1..(n - k) : SubSeq(s, k + 1, n)[m] = s[k + m]
  BY ONLY <1>3, <1>4
<1> QED
  BY <1>3, <1>5, <1>6 DEF n

(* A set of numbers that is not empty has a least one.                     *)
LEMMA LeastNumber ==
  ASSUME NEW T, T \subseteq Nat, T # {}
  PROVE  \E m \in T : \A k \in T : m <= k
<1> DEFINE R == {ss \in Nat \X Nat : ss[1] < ss[2]}
<1>1. IsWellFoundedOn(R, Nat)
  BY NatLessThanWellFounded DEF OpToRel
<1>2. \E x \in T : \A y \in T : ~(<<y, x>> \in R)
  <2> HIDE DEF R
  <2> QED
    BY <1>1, WFMin
<1>3. PICK x \in T : \A y \in T : ~(<<y, x>> \in R)
  BY <1>2
<1>4. \A y \in T : x <= y
  <2> TAKE y \in T
  <2>1. x \in Nat /\ y \in Nat
    OBVIOUS
  <2>2. ~(y < x)
    BY <1>3, <2>1
  <2> QED
    BY <2>1, <2>2
<1> QED
  BY <1>4

LEMMA GreatestNumber ==
  ASSUME NEW n \in Nat, NEW T, T \subseteq 0..n, T # {}
  PROVE  \E m \in T : \A k \in T : k <= m
<1> DEFINE U == {n - k : k \in T}
<1>1. U \subseteq Nat /\ U # {}
  <2>1. \A k \in 0..n : n - k \in Nat
    OBVIOUS
  <2>2. PICK k \in T : TRUE
    OBVIOUS
  <2>3. n - k \in U
    BY <2>2
  <2> QED
    BY <2>1, <2>3
<1>2. PICK u \in U : \A k \in U : u <= k
  <2> HIDE DEF U
  <2> QED
    BY <1>1, LeastNumber
<1>3. PICK m \in T : u = n - m
  BY <1>2
<1>4. ASSUME NEW k \in T PROVE k <= m
  <2>1. n - m <= n - k /\ k \in 0..n /\ m \in 0..n
    BY <1>2, <1>3
  <2> QED
    BY <2>1
<1> QED
  BY <1>4

(* A set that has a number whenever it has all the smaller ones has all.   *)
LEMMA AllNumbers ==
  ASSUME NEW n \in Nat, NEW T,
         \A m \in 0..n : (\A k \in 0..n : k < m => k \in T) => m \in T
  PROVE  0..n \subseteq T
<1> DEFINE U == (0..n) \ T
<1> SUFFICES U = {}
  OBVIOUS
<1> SUFFICES ASSUME U # {} PROVE FALSE
  OBVIOUS
<1>1. U \subseteq Nat
  OBVIOUS
<1>2. PICK m \in U : \A k \in U : m <= k
  <2> HIDE DEF U
  <2> QED
    BY <1>1, LeastNumber
<1>3. \A k \in 0..n : k < m => k \in T
  <2> SUFFICES ASSUME NEW k \in 0..n, k < m, k \notin T PROVE FALSE
    OBVIOUS
  <2> QED
    BY <1>2
<1> QED
  BY <1>2, <1>3

-----------------------------------------------------------------------------
(* f[i] is the walk from i to the root, oldest first.                      *)
IsWalk(f, prev, n) ==
  f = [i \in 0..n |-> IF i = 0 THEN << >> ELSE Append(f[prev[i]], i)]

(* prev leads every number to a smaller one.                               *)
LeadsDown(prev, n) == \A i \in 1..n : prev[i] \in 0..(i - 1)

(* The recursion is well founded: there are walks.                         *)
LEMMA WalkExists ==
  ASSUME NEW n \in Nat, NEW prev, LeadsDown(prev, n)
  PROVE  \E f : IsWalk(f, prev, n)
<1> DEFINE T == {m \in 0..n : \E f : IsWalk(f, prev, m)}
<1>1. ASSUME NEW m \in 0..n, \A k \in 0..n : k < m => k \in T
      PROVE  m \in T
  <2>1. CASE m = 0
    <3> DEFINE f == [i \in 0..0 |-> << >>]
    <3>1. IsWalk(f, prev, 0)
      BY DEF IsWalk
    <3> QED
      BY <2>1, <3>1
  <2>2. CASE m # 0
    <3>1. m - 1 \in 0..n /\ m - 1 < m /\ m \in 1..n
      BY <2>2
    <3>2. PICK f : IsWalk(f, prev, m - 1)
      BY <1>1, <3>1
    <3> DEFINE g == [i \in 0..m |-> IF i = m THEN Append(f[prev[m]], m) ELSE f[i]]
    <3>3. \A i \in 1..m : prev[i] \in 0..(i - 1) /\ prev[i] \in 0..m /\ prev[i] # m
      BY <3>1 DEF LeadsDown
    <3>4. \A i \in 0..(m - 1) : f[i] = IF i = 0 THEN << >> ELSE Append(f[prev[i]], i)
      BY <3>2 DEF IsWalk
    <3>5. \A i \in 1..m : g[prev[i]] = f[prev[i]]
      BY <3>3
    <3>6. ASSUME NEW i \in 0..m
          PROVE  g[i] = IF i = 0 THEN << >> ELSE Append(g[prev[i]], i)
      <4>1. CASE i = m
        <5>1. g[m] = Append(f[prev[m]], m) /\ g[prev[m]] = f[prev[m]]
          BY <3>1, <3>5
        <5> HIDE DEF g
        <5> QED
          BY <2>2, <4>1, <5>1
      <4>2. CASE i # m
        <5>1. i \in 0..(m - 1) /\ (i # 0 => i \in 1..m) /\ g[i] = f[i]
          BY <4>2
        <5> HIDE DEF g
        <5> QED
          BY <3>4, <3>5, <5>1
      <4> QED
        BY <4>1, <4>2
    <3>7. g = [i \in 0..m |-> IF i = 0 THEN << >> ELSE Append(g[prev[i]], i)]
      <4>1. g = [i \in 0..m |-> g[i]]
        OBVIOUS
      <4> HIDE DEF g
      <4> QED
        BY <3>6, <4>1
    <3>8. IsWalk(g, prev, m)
      <4> HIDE DEF g
      <4> QED
        BY <3>7 DEF IsWalk
    <3> QED
      BY <3>8
  <2> QED
    BY <2>1, <2>2
<1>2. 0..n \subseteq T
  <2> HIDE DEF T
  <2> QED
    BY <1>1, AllNumbers
<1> QED
  BY <1>2

LEMMA WalkStep ==
  ASSUME NEW n \in Nat, NEW prev, NEW f, IsWalk(f, prev, n)
  PROVE  /\ f[0] = << >>
         /\ \A i \in 1..n : f[i] = Append(f[prev[i]], i)
<1>1. 0 \in 0..n /\ \A i \in 1..n : i \in 0..n /\ i # 0
  OBVIOUS
<1> QED
  BY <1>1 DEF IsWalk

(* A list in which each member leads to the one before it is the walk from *)
(* its last.                                                               *)
LEMMA WalkFollows ==
  ASSUME NEW n \in Nat, NEW prev, NEW f, IsWalk(f, prev, n),
         NEW s \in Seq(1..n),
         \A i \in 1..Len(s) : prev[s[i]] = IF i = 1 THEN 0 ELSE s[i - 1]
  PROVE  f[IF s = << >> THEN 0 ELSE s[Len(s)]] = s
<1> DEFINE T == {m \in 0..Len(s) : f[IF m = 0 THEN 0 ELSE s[m]] = SubSeq(s, 1, m)}
<1>1. Len(s) \in Nat
  OBVIOUS
<1>2. ASSUME NEW m \in 0..Len(s), \A k \in 0..Len(s) : k < m => k \in T
      PROVE  m \in T
  <2>1. CASE m = 0
    <3>1. SubSeq(s, 1, 0) = << >>
      OBVIOUS
    <3> QED
      BY <2>1, <3>1, WalkStep
  <2>2. CASE m # 0
    <3>1. m - 1 \in 0..Len(s) /\ m - 1 < m /\ m \in 1..Len(s) /\ s[m] \in 1..n
      BY <2>2
    <3>2. f[IF m - 1 = 0 THEN 0 ELSE s[m - 1]] = SubSeq(s, 1, m - 1)
      BY <1>2, <3>1
    <3>3. prev[s[m]] = IF m - 1 = 0 THEN 0 ELSE s[m - 1]
      BY <3>1
    <3>4. f[s[m]] = Append(SubSeq(s, 1, m - 1), s[m])
      <4>1. f[s[m]] = Append(f[prev[s[m]]], s[m])
        <5>1. \A i \in 1..n : f[i] = Append(f[prev[i]], i)
          BY WalkStep
        <5> QED
          BY ONLY <3>1, <5>1
      <4> QED
        BY <3>2, <3>3, <4>1
    <3>5. SubSeq(s, 1, m) = Append(SubSeq(s, 1, m - 1), s[m])
      BY <3>1
    <3> QED
      BY <2>2, <3>4, <3>5
  <2> QED
    BY <2>1, <2>2
<1>3. Len(s) \in T
  <2> HIDE DEF T
  <2>1. 0..Len(s) \subseteq T
    BY <1>1, <1>2, AllNumbers
  <2>2. Len(s) \in 0..Len(s)
    BY <1>1
  <2> QED
    BY ONLY <2>1, <2>2
<1>4. SubSeq(s, 1, Len(s)) = s /\ (s = << >> <=> Len(s) = 0)
  OBVIOUS
<1> QED
  BY <1>3, <1>4

(* A walk is a list of numbers that grow up to the one it starts from.     *)
LEMMA WalkType ==
  ASSUME NEW n \in Nat, NEW prev, LeadsDown(prev, n), NEW f, IsWalk(f, prev, n)
  PROVE  \A i \in 0..n : /\ f[i] \in Seq(1..i)
                         /\ i # 0 => Len(f[i]) # 0 /\ f[i][Len(f[i])] = i
<1> DEFINE P(m) == /\ f[m] \in Seq(1..m)
                   /\ m # 0 => Len(f[m]) # 0 /\ f[m][Len(f[m])] = m
           T == {m \in 0..n : P(m)}
<1>1. ASSUME NEW m \in 0..n, \A k \in 0..n : k < m => P(k)
      PROVE  P(m)
  <2>1. CASE m = 0
    <3>1. f[m] = << >>
      BY <2>1, WalkStep
    <3> QED
      BY <2>1, <3>1
  <2>2. CASE m # 0
    <3>1. m \in 1..n
      BY <2>2
    <3>2. prev[m] \in 0..(m - 1)
      BY <3>1 DEF LeadsDown
    <3>3. prev[m] \in 0..n /\ prev[m] < m /\ 1..prev[m] \subseteq 1..m
      BY <3>1, <3>2
    <3>4. f[prev[m]] \in Seq(1..prev[m])
      <4>1. P(prev[m])
        <5> HIDE DEF P
        <5> QED
          BY <1>1, <3>3
      <4> QED
        BY <4>1
    <3>5. f[prev[m]] \in Seq(1..m)
      BY <3>3, <3>4, SeqDef
    <3>6. f[m] = Append(f[prev[m]], m)
      <4>1. \A i \in 1..n : f[i] = Append(f[prev[i]], i)
        BY WalkStep
      <4> QED
        BY ONLY <3>1, <4>1
    <3>7. m \in 1..m
      BY <3>1
    <3> DEFINE s == f[prev[m]]
    <3> HIDE DEF s
    <3>8. Append(s, m) \in Seq(1..m) /\ Len(Append(s, m)) = Len(s) + 1 /\ Len(s) \in Nat
          /\ Append(s, m)[Len(s) + 1] = m
      BY <3>5, <3>7, AppendProperties, LenProperties DEF s
    <3>9. f[m] = Append(s, m)
      BY <3>6 DEF s
    <3> QED
      BY <3>8, <3>9
  <2> QED
    BY <2>1, <2>2
<1> HIDE DEF P
<1>2. \A m \in 0..n : (\A k \in 0..n : k < m => k \in T) => m \in T
  BY <1>1
<1>3. 0..n \subseteq T
  <2> HIDE DEF T
  <2> QED
    BY <1>2, AllNumbers
<1>4. \A i \in 0..n : P(i)
  BY <1>3
<1> QED
  BY <1>4 DEF P

(* What a walk passes on its way is the walk from there.                   *)
LEMMA WalkPrefix ==
  ASSUME NEW n \in Nat, NEW prev, LeadsDown(prev, n), NEW f, IsWalk(f, prev, n)
  PROVE  \A i \in 0..n : \A j \in 1..Len(f[i]) : f[f[i][j]] = SubSeq(f[i], 1, j)
<1> DEFINE T == {m \in 0..n : \A j \in 1..Len(f[m]) : f[f[m][j]] = SubSeq(f[m], 1, j)}
<1>0. \A i \in 0..n : f[i] \in Seq(1..i)
  BY WalkType
<1>1. ASSUME NEW m \in 0..n, \A k \in 0..n : k < m => k \in T
      PROVE  m \in T
  <2>1. CASE m = 0
    BY <2>1, WalkStep
  <2>2. CASE m # 0
    <3>1. m \in 1..n
      BY <2>2
    <3>2. prev[m] \in 0..n /\ prev[m] < m
      BY <3>1 DEF LeadsDown
    <3> DEFINE s == f[prev[m]]
    <3>3. \A j \in 1..Len(s) : f[s[j]] = SubSeq(s, 1, j)
      BY <1>1, <3>2
    <3>4. f[m] = Append(s, m)
      <4>1. \A i \in 1..n : f[i] = Append(f[prev[i]], i)
        BY WalkStep
      <4> QED
        BY ONLY <3>1, <4>1
    <3>5. s \in Seq(Nat)
      <4>1. 1..prev[m] \subseteq Nat
        OBVIOUS
      <4> QED
        BY <1>0, <3>2, <4>1, SeqDef
    <3> HIDE DEF s
    <3>6. /\ Len(s) \in Nat /\ Len(Append(s, m)) = Len(s) + 1
          /\ \A j \in 1..Len(s) : Append(s, m)[j] = s[j] /\ SubSeq(Append(s, m), 1, j) = SubSeq(s, 1, j)
          /\ Append(s, m)[Len(s) + 1] = m
          /\ SubSeq(Append(s, m), 1, Len(s) + 1) = Append(s, m)
      BY <3>5
    <3>7. ASSUME NEW j \in 1..Len(f[m]) PROVE f[f[m][j]] = SubSeq(f[m], 1, j)
      <4>1. CASE j = Len(s) + 1
        BY <3>4, <3>6, <4>1
      <4>2. CASE j # Len(s) + 1
        <5>1. j \in 1..Len(s)
          BY <3>4, <3>6, <4>2
        <5> QED
          BY <3>3, <3>4, <3>6, <5>1
      <4> QED
        BY <4>1, <4>2
    <3> QED
      BY <3>7
  <2> QED
    BY <2>1, <2>2
<1>2. 0..n \subseteq T
  <2> HIDE DEF T
  <2> QED
    BY <1>1, AllNumbers
<1> QED
  BY <1>2

(* Links that are added leave the walks that were there as they were.      *)
LEMMA WalkStays ==
  ASSUME NEW m \in Nat, NEW n \in Nat, m <= n,
         NEW prev, LeadsDown(prev, m), NEW f, IsWalk(f, prev, m),
         NEW later, NEW g, IsWalk(g, later, n),
         \A i \in 1..m : later[i] = prev[i]
  PROVE  \A i \in 0..m : g[i] = f[i]
<1> DEFINE T == {k \in 0..m : g[k] = f[k]}
<1>1. ASSUME NEW k \in 0..m, \A j \in 0..m : j < k => j \in T
      PROVE  k \in T
  <2>1. CASE k = 0
    BY <2>1, WalkStep
  <2>2. CASE k # 0
    <3>1. k \in 1..m /\ k \in 1..n
      BY <2>2
    <3>2. prev[k] \in 0..m /\ prev[k] < k /\ later[k] = prev[k]
      BY <3>1 DEF LeadsDown
    <3>3. g[prev[k]] = f[prev[k]]
      BY <1>1, <3>2
    <3>4. \A i \in 1..m : f[i] = Append(f[prev[i]], i)
      BY WalkStep
    <3>5. \A i \in 1..n : g[i] = Append(g[later[i]], i)
      BY ONLY WalkStep, n \in Nat, IsWalk(g, later, n)
    <3>6. f[k] = Append(f[prev[k]], k) /\ g[k] = Append(g[later[k]], k)
      BY ONLY <3>1, <3>4, <3>5
    <3> QED
      BY <3>2, <3>3, <3>6
  <2> QED
    BY <2>1, <2>2
<1>2. 0..m \subseteq T
  <2> HIDE DEF T
  <2> QED
    BY <1>1, AllNumbers
<1> QED
  BY <1>2
-----------------------------------------------------------------------------
(***************************************************************************)
(* Walks over fufu-prev, newest first, in a store of operations.           *)
(***************************************************************************)

(* Each operation names an older one, or none.                             *)
Older(st) == Len(st) \in Nat /\ \A k \in 1..Len(st) : st[k].prev \in 0..(k - 1)

DescentIn(st, id) ==
  LET chain[i \in 0..Len(st)] == IF i = 0 THEN << >> ELSE <<i>> \o chain[st[i].prev]
  IN chain[id]

(* The operations at and below i.                                          *)
Reached(st, i) == ToSet(DescentIn(st, i))

LEMMA ToSetIs == ASSUME NEW s PROVE ToSet(s) = {s[i] : i \in DOMAIN s}
  BY DEF ToSet

IsDescent(f, st, n) == f = [i \in 0..n |-> IF i = 0 THEN << >> ELSE <<i>> \o f[st[i].prev]]

LEMMA DescentExists ==
  ASSUME NEW st, NEW n \in Nat, \A k \in 1..n : st[k].prev \in 0..(k - 1)
  PROVE  \E f : IsDescent(f, st, n)
<1> DEFINE T == {m \in 0..n : \E f : IsDescent(f, st, m)}
<1>1. ASSUME NEW m \in 0..n, \A k \in 0..n : k < m => k \in T
      PROVE  m \in T
  <2>1. CASE m = 0
    <3> DEFINE f == [i \in 0..0 |-> << >>]
    <3>1. IsDescent(f, st, 0)
      BY DEF IsDescent
    <3> QED
      BY <2>1, <3>1
  <2>2. CASE m # 0
    <3>1. m - 1 \in 0..n /\ m - 1 < m /\ m \in 1..n
      BY <2>2
    <3>2. PICK f : IsDescent(f, st, m - 1)
      BY <1>1, <3>1
    <3> DEFINE g == [i \in 0..m |-> IF i = m THEN <<m>> \o f[st[m].prev] ELSE f[i]]
    <3>3. \A i \in 1..m : st[i].prev \in 0..(i - 1) /\ st[i].prev \in 0..m /\ st[i].prev # m
      BY <3>1
    <3>4. \A i \in 0..(m - 1) : f[i] = IF i = 0 THEN << >> ELSE <<i>> \o f[st[i].prev]
      BY <3>2 DEF IsDescent
    <3>5. \A i \in 1..m : g[st[i].prev] = f[st[i].prev]
      BY <3>3
    <3>6. ASSUME NEW i \in 0..m
          PROVE  g[i] = IF i = 0 THEN << >> ELSE <<i>> \o g[st[i].prev]
      <4>1. CASE i = m
        <5>1. g[m] = <<m>> \o f[st[m].prev] /\ g[st[m].prev] = f[st[m].prev]
          BY <3>1, <3>5
        <5> HIDE DEF g
        <5> QED
          BY <2>2, <4>1, <5>1
      <4>2. CASE i # m
        <5>1. i \in 0..(m - 1) /\ (i # 0 => i \in 1..m) /\ g[i] = f[i]
          BY <4>2
        <5> HIDE DEF g
        <5> QED
          BY <3>4, <3>5, <5>1
      <4> QED
        BY <4>1, <4>2
    <3>7. g = [i \in 0..m |-> IF i = 0 THEN << >> ELSE <<i>> \o g[st[i].prev]]
      <4>1. g = [i \in 0..m |-> g[i]]
        OBVIOUS
      <4> HIDE DEF g
      <4> QED
        BY <3>6, <4>1
    <3>8. IsDescent(g, st, m)
      <4> HIDE DEF g
      <4> QED
        BY <3>7 DEF IsDescent
    <3> QED
      BY <3>8
  <2> QED
    BY <2>1, <2>2
<1>2. 0..n \subseteq T
  <2> HIDE DEF T
  <2> QED
    BY <1>1, AllNumbers
<1> QED
  BY <1>2

LEMMA DescentDef ==
  ASSUME NEW st, Older(st)
  PROVE  /\ Len(st) \in Nat
         /\ DescentIn(st, 0) = << >>
         /\ \A i \in 1..Len(st) : DescentIn(st, i) = <<i>> \o DescentIn(st, st[i].prev)
<1> DEFINE n == Len(st)
           chain[i \in 0..Len(st)] == IF i = 0 THEN << >> ELSE <<i>> \o chain[st[i].prev]
<1>1. n \in Nat /\ \A k \in 1..n : st[k].prev \in 0..(k - 1)
  BY DEF Older
<1>2. \E f : IsDescent(f, st, n)
  <2> HIDE DEF n
  <2> QED
    BY <1>1, DescentExists
<1>3. chain = [i \in 0..n |-> IF i = 0 THEN << >> ELSE <<i>> \o chain[st[i].prev]]
  BY <1>2 DEF IsDescent
<1>4. \A i : DescentIn(st, i) = chain[i]
  BY DEF DescentIn
<1> HIDE DEF chain
<1>5. /\ chain[0] = << >>
      /\ \A i \in 1..n : chain[i] = <<i>> \o chain[st[i].prev]
  <2>1. 0 \in 0..n /\ \A i \in 1..n : i \in 0..n /\ i # 0
    BY <1>1
  <2> HIDE DEF n
  <2> QED
    BY <1>3, <2>1
<1> QED
  BY <1>1, <1>4, <1>5

(* What a number put before a list makes of it.                            *)
LEMMA ConsFacts ==
  ASSUME NEW S, NEW s \in Seq(S), NEW e \in S
  PROVE  /\ <<e>> \o s \in Seq(S) /\ Len(s) \in Nat /\ Len(<<e>> \o s) = Len(s) + 1
         /\ (<<e>> \o s)[1] = e
         /\ \A k \in 1..Len(s) : (<<e>> \o s)[k + 1] = s[k]
         /\ ToSet(<<e>> \o s) = {e} \cup ToSet(s)
<1> DEFINE t == <<e>> \o s
<1>1. /\ t \in Seq(S) /\ Len(s) \in Nat /\ Len(t) = Len(s) + 1
      /\ t[1] = e
      /\ \A k \in 1..Len(s) : t[k + 1] = s[k]
  OBVIOUS
<1> HIDE DEF t
<1>2. DOMAIN t = 1..(Len(s) + 1) /\ DOMAIN s = 1..Len(s)
  BY <1>1
<1>3. ASSUME NEW x PROVE x \in ToSet(t) <=> x \in {e} \cup ToSet(s)
  <2>1. x \in ToSet(t) <=> \E k \in 1..(Len(s) + 1) : t[k] = x
    BY <1>2, ToSetIs
  <2>2. x \in ToSet(s) <=> \E k \in 1..Len(s) : s[k] = x
    BY <1>2, ToSetIs
  <2>3. ASSUME NEW k \in 1..(Len(s) + 1), t[k] = x PROVE x = e \/ \E j \in 1..Len(s) : s[j] = x
    <3>1. CASE k = 1
      BY <1>1, <2>3, <3>1
    <3>2. CASE k # 1
      <4>1. k - 1 \in 1..Len(s) /\ k = (k - 1) + 1
        BY <1>1, <3>2
      <4>2. s[k - 1] = x
        BY <1>1, <2>3, <4>1
      <4> QED
        BY <4>1, <4>2
    <3> QED
      BY <3>1, <3>2
  <2>4. e = x => \E k \in 1..(Len(s) + 1) : t[k] = x
    <3>1. 1 \in 1..(Len(s) + 1)
      BY <1>1
    <3> QED
      BY <1>1, <3>1
  <2>5. ASSUME NEW j \in 1..Len(s), s[j] = x PROVE \E k \in 1..(Len(s) + 1) : t[k] = x
    <3>1. j + 1 \in 1..(Len(s) + 1) /\ t[j + 1] = x
      BY <1>1, <2>5
    <3> QED
      BY <3>1
  <2> QED
    BY <2>1, <2>2, <2>3, <2>4, <2>5
<1>4. ToSet(t) = {e} \cup ToSet(s)
  BY <1>3
<1> QED
  BY <1>1, <1>4 DEF t

(* A walk goes down from the operation it starts at.                       *)
Descends(s) == \A j, k \in 1..Len(s) : j < k => s[k] < s[j]

LEMMA DescentFacts ==
  ASSUME NEW st, Older(st)
  PROVE  \A i \in 0..Len(st) : /\ DescentIn(st, i) \in Seq(1..i)
                               /\ Descends(DescentIn(st, i))
<1> DEFINE n == Len(st)
           P(m) == DescentIn(st, m) \in Seq(1..m) /\ Descends(DescentIn(st, m))
           T == {m \in 0..n : P(m)}
<1>0. n \in Nat /\ \A k \in 1..n : st[k].prev \in 0..(k - 1)
  BY DEF Older
<1>1. ASSUME NEW m \in 0..n, \A k \in 0..n : k < m => P(k)
      PROVE  P(m)
  <2>1. CASE m = 0
    <3>1. DescentIn(st, m) = << >>
      BY <2>1, DescentDef
    <3>2. << >> \in Seq(1..m) /\ Descends(<< >>)
      BY DEF Descends
    <3> QED
      BY <3>1, <3>2
  <2>2. CASE m # 0
    <3> DEFINE p == st[m].prev
               s == DescentIn(st, p)
    <3>1. m \in 1..n /\ m \in 1..m
      BY <1>0, <2>2
    <3>2. p \in 0..(m - 1) /\ p \in 0..n /\ p < m
      BY <1>0, <3>1
    <3>3. P(p)
      <4> HIDE DEF P, p
      <4> QED
        BY <1>1, <3>2
    <3>4. s \in Seq(1..p) /\ Descends(s)
      BY <3>3
    <3>5. DescentIn(st, m) = <<m>> \o s
      BY <3>1, DescentDef
    <3> HIDE DEF s
    <3>6. s \in Seq(1..m)
      <4>1. 1..p \subseteq 1..m
        BY <3>2
      <4> QED
        BY <3>4, <4>1, SeqMonotone
    <3> DEFINE t == <<m>> \o s
    <3>7. /\ t \in Seq(1..m) /\ Len(s) \in Nat /\ Len(t) = Len(s) + 1
          /\ t[1] = m /\ \A k \in 1..Len(s) : t[k + 1] = s[k]
      BY <3>1, <3>6, ConsFacts
    <3> HIDE DEF t, p
    <3>8. ASSUME NEW j \in 1..Len(t), NEW k \in 1..Len(t), j < k PROVE t[k] < t[j]
      <4>1. k - 1 \in 1..Len(s) /\ k = (k - 1) + 1
        BY <3>7, <3>8
      <4>2. t[k] = s[k - 1]
        BY <3>7, <4>1
      <4>3. CASE j = 1
        <5>1. s[k - 1] \in 1..p
          BY <3>4, <4>1, ElementOfSeq
        <5> QED
          BY <3>2, <3>7, <4>2, <4>3, <5>1
      <4>4. CASE j # 1
        <5>1. j - 1 \in 1..Len(s) /\ j = (j - 1) + 1 /\ j - 1 < k - 1
          BY <3>7, <3>8, <4>4
        <5>2. t[j] = s[j - 1]
          BY <3>7, <5>1
        <5> QED
          BY <3>4, <4>1, <4>2, <5>1, <5>2 DEF Descends
      <4> QED
        BY <4>3, <4>4
    <3>9. Descends(t)
      BY <3>8 DEF Descends
    <3> QED
      BY <3>5, <3>7, <3>9 DEF t
  <2> QED
    BY <1>0, <2>1, <2>2
<1> HIDE DEF P
<1>2. \A m \in 0..n : (\A k \in 0..n : k < m => k \in T) => m \in T
  BY <1>1
<1>3. 0..n \subseteq T
  <2> HIDE DEF T
  <2> QED
    BY <1>0, <1>2, AllNumbers
<1>4. \A i \in 0..n : P(i)
  BY <1>3
<1> QED
  BY <1>4 DEF P

(* What lies below an operation of a walk is the rest of the walk.         *)
LEMMA ReachedFacts ==
  ASSUME NEW st, Older(st)
  PROVE  /\ Reached(st, 0) = {}
         /\ \A i \in 1..Len(st) : Reached(st, i) = {i} \cup Reached(st, st[i].prev)
         /\ \A i \in 0..Len(st) : /\ Reached(st, i) \subseteq 1..i
                                  /\ \A j \in Reached(st, i) : Reached(st, j) = Reached(st, i) \cap 1..j
<1> DEFINE n == Len(st)
           Q(m) == \A j \in Reached(st, m) : Reached(st, j) = Reached(st, m) \cap 1..j
           T == {m \in 0..n : Q(m)}
<1>0. n \in Nat /\ \A k \in 1..n : st[k].prev \in 0..(k - 1)
  BY DEF Older
<1>1. Reached(st, 0) = {}
  <2>1. ToSet(<< >>) = {}
    BY ToSetIs
  <2> QED
    BY <2>1, DescentDef DEF Reached
<1>2. ASSUME NEW i \in 1..n PROVE Reached(st, i) = {i} \cup Reached(st, st[i].prev)
  <2> DEFINE s == DescentIn(st, st[i].prev)
  <2>1. st[i].prev \in 0..n /\ 1..st[i].prev \subseteq 1..n /\ i \in 1..n
    BY <1>0
  <2>2. s \in Seq(1..n)
    <3>1. s \in Seq(1..st[i].prev)
      BY <2>1, DescentFacts
    <3> HIDE DEF s
    <3> QED
      BY ONLY <2>1, <3>1, SeqMonotone
  <2>3. DescentIn(st, i) = <<i>> \o s
    BY DescentDef
  <2> HIDE DEF s
  <2>4. ToSet(<<i>> \o s) = {i} \cup ToSet(s)
    BY <2>1, <2>2, ConsFacts
  <2> QED
    BY <2>3, <2>4 DEF Reached, s
<1>3. ASSUME NEW i \in 0..n PROVE Reached(st, i) \subseteq 1..i
  <2>1. DescentIn(st, i) \in Seq(1..i)
    BY DescentFacts
  <2> QED
    BY <2>1, ToSetIs DEF Reached
<1>4. ASSUME NEW m \in 0..n, \A k \in 0..n : k < m => Q(k)
      PROVE  Q(m)
  <2>1. CASE m = 0
    BY <1>1, <2>1
  <2>2. CASE m # 0
    <3> DEFINE p == st[m].prev
    <3>1. m \in 1..n /\ p \in 0..n /\ p < m
      <4>1. m \in 1..n
        BY <1>0, <2>2
      <4> QED
        BY <1>0, <4>1
    <3>2. Q(p)
      <4> HIDE DEF Q, p
      <4> QED
        BY <1>4, <3>1
    <3>3. Reached(st, m) = {m} \cup Reached(st, p)
      BY <1>2, <3>1
    <3>4. Reached(st, m) \subseteq 1..m /\ Reached(st, p) \subseteq 1..p
      BY <1>3, <3>1
    <3> HIDE DEF p
    <3>5. ASSUME NEW j \in Reached(st, m) PROVE Reached(st, j) = Reached(st, m) \cap 1..j
      <4>1. CASE j = m
        BY <3>4, <4>1
      <4>2. CASE j # m
        <5>1. j \in Reached(st, p) /\ Reached(st, j) = Reached(st, p) \cap 1..j /\ m \notin 1..j
          <6>1. j \in Reached(st, p) /\ j \in 1..p
            BY <3>3, <3>4, <4>2
          <6>2. m \notin 1..j
            BY <3>1, <6>1
          <6> QED
            BY <3>2, <6>1, <6>2
        <5> QED
          BY <3>3, <5>1
      <4> QED
        BY <4>1, <4>2
    <3> QED
      BY <3>5
  <2> QED
    BY <2>1, <2>2
<1> HIDE DEF Q
<1>5. \A m \in 0..n : (\A k \in 0..n : k < m => k \in T) => m \in T
  BY <1>4
<1>6. 0..n \subseteq T
  <2> HIDE DEF T
  <2> QED
    BY <1>0, <1>5, AllNumbers
<1>7. \A i \in 0..n : Q(i)
  BY <1>6
<1> QED
  BY <1>1, <1>2, <1>3, <1>7 DEF Q

(* Operations that are added leave the walks that were there as they were. *)
LEMMA DescentStays ==
  ASSUME NEW st, Older(st), NEW su, Older(su), Len(st) <= Len(su),
         \A k \in 1..Len(st) : su[k].prev = st[k].prev
  PROVE  \A i \in 0..Len(st) : DescentIn(su, i) = DescentIn(st, i) /\ Reached(su, i) = Reached(st, i)
<1> DEFINE n == Len(st)
           T == {i \in 0..n : DescentIn(su, i) = DescentIn(st, i)}
<1>1. n \in Nat /\ Len(su) \in Nat /\ n <= Len(su) /\ \A k \in 1..n : st[k].prev \in 0..(k - 1)
  BY DEF Older
<1>2. ASSUME NEW m \in 0..n, \A k \in 0..n : k < m => k \in T
      PROVE  m \in T
  <2>1. CASE m = 0
    BY <2>1, DescentDef
  <2>2. CASE m # 0
    <3> DEFINE p == st[m].prev
    <3>1. m \in 1..n /\ m \in 1..Len(su)
      BY <1>1, <2>2
    <3>2. p \in 0..n /\ p < m /\ su[m].prev = p
      BY <1>1, <3>1
    <3>3. DescentIn(su, p) = DescentIn(st, p)
      BY <1>2, <3>2
    <3>4. DescentIn(st, m) = <<m>> \o DescentIn(st, p)
      BY <3>1, DescentDef
    <3>5. DescentIn(su, m) = <<m>> \o DescentIn(su, p)
      BY <3>1, <3>2, DescentDef
    <3> QED
      BY <3>3, <3>4, <3>5
  <2> QED
    BY <2>1, <2>2
<1>3. 0..n \subseteq T
  <2> HIDE DEF T
  <2> QED
    BY <1>1, <1>2, AllNumbers
<1> QED
  BY <1>3 DEF Reached

-----------------------------------------------------------------------------
(***************************************************************************)
(* The least and the greatest of a set, as the code's folds find them.     *)
(***************************************************************************)

LEMMA MinIs ==
  ASSUME NEW n \in Nat, NEW T, T \subseteq 1..n, T # {}
  PROVE  Min(T) \in T /\ \A k \in T : Min(T) <= k
<1>1. T \subseteq Nat
  OBVIOUS
<1>2. \E m \in T : \A k \in T : m <= k
  BY <1>1, LeastNumber
<1> QED
  BY <1>2 DEF Min

LEMMA MaxIs ==
  ASSUME NEW n \in Nat, NEW T, T \subseteq 1..n, T # {}
  PROVE  Max(T) \in T /\ \A k \in T : k <= Max(T)
<1>1. T \subseteq 0..n
  OBVIOUS
<1>2. \E m \in T : \A k \in T : k <= m
  BY <1>1, GreatestNumber
<1>3. \E m \in T : \A k \in T : m >= k
  <2>1. PICK m \in T : \A k \in T : k <= m
    BY <1>2
  <2>2. \A k \in T : m >= k
    BY <2>1
  <2> QED
    BY <2>2
<1>4. Max(T) \in T /\ \A k \in T : Max(T) >= k
  BY <1>3 DEF Max
<1>5. \A k \in T : k <= Max(T)
  BY <1>4
<1> QED
  BY <1>4, <1>5

(* A walk, by its members.                                                 *)
LEMMA DescentMembers ==
  ASSUME NEW st, Older(st), NEW i \in 0..Len(st)
  PROVE  /\ DescentIn(st, i) \in Seq(1..i) /\ Len(DescentIn(st, i)) \in Nat /\ Descends(DescentIn(st, i))
         /\ DOMAIN DescentIn(st, i) = 1..Len(DescentIn(st, i))
         /\ \A k \in 1..Len(DescentIn(st, i)) : DescentIn(st, i)[k] \in 1..i
         /\ \A y : y \in Reached(st, i) <=> \E k \in 1..Len(DescentIn(st, i)) : DescentIn(st, i)[k] = y
<1> DEFINE s == DescentIn(st, i)
<1>1. s \in Seq(1..i) /\ Descends(s)
  BY DescentFacts
<1> HIDE DEF s
<1>2. Len(s) \in Nat /\ DOMAIN s = 1..Len(s) /\ \A k \in 1..Len(s) : s[k] \in 1..i
  BY <1>1, ElementOfSeq
<1>3. \A y : y \in ToSet(s) <=> \E k \in 1..Len(s) : s[k] = y
  BY <1>2, ToSetIs
<1> QED
  BY <1>1, <1>2, <1>3 DEF Reached, s

(* The same, said once of a walk and of the set of its members.            *)
IsWalkDown(s, S, i) ==
  /\ Len(s) \in Nat /\ Descends(s)
  /\ \A k \in 1..Len(s) : s[k] \in 1..i
  /\ \A y : y \in S <=> \E k \in 1..Len(s) : s[k] = y

LEMMA DescentDown ==
  ASSUME NEW st, Older(st), NEW i \in 0..Len(st)
  PROVE  IsWalkDown(DescentIn(st, i), Reached(st, i), i)
  BY DescentMembers DEF IsWalkDown

(* What one list has before it meets another.                              *)
Apart(these, those) ==
  LET shared == {k \in DOMAIN these : these[k] \in ToSet(those)}
  IN SubSeq(these, 1, Min(shared \cup {Len(these) + 1}) - 1)

LEMMA ApartIs ==
  ASSUME NEW st, Older(st), NEW i \in 0..Len(st), NEW j \in 0..Len(st)
  PROVE  LET s == DescentIn(st, i)
             o == Apart(s, DescentIn(st, j))
         IN /\ o \in Seq(1..i) /\ Len(o) \in 0..Len(s) /\ DOMAIN o = 1..Len(o)
            /\ \A k \in 1..Len(o) : o[k] = s[k] /\ s[k] \notin Reached(st, j)
            /\ \A k \in 1..Len(s) : k > Len(o) => s[k] \in Reached(st, j)
<1> DEFINE s == DescentIn(st, i)
           B == Reached(st, j)
           n == Len(s)
           K == {k \in 1..n : s[k] \in B}
           M == Min(K \cup {n + 1})
           o == Apart(s, DescentIn(st, j))
<1>1. /\ s \in Seq(1..i) /\ n \in Nat /\ Descends(s) /\ DOMAIN s = 1..n
      /\ \A k \in 1..n : s[k] \in 1..i
      /\ \A y : y \in Reached(st, i) <=> \E k \in 1..n : s[k] = y
  BY DescentMembers
<1>2. M \in K \cup {n + 1} /\ \A k \in K \cup {n + 1} : M <= k
  <2>1. K \cup {n + 1} \subseteq 1..(n + 1) /\ n + 1 \in Nat
    BY <1>1
  <2> HIDE DEF K, n
  <2> QED
    BY <2>1, MinIs
<1>3. o = SubSeq(s, 1, M - 1)
  BY <1>1 DEF Apart, Reached
<1> HIDE DEF K, M, o, B, n, s
<1>4. M \in 1..(n + 1) /\ M - 1 \in 0..n
  BY <1>1, <1>2 DEF K
<1>5. /\ o \in Seq(1..i) /\ Len(o) = M - 1 /\ DOMAIN o = 1..(M - 1)
      /\ \A k \in 1..(M - 1) : o[k] = s[k]
  BY <1>1, <1>3, <1>4 DEF n
<1>6. ASSUME NEW k \in 1..(M - 1) PROVE s[k] \notin B
  BY <1>1, <1>2, <1>4 DEF K
<1>7. ASSUME NEW k \in 1..n, k > M - 1 PROVE s[k] \in B
  <2>1. M \in K /\ M <= k /\ M \in 1..n /\ s[M] \in B
    BY <1>1, <1>2, <1>4, <1>7 DEF K
  <2>2. s[M] \in Reached(st, i) /\ s[k] \in Reached(st, i)
    BY <1>1, <2>1
  <2>3. s[k] \in 1..s[M]
    <3>1. CASE k = M
      BY <1>1, <2>1, <3>1
    <3>2. CASE k # M
      <4>1. M < k
        BY <1>4, <2>1, <3>2
      <4>2. s[k] < s[M]
        BY <1>1, <2>1, <4>1 DEF Descends, n
      <4> QED
        BY <1>1, <2>1, <4>2
    <3> QED
      BY <3>1, <3>2
  <2>4. Reached(st, s[M]) = Reached(st, i) \cap 1..s[M]
    BY <2>2, ReachedFacts
  <2>5. Reached(st, s[M]) = B \cap 1..s[M]
    BY <2>1, ReachedFacts DEF B
  <2> QED
    BY <2>2, <2>3, <2>4, <2>5
<1> QED
  BY <1>4, <1>5, <1>6, <1>7 DEF s, o, B, n
=============================================================================
