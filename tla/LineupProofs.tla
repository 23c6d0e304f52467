----------------------------- MODULE LineupProofs -----------------------------
(***************************************************************************)
(* Theorems about Lineup and the Stack it extends, for every set of        *)
(* branches, every repository to start from and every budget.              *)
(***************************************************************************)
EXTENDS Lineup, Walks, FiniteSetTheorems

(* What is one commit of a line is a commit, and a line has a length.      *)
LEMMA LineIs ==
  ASSUME NEW l, IsLine(l)
  PROVE  /\ l \in Seq(Commits)
         /\ Len(l) \in Nat
         /\ DOMAIN l = 1..Len(l)
         /\ \A k \in 1..Len(l) : l[k] \in Commits /\ l[k].id \in Nat \ {0}
         /\ \A j, k \in 1..Len(l) : l[j].id = l[k].id => j = k
<1>1. l \in Seq(Commits)
  BY DEF IsLine
<1>2. Len(l) \in Nat /\ DOMAIN l = 1..Len(l) /\ \A k \in 1..Len(l) : l[k] \in Commits
  BY <1>1, LenProperties, ElementOfSeq
<1>3. \A c \in Commits : c.id \in Nat \ {0}
  BY DEF Commits
<1> QED
  BY <1>1, <1>2, <1>3 DEF IsLine

(* The first k commits of a line.                                          *)
LEMMA BelowIs ==
  ASSUME NEW S, NEW l \in Seq(S), NEW k \in 0..Len(l)
  PROVE  /\ Below(l, k) \in Seq(S)
         /\ Len(Below(l, k)) = k
         /\ \A j \in 1..k : Below(l, k)[j] = l[j]
<1>1. Len(l) \in Nat /\ \A j \in 1..Len(l) : l[j] \in S
  BY LenProperties, ElementOfSeq
<1>2. 1 \in Int /\ k \in Int /\ \A j \in 1..k : l[j] \in S
  BY <1>1
<1>3. /\ SubSeq(l, 1, k) \in Seq(S)
      /\ Len(SubSeq(l, 1, k)) = IF 1 <= k THEN k - 1 + 1 ELSE 0
      /\ \A j \in 1..(k - 1 + 1) : SubSeq(l, 1, k)[j] = l[1 + j - 1]
  BY <1>2, SubSeqProperties
<1>4. k - 1 + 1 = k /\ (~(1 <= k) => k = 0) /\ \A j \in 1..k : 1 + j - 1 = j
  BY <1>1
<1> QED
  BY <1>3, <1>4 DEF Below

(* Two lists whose members are the same one after another are one.         *)
LEMMA SameList ==
  ASSUME NEW S, NEW l \in Seq(S), NEW m \in Seq(S), Len(l) = Len(m),
         \A j \in 1..Len(l) : l[j] = m[j]
  PROVE  l = m
  BY SeqEqual

LEMMA BelowLine ==
  ASSUME NEW l, IsLine(l), NEW k \in 0..Len(l)
  PROVE  /\ IsLine(Below(l, k))
         /\ Len(Below(l, k)) = k
         /\ \A j \in 1..k : Below(l, k)[j] = l[j]
         /\ Ids(Below(l, k)) = {l[j].id : j \in 1..k}
         /\ Ids(Below(l, k)) \subseteq Ids(l)
<1> DEFINE m == Below(l, k)
<1>1. m \in Seq(Commits) /\ Len(m) = k /\ \A j \in 1..k : m[j] = l[j]
  BY LineIs, BelowIs
<1>2. DOMAIN m = 1..k
  BY <1>1, LenProperties
<1>3. \A j \in 1..k : j \in 1..Len(l)
  BY LineIs
<1> HIDE DEF m
<1>4. IsLine(m)
  BY <1>1, <1>2, <1>3, LineIs DEF IsLine
<1>5. Ids(m) = {l[j].id : j \in 1..k}
  BY <1>1, <1>2 DEF Ids
<1>6. Ids(m) \subseteq Ids(l)
  BY <1>3, <1>5, LineIs DEF Ids
<1> QED
  BY <1>1, <1>4, <1>5, <1>6 DEF m

-----------------------------------------------------------------------------
(***************************************************************************)
(* How far two lines are one.                                              *)
(***************************************************************************)

LEMMA LargestIs ==
  ASSUME NEW n \in Nat, NEW S, S \subseteq 0..n, S # {}
  PROVE  Max(S) \in S /\ \A k \in S : k <= Max(S)
<1>1. \E m \in S : \A k \in S : k <= m
  BY GreatestNumber
<1>2. \E m \in S : \A k \in S : m >= k
  <2>1. PICK m \in S : \A k \in S : k <= m
    BY <1>1
  <2>2. \A k \in S : m >= k
    BY <2>1
  <2> QED
    BY <2>2
<1> DEFINE g == Max(S)
<1>3. g \in S /\ \A k \in S : g >= k
  BY <1>2 DEF Max
<1> HIDE DEF g
<1>4. \A k \in S : k <= g
  BY <1>3
<1> QED
  BY <1>3, <1>4 DEF g

LEMMA MeetIs ==
  ASSUME NEW l, NEW m, IsLine(l), IsLine(m)
  PROVE  /\ Meet(l, m) \in 0..Len(l)
         /\ Meet(l, m) \in 0..Len(m)
         /\ Below(l, Meet(l, m)) = Below(m, Meet(l, m))
         /\ \A k \in 0..Len(l) : k \in 0..Len(m) /\ Below(l, k) = Below(m, k) => k <= Meet(l, m)
<1> DEFINE n == Min({Len(l), Len(m)})
           T == {k \in 0..n : Below(l, k) = Below(m, k)}
<1>1. Len(l) \in Nat /\ Len(m) \in Nat
  BY LineIs
<1>2. n \in {Len(l), Len(m)} /\ n <= Len(l) /\ n <= Len(m)
  <2>1. \E x \in {Len(l), Len(m)} : \A y \in {Len(l), Len(m)} : x =< y
    <3>1. CASE Len(l) <= Len(m)
      BY <1>1, <3>1
    <3>2. CASE Len(m) <= Len(l)
      BY <1>1, <3>2
    <3> QED
      BY <1>1, <3>1, <3>2
  <2> QED
    BY <2>1, Zenon DEF Min
<1>3. 0 \in T
  <2>1. Len(Below(l, 0)) = 0 /\ Len(Below(m, 0)) = 0 /\ Below(l, 0) \in Seq(Commits) /\ Below(m, 0) \in Seq(Commits)
    BY <1>1, LineIs, BelowIs
  <2>2. Below(l, 0) = <<>> /\ Below(m, 0) = <<>>
    BY <2>1, EmptySeq
  <2> QED
    BY <1>1, <1>2, <2>2
<1>4. n \in Nat /\ T \subseteq 0..n
  BY <1>1, <1>2
<1>5. Max(T) \in T /\ \A k \in T : k <= Max(T)
  <2> HIDE DEF T, n
  <2>1. T # {}
    BY <1>3
  <2> QED
    BY <1>4, <2>1, LargestIs
<1>6. Meet(l, m) = Max(T)
  BY DEF Meet
<1>7. \A k \in 0..Len(l) : k \in 0..Len(m) => k \in 0..n
  BY <1>1, <1>2
<1> HIDE DEF n
<1> QED
  BY <1>1, <1>2, <1>5, <1>6, <1>7

(* A position both a line and another agree below.                         *)
SharedUpTo(l, m, k) == k \in 0..Len(l) /\ k \in 0..Len(m) /\ Below(l, k) = Below(m, k)

LEMMA SharedIds ==
  ASSUME NEW l, NEW m, IsLine(l), IsLine(m), NEW k, SharedUpTo(l, m, k)
  PROVE  \A j \in 1..k : l[j] = m[j] /\ j \in 1..Len(l) /\ j \in 1..Len(m) /\ l[j].id \in Ids(m)
<1>1. k \in 0..Len(l) /\ k \in 0..Len(m) /\ Below(l, k) = Below(m, k)
  BY DEF SharedUpTo
<1>2. /\ \A j \in 1..k : Below(l, k)[j] = l[j]
      /\ \A j \in 1..k : Below(m, k)[j] = m[j]
  BY <1>1, BelowLine
<1>3. Len(l) \in Nat /\ Len(m) \in Nat /\ DOMAIN m = 1..Len(m)
  BY LineIs
<1>4. \A j \in 1..k : l[j] = m[j] /\ j \in 1..Len(l) /\ j \in 1..Len(m)
  BY <1>1, <1>2, <1>3
<1> QED
  BY <1>3, <1>4 DEF Ids

LEMMA MeetShared ==
  ASSUME NEW l, NEW m, IsLine(l), IsLine(m)
  PROVE  SharedUpTo(l, m, Meet(l, m))
  BY MeetIs DEF SharedUpTo

(* A line has forked from one its base has stood on.                       *)
LEMMA ForkedFromIs ==
  ASSUME NEW tip, NEW onto, NEW places, IsLine(tip), IsLine(onto), \A l \in places : IsLine(l)
  PROVE  /\ ForkedFrom(tip, onto, places) \in 0..Len(tip)
         /\ \E l \in places \cup {onto} : SharedUpTo(tip, l, ForkedFrom(tip, onto, places))
<1> DEFINE T == {Meet(tip, l) : l \in {onto} \cup (places \ {tip})}
<1>1. \A l \in {onto} \cup (places \ {tip}) : IsLine(l)
  OBVIOUS
<1>2. T \subseteq 0..Len(tip) /\ Meet(tip, onto) \in T /\ Len(tip) \in Nat
  <2>1. \A l \in {onto} \cup (places \ {tip}) : Meet(tip, l) \in 0..Len(tip)
    BY <1>1, MeetIs
  <2> QED
    BY <2>1, LineIs
<1>3. Max(T) \in T
  <2> HIDE DEF T
  <2> QED
    BY <1>2, LargestIs
<1>4. ForkedFrom(tip, onto, places) = Max(T)
  BY DEF ForkedFrom
<1>5. PICK l \in {onto} \cup (places \ {tip}) : Max(T) = Meet(tip, l)
  BY <1>3
<1>6. SharedUpTo(tip, l, Max(T))
  BY <1>1, <1>5, MeetShared
<1> HIDE DEF T
<1> QED
  BY <1>2, <1>3, <1>4, <1>5, <1>6

LEMMA BoundaryIs ==
  ASSUME NEW tip, NEW old, NEW new, IsLine(tip), IsLine(old), IsLine(new)
  PROVE  /\ Boundary(tip, old, new) \in 0..Len(tip)
         /\ \E l \in {old, new} : SharedUpTo(tip, l, Boundary(tip, old, new))
         /\ Meet(tip, new) <= Boundary(tip, old, new)
<1> DEFINE T == {Meet(tip, old), Meet(tip, new)}
<1>1. T \subseteq 0..Len(tip) /\ Meet(tip, old) \in T /\ Len(tip) \in Nat
  BY MeetIs, LineIs
<1>2. Max(T) \in T /\ \A k \in T : k <= Max(T)
  <2> HIDE DEF T
  <2> QED
    BY <1>1, LargestIs
<1>3. Boundary(tip, old, new) = Max(T)
  BY DEF Boundary
<1>4. SharedUpTo(tip, old, Meet(tip, old)) /\ SharedUpTo(tip, new, Meet(tip, new))
  BY MeetShared
<1>5. \E l \in {old, new} : SharedUpTo(tip, l, Max(T))
  BY <1>2, <1>4
<1>6. Meet(tip, new) <= Max(T)
  BY <1>2
<1> HIDE DEF T
<1> QED
  BY <1>1, <1>2, <1>3, <1>5, <1>6

(* A line within another holds nothing else.                               *)
LEMMA WithinIs ==
  ASSUME NEW l, NEW m, IsLine(l), IsLine(m)
  PROVE  /\ Within(l, m) <=> Len(l) <= Len(m) /\ \A j \in 1..Len(l) : l[j] = m[j]
         /\ Within(l, m) => Ids(l) \subseteq Ids(m)
         /\ Within(l, m) => SharedUpTo(l, m, Len(l))
<1>1. /\ l \in Seq(Commits) /\ Len(l) \in Nat /\ m \in Seq(Commits) /\ Len(m) \in Nat
      /\ DOMAIN l = 1..Len(l) /\ DOMAIN m = 1..Len(m)
  BY LineIs
<1>2. /\ Below(l, Len(l)) \in Seq(Commits) /\ Len(Below(l, Len(l))) = Len(l)
      /\ \A j \in 1..Len(l) : Below(l, Len(l))[j] = l[j]
  <2>1. Len(l) \in 0..Len(l)
    BY <1>1
  <2> QED
    BY <1>1, <2>1, BelowIs
<1>3. CASE Len(l) <= Len(m)
  <2>1. /\ Below(m, Len(l)) \in Seq(Commits) /\ Len(Below(m, Len(l))) = Len(l)
        /\ \A j \in 1..Len(l) : Below(m, Len(l))[j] = m[j]
    <3>1. Len(l) \in 0..Len(m)
      BY <1>1, <1>3
    <3> QED
      BY <1>1, <3>1, BelowIs
  <2>2. Below(l, Len(l)) = Below(m, Len(l)) <=> \A j \in 1..Len(l) : l[j] = m[j]
    <3>1. Below(l, Len(l)) = Below(m, Len(l)) => \A j \in 1..Len(l) : l[j] = m[j]
      BY <1>2, <2>1
    <3>2. (\A j \in 1..Len(l) : l[j] = m[j]) => Below(l, Len(l)) = Below(m, Len(l))
      BY <1>2, <2>1, SameList
    <3> QED
      BY <3>1, <3>2
  <2>3. Within(l, m) <=> Below(l, Len(l)) = Below(m, Len(l))
    BY <1>3 DEF Within, IsPrefix, Below
  <2>4. Within(l, m) => SharedUpTo(l, m, Len(l))
    BY <1>1, <1>3, <2>3 DEF SharedUpTo
  <2>5. Within(l, m) => Ids(l) \subseteq Ids(m)
    BY <1>1, <2>4, SharedIds DEF Ids
  <2> QED
    BY <1>3, <2>2, <2>3, <2>4, <2>5
<1>4. CASE ~(Len(l) <= Len(m))
  BY <1>4 DEF Within, IsPrefix
<1> QED
  BY <1>3, <1>4

LEMMA WithinItself == ASSUME NEW l, IsLine(l) PROVE Within(l, l)
  BY WithinIs, LineIs

LEMMA WithinThrough ==
  ASSUME NEW l, NEW m, NEW n, IsLine(l), IsLine(m), IsLine(n), Within(l, m), Within(m, n)
  PROVE  Within(l, n)
<1>1. /\ Len(l) <= Len(m) /\ \A j \in 1..Len(l) : l[j] = m[j]
      /\ Len(m) <= Len(n) /\ \A j \in 1..Len(m) : m[j] = n[j]
  BY WithinIs
<1>2. Len(l) \in Nat /\ Len(m) \in Nat /\ Len(n) \in Nat
  BY LineIs
<1>3. Len(l) <= Len(n) /\ \A j \in 1..Len(l) : j \in 1..Len(m)
  BY <1>1, <1>2
<1>4. \A j \in 1..Len(l) : l[j] = n[j]
  BY <1>1, <1>3
<1> QED
  BY <1>3, <1>4, WithinIs

-----------------------------------------------------------------------------
(***************************************************************************)
(* The replay.                                                             *)
(***************************************************************************)

(* What a replay has made of the first of its commits.                     *)
IsReplay(f, old, from, onto, answered, n) ==
  f = [i \in 0..n |-> IF i = 0 THEN [line |-> onto, clean |-> TRUE] ELSE ReplayOne(old, from, onto, answered, f[i - 1], from + i)]

LEMMA ReplayExists ==
  ASSUME NEW old, NEW from, NEW onto, NEW answered, NEW n \in Nat
  PROVE  \E f : IsReplay(f, old, from, onto, answered, n)
<1> DEFINE T == {m \in 0..n : \E f : IsReplay(f, old, from, onto, answered, m)}
<1>1. ASSUME NEW m \in 0..n, \A k \in 0..n : k < m => k \in T
      PROVE  m \in T
  <2>1. CASE m = 0
    <3> DEFINE f == [i \in 0..0 |-> [line |-> onto, clean |-> TRUE]]
    <3>1. \A i \in 0..0 : i = 0
      OBVIOUS
    <3>2. f = [i \in 0..0 |-> IF i = 0 THEN [line |-> onto, clean |-> TRUE] ELSE ReplayOne(old, from, onto, answered, f[i - 1], from + i)]
      BY <3>1, Zenon
    <3>3. IsReplay(f, old, from, onto, answered, 0)
      BY <3>2 DEF IsReplay
    <3> QED
      BY <2>1, <3>3
  <2>2. CASE m # 0
    <3>1. m - 1 \in 0..n /\ m - 1 < m /\ m \in 1..n
      BY <2>2
    <3>2. PICK f : IsReplay(f, old, from, onto, answered, m - 1)
      BY <1>1, <3>1
    <3> DEFINE last == ReplayOne(old, from, onto, answered, f[m - 1], from + m)
               g == [i \in 0..m |-> IF i = m THEN last ELSE f[i]]
    <3>3. \A i \in 0..(m - 1) : f[i] = IF i = 0 THEN [line |-> onto, clean |-> TRUE] ELSE ReplayOne(old, from, onto, answered, f[i - 1], from + i)
      BY <3>2, Zenon DEF IsReplay
    <3>4. \A i \in 1..m : i - 1 \in 0..m /\ i - 1 # m /\ g[i - 1] = f[i - 1]
      <4> HIDE DEF last
      <4> QED
        BY <3>1
    <3>5. ASSUME NEW i \in 0..m
          PROVE  g[i] = IF i = 0 THEN [line |-> onto, clean |-> TRUE] ELSE ReplayOne(old, from, onto, answered, g[i - 1], from + i)
      <4>1. CASE i = m
        <5>1. g[m] = last /\ g[m - 1] = f[m - 1]
          <6> HIDE DEF last
          <6> QED
            BY <3>1, <3>4
        <5> HIDE DEF g
        <5> QED
          BY <2>2, <4>1, <5>1
      <4>2. CASE i # m
        <5>1. i \in 0..(m - 1) /\ (i # 0 => i \in 1..m) /\ g[i] = f[i]
          <6> HIDE DEF last
          <6> QED
            BY <4>2
        <5> HIDE DEF g
        <5> QED
          BY <3>3, <3>4, <5>1
      <4> QED
        BY <4>1, <4>2
    <3>6. g = [i \in 0..m |-> IF i = 0 THEN [line |-> onto, clean |-> TRUE] ELSE ReplayOne(old, from, onto, answered, g[i - 1], from + i)]
      <4>1. g = [i \in 0..m |-> g[i]]
        <5> HIDE DEF last
        <5> QED
          OBVIOUS
      <4> HIDE DEF g
      <4> QED
        BY <3>5, <4>1, Zenon
    <3>7. IsReplay(g, old, from, onto, answered, m)
      <4> HIDE DEF g
      <4> QED
        BY <3>6, Zenon DEF IsReplay
    <3> QED
      BY <3>7
  <2> QED
    BY <2>1, <2>2
<1>2. 0..n \subseteq T
  <2> HIDE DEF T
  <2> QED
    BY <1>1, AllNumbers
<1> QED
  BY <1>2

(* f is what a replay of n commits has made of `onto' after each of them.  *)
ReplaysBy(f, old, from, onto, answered, n) ==
  /\ Replay(old, from, onto, answered) = f[n]
  /\ f[0] = [line |-> onto, clean |-> TRUE]
  /\ \A i \in 1..n : f[i] = ReplayOne(old, from, onto, answered, f[i - 1], from + i)

LEMMA ReplayDef ==
  ASSUME NEW old, NEW from, NEW onto, NEW answered, Len(old) \in Nat, from \in 0..Len(old)
  PROVE  \E f : ReplaysBy(f, old, from, onto, answered, Len(old) - from)
<1> DEFINE f == CHOOSE g : IsReplay(g, old, from, onto, answered, (Len(old) - from))
<1>1. (Len(old) - from) \in Nat
  OBVIOUS
<1>2. IsReplay(f, old, from, onto, answered, (Len(old) - from))
  BY <1>1, ReplayExists
<1>3. Replay(old, from, onto, answered) = f[(Len(old) - from)]
  BY Zenon DEF Replay, IsReplay
<1>4. 0 \in 0..(Len(old) - from) /\ \A i \in 1..(Len(old) - from) : i \in 0..(Len(old) - from) /\ i # 0
  BY <1>1
<1>5. \A i \in 0..(Len(old) - from) : f[i] = IF i = 0 THEN [line |-> onto, clean |-> TRUE] ELSE ReplayOne(old, from, onto, answered, f[i - 1], from + i)
  <2> HIDE DEF f
  <2> QED
    BY <1>2, Zenon DEF IsReplay
<1>6. f[0] = [line |-> onto, clean |-> TRUE] /\ \A i \in 1..(Len(old) - from) : f[i] = ReplayOne(old, from, onto, answered, f[i - 1], from + i)
  <2> HIDE DEF f
  <2> QED
    BY <1>4, <1>5, Zenon
<1> HIDE DEF f
<1>7. ReplaysBy(f, old, from, onto, answered, Len(old) - from)
  BY <1>3, <1>6 DEF ReplaysBy
<1> QED
  BY <1>7

(* A change a line does not have can be put on its end.                    *)
LEMMA LineAppend ==
  ASSUME NEW l, IsLine(l), NEW c \in Commits, c.id \notin Ids(l)
  PROVE  /\ IsLine(Append(l, c))
         /\ Len(Append(l, c)) = Len(l) + 1
         /\ Append(l, c)[Len(l) + 1] = c
         /\ Ids(Append(l, c)) = Ids(l) \cup {c.id}
         /\ Within(l, Append(l, c))
<1> DEFINE m == Append(l, c)
           n == Len(l)
<1>1. l \in Seq(Commits) /\ n \in Nat /\ DOMAIN l = 1..n /\ \A j, k \in 1..n : l[j].id = l[k].id => j = k
  BY LineIs
<1>2. m \in Seq(Commits) /\ Len(m) = n + 1 /\ (\A j \in 1..n : m[j] = l[j]) /\ m[n + 1] = c
  BY <1>1, AppendProperties
<1>3. DOMAIN m = 1..(n + 1)
  BY <1>2, LenProperties
<1>4. \A j \in 1..n : l[j].id # c.id
  BY <1>1 DEF Ids
<1> HIDE DEF m
<1>5. ASSUME NEW j \in 1..(n + 1), NEW k \in 1..(n + 1), m[j].id = m[k].id
      PROVE  j = k
  <2>1. (j \in 1..n \/ j = n + 1) /\ (k \in 1..n \/ k = n + 1)
    BY <1>1
  <2> QED
    BY <1>1, <1>2, <1>4, <1>5, <2>1
<1>6. IsLine(m)
  BY <1>2, <1>3, <1>5 DEF IsLine
<1>7. Ids(m) = Ids(l) \cup {c.id}
  <2>1. 1..(n + 1) = (1..n) \cup {n + 1}
    BY <1>1
  <2> QED
    BY <1>1, <1>2, <1>3, <2>1 DEF Ids
<1>8. Within(l, m)
  <2>1. n <= n + 1
    BY <1>1
  <2> QED
    BY <1>2, <1>6, <2>1, WithinIs
<1> QED
  BY <1>2, <1>6, <1>7, <1>8 DEF m

(* What a path holds was written by a commit of the line, or by none.      *)
LEMMA TextIs ==
  ASSUME NEW l, IsLine(l), NEW path, NEW c \in Commits, Text(l, path) = <<c.id, c.text>>
  PROVE  c.id \in Ids(l)
<1> DEFINE by == {k \in DOMAIN l : l[k].path = path}
<1>1. c.id # 0 /\ DOMAIN l = 1..Len(l) /\ Len(l) \in Nat
  BY LineIs DEF Commits
<1>2. CASE by = {}
  <2>1. Text(l, path) = <<0, 0>>
    BY <1>2 DEF Text, NoText
  <2> QED
    BY <1>1, <2>1
<1>3. CASE by # {}
  <2>1. Max(by) \in by
    <3>1. by \subseteq 0..Len(l)
      BY <1>1
    <3> HIDE DEF by
    <3> QED
      BY <1>1, <1>3, <3>1, LargestIs
  <2>2. Text(l, path) = <<l[Max(by)].id, l[Max(by)].text>>
    BY <1>3 DEF Text
  <2>3. Max(by) \in DOMAIN l
    BY <2>1
  <2> HIDE DEF by
  <2> QED
    BY <2>2, <2>3 DEF Ids
<1> QED
  BY <1>2, <1>3

(* A change of the range that the new base has not superseded is nowhere on*)
(* it: where the range and the base are one the range has other changes.   *)
LEMMA NotSuperseded ==
  ASSUME NEW old, NEW onto, IsLine(old), IsLine(onto), NEW from \in 0..Len(old),
         NEW j \in (from + 1)..Len(old), ~Superseded(old, from, onto, old[j].id)
  PROVE  old[j].id \notin Ids(onto)
<1> DEFINE m == Meet(Below(old, from), onto)
           above == SubSeq(onto, m + 1, Len(onto))
<1>1. /\ Len(old) \in Nat /\ Len(onto) \in Nat /\ DOMAIN onto = 1..Len(onto) /\ onto \in Seq(Commits)
      /\ \A i, k \in 1..Len(old) : old[i].id = old[k].id => i = k
  BY LineIs
<1>2. IsLine(Below(old, from)) /\ Len(Below(old, from)) = from /\ \A i \in 1..from : Below(old, from)[i] = old[i]
  BY BelowLine
<1>3. m \in 0..from /\ m \in 0..Len(onto) /\ \A i \in 1..m : Below(old, from)[i] = onto[i]
  BY <1>2, MeetIs, MeetShared, SharedIds
<1>4. Len(above) = Len(onto) - m /\ above \in Seq(Commits) /\ \A i \in 1..(Len(onto) - m) : above[i] = onto[m + i]
  <2> HIDE DEF m
  <2> QED
    BY <1>1, <1>3, SeqEnd
<1>5. old[j].id \notin Ids(above)
  BY DEF Superseded
<1>6. DOMAIN above = 1..(Len(onto) - m)
  <2> HIDE DEF above
  <2> QED
    BY <1>4, LenProperties
<1> HIDE DEF m, above
<1>7. ASSUME NEW i \in 1..Len(onto), onto[i].id = old[j].id PROVE FALSE
  <2>1. CASE i <= m
    <3>1. i \in 1..m /\ i \in 1..from /\ i \in 1..Len(old) /\ j \in 1..Len(old) /\ i # j
      BY <1>1, <1>3, <2>1
    <3>2. onto[i] = old[i]
      BY <1>2, <1>3, <3>1
    <3> QED
      BY <1>1, <1>7, <3>1, <3>2
  <2>2. CASE ~(i <= m)
    <3>1. i - m \in 1..(Len(onto) - m) /\ m + (i - m) = i
      BY <1>1, <1>3, <2>2
    <3>2. above[i - m] = onto[i]
      BY <1>4, <3>1
    <3> QED
      BY <1>5, <1>6, <1>7, <3>1, <3>2 DEF Ids
  <2> QED
    BY <2>1, <2>2
<1> QED
  BY <1>1, <1>7 DEF Ids

(* What is superseded is on the new base.                                  *)
LEMMA SupersededIs ==
  ASSUME NEW old, NEW onto, IsLine(old), IsLine(onto), NEW from \in 0..Len(old),
         NEW id, Superseded(old, from, onto, id)
  PROVE  id \in Ids(onto)
<1> DEFINE m == Meet(Below(old, from), onto)
           above == SubSeq(onto, m + 1, Len(onto))
<1>1. IsLine(Below(old, from)) /\ onto \in Seq(Commits) /\ Len(onto) \in Nat /\ DOMAIN onto = 1..Len(onto)
  BY BelowLine, LineIs
<1>2. m \in 0..Len(onto)
  BY <1>1, MeetIs
<1>3. Len(above) = Len(onto) - m /\ above \in Seq(Commits) /\ \A i \in 1..(Len(onto) - m) : above[i] = onto[m + i]
  <2> HIDE DEF m
  <2> QED
    BY <1>1, <1>2, SeqEnd
<1>4. id \in Ids(above)
  BY DEF Superseded
<1> HIDE DEF m, above
<1>5. DOMAIN above = 1..(Len(onto) - m)
  BY <1>3, LenProperties
<1>6. \A i \in 1..(Len(onto) - m) : m + i \in 1..Len(onto)
  BY <1>1, <1>2
<1> QED
  BY <1>1, <1>3, <1>4, <1>5, <1>6 DEF Ids

(* What a replay has after its first k commits.                            *)
ReplayedTo(old, from, onto, answered, k, a) ==
  /\ a \in [line : Seq(Commits), clean : BOOLEAN]
  /\ IsLine(a.line) /\ Within(onto, a.line)
  /\ Ids(a.line) \subseteq Ids(onto) \cup {old[j].id : j \in (from + 1)..(from + k)}
  /\ a.clean \/ answered => \A j \in (from + 1)..(from + k) : old[j].id \in Ids(a.line)

LEMMA ReplayOneKeeps ==
  ASSUME NEW old, NEW onto, IsLine(old), IsLine(onto), NEW from \in 0..Len(old),
         NEW answered \in BOOLEAN, NEW k \in 1..(Len(old) - from), NEW a,
         ReplayedTo(old, from, onto, answered, k - 1, a)
  PROVE  ReplayedTo(old, from, onto, answered, k, ReplayOne(old, from, onto, answered, a, from + k))
<1> DEFINE j == from + k
           c == old[j]
           base == Text(Below(old, j - 1), c.path)
           ours == Text(a.line, c.path)
           asks == base # ours
           d == [c EXCEPT !.text = @ + 1]
           z == ReplayOne(old, from, onto, answered, a, j)
           added == [a EXCEPT !.line = Append(@, d), !.clean = FALSE]
           stops == [a EXCEPT !.clean = FALSE]
           takes == [a EXCEPT !.line = Append(@, c)]
<1>1. /\ Len(old) \in Nat /\ j \in (from + 1)..Len(old) /\ j \in 1..Len(old) /\ j \in Nat
      /\ \A i \in 1..Len(old) : old[i] \in Commits
      /\ \A i, m \in 1..Len(old) : old[i].id = old[m].id => i = m
  BY LineIs
<1>2. /\ a \in [line : Seq(Commits), clean : BOOLEAN]
      /\ IsLine(a.line) /\ Within(onto, a.line)
      /\ Ids(a.line) \subseteq Ids(onto) \cup {old[i].id : i \in (from + 1)..(from + (k - 1))}
      /\ a.clean \/ answered => \A i \in (from + 1)..(from + (k - 1)) : old[i].id \in Ids(a.line)
  BY DEF ReplayedTo
<1>3. /\ \A i \in (from + 1)..(from + (k - 1)) : i \in 1..Len(old) /\ i # j /\ i \in (from + 1)..(from + k)
      /\ \A i \in (from + 1)..(from + k) : i = j \/ i \in (from + 1)..(from + (k - 1))
      /\ j \in (from + 1)..(from + k)
  BY <1>1
<1>4. c \in Commits /\ c.id = old[j].id
  BY <1>1
<1>5. d \in Commits /\ d.id = c.id
  BY <1>4 DEF Commits
<1> DEFINE drop == Superseded(old, from, onto, c.id) \/ ours = <<c.id, c.text>>
<1>6. /\ drop => z = a
      /\ ~drop /\ asks /\ answered => z = added
      /\ ~drop /\ asks /\ ~answered => z = stops
      /\ ~drop /\ ~asks => z = takes
  <2> HIDE DEF asks
  <2>1. z = IF drop THEN a ELSE IF ~asks THEN takes ELSE IF answered THEN added ELSE stops
    BY Zenon DEF ReplayOne, asks
  <2> HIDE DEF drop, z, added, stops, takes
  <2>2. drop => z = a
    BY <2>1
  <2>3. ~drop /\ asks /\ answered => z = added
    BY <2>1
  <2>4. ~drop /\ asks /\ ~answered => z = stops
    BY <2>1
  <2>5. ~drop /\ ~asks => z = takes
    BY <2>1
  <2> QED
    BY <2>2, <2>3, <2>4, <2>5
<1>7. Superseded(old, from, onto, c.id) => c.id \in Ids(onto)
  BY SupersededIs
<1>8. Ids(onto) \subseteq Ids(a.line)
  BY <1>2, WithinIs
<1>9. ours = <<c.id, c.text>> => c.id \in Ids(a.line)
  BY <1>2, <1>4, TextIs
<1>10. ~drop => c.id \notin Ids(a.line)
  <2>1. ~drop => c.id \notin Ids(onto)
    BY <1>1, NotSuperseded
  <2>2. c.id \notin {old[i].id : i \in (from + 1)..(from + (k - 1))}
    BY <1>1, <1>3, <1>4
  <2> HIDE DEF drop
  <2> QED
    BY <1>2, <2>1, <2>2
<1> HIDE DEF z, c, d, asks, ours
<1>11. ASSUME drop PROVE ReplayedTo(old, from, onto, answered, k, a)
  <2>1. c.id \in Ids(a.line)
    BY <1>7, <1>8, <1>9, <1>11
  <2>2. Ids(a.line) \subseteq Ids(onto) \cup {old[i].id : i \in (from + 1)..(from + k)}
    BY <1>2, <1>3
  <2>3. a.clean \/ answered => \A i \in (from + 1)..(from + k) : old[i].id \in Ids(a.line)
    BY <1>2, <1>3, <1>4, <2>1
  <2> QED
    BY <1>2, <2>2, <2>3 DEF ReplayedTo
<1>12. ASSUME NEW e \in {c, d}, NEW q \in [line : Seq(Commits), clean : BOOLEAN], ~drop,
              q.line = Append(a.line, e), answered \/ q.clean = a.clean
       PROVE  ReplayedTo(old, from, onto, answered, k, q)
  <2>1. e \in Commits /\ e.id = c.id /\ e.id \notin Ids(a.line)
    BY <1>4, <1>5, <1>10, <1>12
  <2>2. /\ IsLine(q.line) /\ Ids(q.line) = Ids(a.line) \cup {c.id} /\ Within(a.line, q.line)
    BY <1>2, <1>12, <2>1, LineAppend
  <2>3. Within(onto, q.line)
    BY <1>2, <2>2, WithinThrough
  <2>4. Ids(q.line) \subseteq Ids(onto) \cup {old[i].id : i \in (from + 1)..(from + k)}
    BY <1>2, <1>3, <1>4, <2>2
  <2>5. q.clean \/ answered => \A i \in (from + 1)..(from + k) : old[i].id \in Ids(q.line)
    BY <1>2, <1>3, <1>4, <1>12, <2>2
  <2> QED
    BY <1>12, <2>2, <2>3, <2>4, <2>5 DEF ReplayedTo
<1>13. a.line \in Seq(Commits) /\ \A e \in Commits : Append(a.line, e) \in Seq(Commits)
  BY <1>2, AppendProperties
<1>14. /\ added \in [line : Seq(Commits), clean : BOOLEAN] /\ added.line = Append(a.line, d)
       /\ takes \in [line : Seq(Commits), clean : BOOLEAN] /\ takes.line = Append(a.line, c) /\ takes.clean = a.clean
       /\ stops \in [line : Seq(Commits), clean : BOOLEAN] /\ stops.line = a.line /\ stops.clean = FALSE
  BY <1>2, <1>4, <1>5, <1>13
<1> HIDE DEF added, takes, stops, drop
<1>15. ASSUME ~drop, asks, ~answered PROVE ReplayedTo(old, from, onto, answered, k, stops)
  BY <1>2, <1>3, <1>14, <1>15 DEF ReplayedTo
<1>16. ReplayedTo(old, from, onto, answered, k, z)
  BY <1>6, <1>11, <1>12, <1>14, <1>15
<1> QED
  BY <1>16 DEF z

(* A replay onto a line is that line with nothing twice on top of it: it   *)
(* holds no change that was on neither, and, unless it stopped, each of the*)
(* changes it was asked to bring.                                          *)
LEMMA ReplayIs ==
  ASSUME NEW old, NEW onto, IsLine(old), IsLine(onto), NEW from \in 0..Len(old),
         NEW answered \in BOOLEAN
  PROVE  LET done == Replay(old, from, onto, answered)
         IN /\ IsLine(done.line) /\ Within(onto, done.line)
            /\ Ids(onto) \subseteq Ids(done.line)
            /\ Ids(done.line) \subseteq Ids(onto) \cup Ids(old)
            /\ done.clean \/ answered => \A j \in (from + 1)..Len(old) : old[j].id \in Ids(done.line)
<1> DEFINE n == Len(old) - from
<1>1. Len(old) \in Nat /\ DOMAIN old = 1..Len(old) /\ n \in Nat /\ from + n = Len(old) /\ onto \in Seq(Commits)
  BY LineIs
<1>2. PICK f : /\ Replay(old, from, onto, answered) = f[n]
               /\ f[0] = [line |-> onto, clean |-> TRUE]
               /\ \A i \in 1..n : f[i] = ReplayOne(old, from, onto, answered, f[i - 1], from + i)
  <2>1. \E f : ReplaysBy(f, old, from, onto, answered, Len(old) - from)
    BY <1>1, ReplayDef
  <2> QED
    BY <2>1 DEF ReplaysBy
<1> HIDE DEF n
<1> DEFINE T == {m \in 0..n : ReplayedTo(old, from, onto, answered, m, f[m])}
<1>3. ASSUME NEW m \in 0..n, \A k \in 0..n : k < m => k \in T
      PROVE  m \in T
  <2>1. CASE m = 0
    <3>1. (from + 1)..(from + 0) = {}
      BY <1>1
    <3>2. f[0] \in [line : Seq(Commits), clean : BOOLEAN] /\ f[0].line = onto
      BY <1>1, <1>2
    <3>3. ReplayedTo(old, from, onto, answered, 0, f[0])
      BY <3>1, <3>2, WithinItself DEF ReplayedTo
    <3> QED
      BY <2>1, <3>3
  <2>2. CASE m # 0
    <3>1. m - 1 \in 0..n /\ m - 1 < m /\ m \in 1..n
      BY <1>1, <2>2
    <3>2. ReplayedTo(old, from, onto, answered, m - 1, f[m - 1])
      BY <1>3, <3>1
    <3>3. ReplayedTo(old, from, onto, answered, m, ReplayOne(old, from, onto, answered, f[m - 1], from + m))
      BY <3>1, <3>2, ReplayOneKeeps DEF n
    <3> QED
      BY <1>2, <3>1, <3>3
  <2> QED
    BY <2>1, <2>2
<1>4. 0..n \subseteq T
  <2> HIDE DEF T
  <2> QED
    BY <1>1, <1>3, AllNumbers
<1> DEFINE done == f[n]
<1>5. ReplayedTo(old, from, onto, answered, n, done)
  BY <1>1, <1>4
<1> HIDE DEF T, done
<1>6. /\ IsLine(done.line) /\ Within(onto, done.line)
      /\ Ids(done.line) \subseteq Ids(onto) \cup {old[j].id : j \in (from + 1)..Len(old)}
      /\ done.clean \/ answered => \A j \in (from + 1)..Len(old) : old[j].id \in Ids(done.line)
  BY <1>1, <1>5 DEF ReplayedTo
<1>7. \A j \in (from + 1)..Len(old) : old[j].id \in Ids(old)
  <2>1. \A j \in (from + 1)..Len(old) : j \in 1..Len(old)
    BY <1>1
  <2> QED
    BY <1>1, <2>1 DEF Ids
<1>8. Ids(onto) \subseteq Ids(done.line)
  BY <1>6, WithinIs
<1>9. Replay(old, from, onto, answered) = done
  BY <1>2 DEF done
<1> QED
  BY <1>6, <1>7, <1>8, <1>9

(* What a replay takes off a line is what the line shares with a line its  *)
(* range was taken from, or what the new base has.                         *)
LEMMA ReplayTakes ==
  ASSUME NEW old, NEW onto, NEW from \in 0..Len(old), NEW answered \in BOOLEAN, NEW l,
         IsLine(old), IsLine(onto), IsLine(l), SharedUpTo(old, l, from),
         Replay(old, from, onto, answered).clean \/ answered
  PROVE  Ids(old) \ Ids(Replay(old, from, onto, answered).line) \subseteq Ids(l)
<1> DEFINE d == Replay(old, from, onto, answered).line
<1>1. \A j \in (from + 1)..Len(old) : old[j].id \in Ids(d)
  BY ReplayIs
<1>2. \A j \in 1..from : old[j].id \in Ids(l)
  BY SharedIds
<1>3. DOMAIN old = 1..Len(old) /\ Len(old) \in Nat
  BY LineIs
<1> HIDE DEF d
<1>4. \A j \in 1..Len(old) : j \in 1..from \/ j \in (from + 1)..Len(old)
  BY <1>3
<1>5. Ids(old) \ Ids(d) \subseteq Ids(l)
  BY <1>1, <1>2, <1>3, <1>4 DEF Ids
<1> QED
  BY <1>5 DEF d

(* The replay has no reader's answers.                                     *)
Unanswered(answered) == ~answered

(* A line rewritten from one of its commits up has the same changes in the *)
(* same places.                                                            *)
Rewrote(old, n, a) == a.clean => Len(a.line) = n /\ \A j \in 1..n : a.line[j].id = old[j].id

LEMMA RewrittenIs ==
  ASSUME NEW old, NEW onto, IsLine(old), IsLine(onto), NEW from \in 0..Len(old),
         NEW answered \in BOOLEAN, Unanswered(answered), Len(onto) = from, \A j \in 1..from : onto[j].id = old[j].id
  PROVE  Rewrote(old, Len(old), Replay(old, from, onto, answered))
<1> DEFINE n == Len(old) - from
<1>1. /\ Len(old) \in Nat /\ n \in Nat /\ from + n = Len(old) /\ onto \in Seq(Commits) /\ from \in Nat
      /\ DOMAIN onto = 1..from /\ \A i, k \in 1..Len(old) : old[i].id = old[k].id => i = k
      /\ \A i \in 1..Len(old) : old[i] \in Commits
  BY LineIs
<1>2. PICK f : /\ Replay(old, from, onto, answered) = f[n]
               /\ f[0] = [line |-> onto, clean |-> TRUE]
               /\ \A i \in 1..n : f[i] = ReplayOne(old, from, onto, answered, f[i - 1], from + i)
  <2>1. \E f : ReplaysBy(f, old, from, onto, answered, Len(old) - from)
    BY <1>1, ReplayDef
  <2> QED
    BY <2>1 DEF ReplaysBy
<1> HIDE DEF n
<1> DEFINE OK(m) == ReplayedTo(old, from, onto, answered, m, f[m]) /\ Rewrote(old, from + m, f[m])
           T == {m \in 0..n : OK(m)}
<1>3. ASSUME NEW m \in 0..n, \A k \in 0..n : k < m => k \in T
      PROVE  m \in T
  <2>1. CASE m = 0
    <3>1. (from + 1)..(from + 0) = {} /\ from + 0 = from
      BY <1>1
    <3>2. f[0] \in [line : Seq(Commits), clean : BOOLEAN] /\ f[0].line = onto
      BY <1>1, <1>2
    <3>3. ReplayedTo(old, from, onto, answered, 0, f[0])
      BY <3>1, <3>2, WithinItself DEF ReplayedTo
    <3>4. Rewrote(old, from + 0, f[0])
      BY <3>1, <3>2 DEF Rewrote
    <3> QED
      BY <2>1, <3>3, <3>4
  <2>2. CASE m # 0
    <3>1. m - 1 \in 0..n /\ m - 1 < m /\ m \in 1..n
      BY <1>1, <2>2
    <3>2. OK(m - 1)
      BY <1>3, <3>1
    <3> DEFINE a == f[m - 1]
               c == old[from + m]
               z == ReplayOne(old, from, onto, answered, a, from + m)
    <3>3. ReplayedTo(old, from, onto, answered, m - 1, a) /\ Rewrote(old, from + (m - 1), a)
      BY <3>2
    <3>4. f[m] = z /\ ReplayedTo(old, from, onto, answered, m, z)
      <4>1. ReplayedTo(old, from, onto, answered, m, z)
        BY <3>1, <3>3, ReplayOneKeeps DEF n
      <4> QED
        BY <1>2, <3>1, <4>1
    <3> HIDE DEF OK, a
    <3>5. from + m \in 1..Len(old) /\ c \in Commits /\ \A j \in 1..(from + (m - 1)) : j \in 1..Len(old) /\ j # from + m
      BY <1>1, <3>1
    <3>6. a \in [line : Seq(Commits), clean : BOOLEAN] /\ IsLine(a.line)
      BY <3>3 DEF ReplayedTo
    <3>7. ASSUME z.clean PROVE Rewrote(old, from + m, z)
      <4> DEFINE base == Text(Below(old, (from + m) - 1), c.path)
                 ours == Text(a.line, c.path)
                 asks == base # ours
                 drop == Superseded(old, from, onto, c.id) \/ ours = <<c.id, c.text>>
                 added == [a EXCEPT !.line = Append(@, [c EXCEPT !.text = @ + 1]), !.clean = FALSE]
                 stops == [a EXCEPT !.clean = FALSE]
                 takes == [a EXCEPT !.line = Append(@, c)]
      <4>1. z = IF drop THEN a ELSE IF ~asks THEN takes ELSE IF answered THEN added ELSE stops
        <5> HIDE DEF asks
        <5> QED
          BY Zenon DEF ReplayOne, asks
      <4>2. stops.clean = FALSE /\ takes.line = Append(a.line, c) /\ takes.clean = a.clean
        BY <3>6
      <4> HIDE DEF drop, base, ours, asks, z, stops, takes, added
      <4>3. (z = a /\ drop) \/ z = takes
        BY <3>7, <4>1, <4>2 DEF Unanswered
      <4>4. a.clean
        BY <3>7, <4>2, <4>3
      <4>5. Len(a.line) = from + (m - 1) /\ \A j \in 1..(from + (m - 1)) : a.line[j].id = old[j].id
        BY <3>3, <4>4 DEF Rewrote
      <4>6. c.id \notin Ids(a.line)
        <5>1. DOMAIN a.line = 1..(from + (m - 1))
          BY <3>6, <4>5, LineIs
        <5> QED
          BY <1>1, <3>5, <4>5, <5>1 DEF Ids
      <4>7. Ids(onto) \subseteq Ids(a.line)
        BY <3>3, WithinIs DEF ReplayedTo
      <4>8. ~drop
        BY <3>5, <3>6, <4>6, <4>7, SupersededIs, TextIs DEF drop, ours
      <4>9. z.line = Append(a.line, c)
        BY <4>2, <4>3, <4>8
      <4>10. /\ Len(z.line) = from + (m - 1) + 1
             /\ \A j \in 1..(from + (m - 1)) : z.line[j] = a.line[j]
             /\ z.line[from + (m - 1) + 1] = c
        BY <3>5, <3>6, <4>5, <4>9, AppendProperties
      <4>11. from + (m - 1) + 1 = from + m /\ \A j \in 1..(from + m) : j \in 1..(from + (m - 1)) \/ j = from + m
        BY <1>1, <3>1
      <4> QED
        BY <4>5, <4>10, <4>11 DEF Rewrote
    <3>8. Rewrote(old, from + m, z)
      BY <3>7 DEF Rewrote
    <3>9. OK(m)
      BY <3>4, <3>8 DEF OK
    <3> QED
      BY <3>9
  <2> QED
    BY <2>1, <2>2
<1>4. 0..n \subseteq T
  <2> HIDE DEF T
  <2> QED
    BY <1>1, <1>3, AllNumbers
<1>5. OK(n)
  <2> HIDE DEF OK
  <2> QED
    BY <1>1, <1>4
<1> QED
  BY <1>1, <1>2, <1>5

-----------------------------------------------------------------------------
(***************************************************************************)
(* The cascade.                                                            *)
(***************************************************************************)

(* A line of which every change has been given out.                        *)
Known(l, m) == IsLine(l) /\ \A id \in Ids(l) : id <= m
RepoKnown(r, m) == IsRepo(r) /\ \A b \in Live(r) : Known(r.line[b], m)

LEMMA OverIs ==
  ASSUME NEW f, NEW g
  PROVE  /\ DOMAIN Over(f, g) = DOMAIN f \cup DOMAIN g
         /\ \A x \in DOMAIN f : Over(f, g)[x] = f[x]
         /\ \A x \in DOMAIN g \ DOMAIN f : Over(f, g)[x] = g[x]
  BY DEF Over

LEMMA BaseLive ==
  ASSUME NEW r, NEW b
  PROVE  Base(r, b) = None \/ Base(r, b) \in Live(r) \ {b}
  BY DEF Base

(* What follows a base is on it, and leaves off nothing but what the base  *)
(* was on.                                                                 *)
LEMMA FollowedIs ==
  ASSUME NEW m, NEW tip, NEW old, NEW new, Known(tip, m), Known(old, m), Known(new, m)
  PROVE  LET done == Followed(tip, old, new)
         IN /\ Known(done.line, m) /\ Within(new, done.line)
            /\ done.clean => Ids(tip) \ Ids(done.line) \subseteq Ids(old)
<1> DEFINE from == Boundary(tip, old, new)
           done == Replay(tip, from, new, FALSE)
<1>1. IsLine(tip) /\ IsLine(old) /\ IsLine(new)
  BY DEF Known
<1>2. from \in 0..Len(tip)
  BY <1>1, BoundaryIs
<1>3. PICK l \in {old, new} : SharedUpTo(tip, l, from)
  BY <1>1, BoundaryIs
<1>4. FALSE \in BOOLEAN
  OBVIOUS
<1> HIDE DEF from
<1>5. /\ IsLine(done.line) /\ Within(new, done.line)
      /\ Ids(new) \subseteq Ids(done.line)
      /\ Ids(done.line) \subseteq Ids(new) \cup Ids(tip)
  BY <1>1, <1>2, <1>4, ReplayIs, Zenon
<1>6. done.clean => Ids(tip) \ Ids(done.line) \subseteq Ids(l)
  BY <1>1, <1>2, <1>3, <1>4, ReplayTakes, Zenon
<1>7. Followed(tip, old, new) = done
  BY DEF Followed, from
<1> HIDE DEF done
<1>8. done.clean => Ids(tip) \ Ids(done.line) \subseteq Ids(old)
  BY <1>3, <1>5, <1>6
<1> QED
  BY <1>5, <1>7, <1>8 DEF Known

(* Where a branch stands once the cascade has moved it.                    *)
StandsNow(root, new, p, b) == IF b = root THEN new ELSE p.moved[b]

(* What the cascade asked of c above a branch it moved: c is on it again,  *)
(* or held, or one of those that never follow.                             *)
Answered(r, root, new, p, c) ==
  LET b == Base(r, c)
      now == StandsNow(root, new, p, b)
  IN /\ b \in DOMAIN p.moved \cup {root}
     /\ \/ c \in DOMAIN p.moved /\ Within(now, p.moved[c])
        \/ c \in DOMAIN p.holds
        \/ Skipped(r, c) \/ c \in r.stays
        \/ c \notin DOMAIN p.moved /\ NothingOfItsOwn(r.line[c], r.line[b], now)

(* A cascade part way: who has moved and on what, who was asked, and whose *)
(* children are still to ask.                                              *)
MovedOK(r, root, m, p) ==
  /\ DOMAIN p.moved \subseteq p.visited \ {root}
  /\ \A c \in DOMAIN p.moved :
       /\ Known(p.moved[c], m) /\ Base(r, c) \in Live(r)
       /\ Ids(r.line[c]) \ Ids(p.moved[c]) \subseteq Ids(r.line[Base(r, c)])
  /\ DOMAIN p.holds \subseteq p.visited
  /\ \A c \in DOMAIN p.holds : p.holds[c] \in Branches
FrontOK(r, root, new, p) ==
  /\ root \in p.visited /\ p.visited \subseteq Live(r)
  /\ DOMAIN p.front \subseteq DOMAIN p.moved \cup {root}
  /\ \A b \in DOMAIN p.front : p.front[b] = StandsNow(root, new, p, b)
  /\ \A c \in DOMAIN p.moved : Within(new, p.moved[c]) /\ ~Within(r.line[c], new)
AskedOK(r, root, new, p) ==
  /\ \A c \in p.visited \ {root} : Answered(r, root, new, p, c)
  /\ \A b \in DOMAIN p.moved \cup {root} : b \in DOMAIN p.front \/ Children(r, b) \subseteq p.visited
PlanOK(r, root, new, m, p) == MovedOK(r, root, m, p) /\ FrontOK(r, root, new, p) /\ AskedOK(r, root, new, p)

LEMMA RankKeeps ==
  ASSUME NEW r, NEW m, RepoKnown(r, m), NEW root \in Live(r), NEW new, Known(new, m),
         NEW p, PlanOK(r, root, new, m, p)
  PROVE  PlanOK(r, root, new, m, Rank(r, p))
<1> DEFINE asked == Asked(r, p)
           follow == MustFollow(r, p, asked)
           rebuilt == Rebuilt(r, p, follow)
           clean == {c \in DOMAIN rebuilt : rebuilt[c].clean}
           front == [c \in clean |-> rebuilt[c].line]
           held == [c \in DOMAIN rebuilt \ clean |-> Base(r, c)]
           q == RankOf(r, p, asked, rebuilt)
           now(b) == StandsNow(root, new, p, b)
<1>1. /\ DOMAIN p.moved \subseteq p.visited \ {root}
      /\ \A c \in DOMAIN p.moved :
           /\ Known(p.moved[c], m) /\ Base(r, c) \in Live(r)
           /\ Ids(r.line[c]) \ Ids(p.moved[c]) \subseteq Ids(r.line[Base(r, c)])
      /\ DOMAIN p.holds \subseteq p.visited
      /\ \A c \in DOMAIN p.holds : p.holds[c] \in Branches
  BY DEF PlanOK, MovedOK
<1>2. /\ root \in p.visited /\ p.visited \subseteq Live(r)
      /\ DOMAIN p.front \subseteq DOMAIN p.moved \cup {root}
      /\ \A b \in DOMAIN p.front : p.front[b] = now(b)
      /\ \A c \in DOMAIN p.moved : Within(new, p.moved[c]) /\ ~Within(r.line[c], new)
  BY DEF PlanOK, FrontOK
<1>3. /\ \A c \in p.visited \ {root} : Answered(r, root, new, p, c)
      /\ \A b \in DOMAIN p.moved \cup {root} : b \in DOMAIN p.front \/ Children(r, b) \subseteq p.visited
  BY DEF PlanOK, AskedOK
<1>4. Rank(r, p) = q
  BY DEF Rank
<1>5. /\ q.front = front /\ q.visited = p.visited \cup asked /\ q.moved = Over(front, p.moved)
      /\ q.holds = Over(held, p.holds)
  BY DEF RankOf
<1>6. \A b \in DOMAIN p.moved \cup {root} : Known(now(b), m)
  BY <1>1 DEF StandsNow
<1>7. \A c \in asked : /\ Base(r, c) \in DOMAIN p.front /\ c \in Live(r) /\ c \notin p.visited /\ c # root
                       /\ Base(r, c) \in Live(r) /\ BaseIs(r, p, c) = now(Base(r, c)) /\ c \notin DOMAIN p.moved
  <2> TAKE c \in asked
  <2>1. c \notin p.visited /\ \E b \in DOMAIN p.front : c \in Children(r, b)
    BY DEF Asked
  <2>2. PICK b \in DOMAIN p.front : c \in Children(r, b)
    BY <2>1
  <2>3. c \in Live(r) /\ Base(r, c) = b
    BY <2>2 DEF Children
  <2>4. c # root /\ b \in Live(r) /\ c \notin DOMAIN p.moved
    BY <1>1, <1>2, <2>1
  <2>5. BaseIs(r, p, c) = now(Base(r, c))
    BY <1>2, <2>3 DEF BaseIs
  <2> HIDE DEF now
  <2> QED
    BY <2>1, <2>3, <2>4, <2>5
<1>8. \A b \in DOMAIN p.front : Children(r, b) \subseteq q.visited
  <2> TAKE b \in DOMAIN p.front
  <2>1. Children(r, b) \subseteq UNION {Children(r, d) : d \in DOMAIN p.front}
    OBVIOUS
  <2>2. asked = (UNION {Children(r, d) : d \in DOMAIN p.front}) \ p.visited
    BY DEF Asked
  <2> HIDE DEF q, asked
  <2> QED
    BY <1>5, <2>1, <2>2
<1>9. follow \subseteq asked /\ DOMAIN rebuilt = follow
  BY DEF MustFollow, Rebuilt
<1>10. \A c \in follow : rebuilt[c] = Followed(r.line[c], r.line[Base(r, c)], now(Base(r, c)))
  <2> HIDE DEF now, follow
  <2> QED
    BY <1>7, <1>9 DEF Rebuilt, BaseWas
<1> HIDE DEF now, q, asked
<1>11. ASSUME NEW c \in asked
       PROVE  \/ c \in follow \/ Skipped(r, c) \/ c \in r.stays
              \/ NothingOfItsOwn(r.line[c], r.line[Base(r, c)], now(Base(r, c)))
  BY <1>7 DEF MustFollow, BaseWas
<1>23. ASSUME NEW c \in follow
       PROVE  ~NothingOfItsOwn(r.line[c], r.line[Base(r, c)], now(Base(r, c)))
  BY <1>7, <1>9 DEF MustFollow, BaseWas
<1> HIDE DEF follow, rebuilt
<1>12. DOMAIN front = clean /\ clean \subseteq follow /\ DOMAIN held = follow \ clean
  BY <1>9
<1>13. \A c \in clean : /\ Known(front[c], m) /\ Within(now(Base(r, c)), front[c])
                        /\ Ids(r.line[c]) \ Ids(front[c]) \subseteq Ids(r.line[Base(r, c)])
  <2> TAKE c \in clean
  <2>1. c \in follow /\ rebuilt[c].clean /\ front[c] = rebuilt[c].line
    BY <1>9
  <2>2. Known(r.line[c], m) /\ Known(r.line[Base(r, c)], m) /\ Known(now(Base(r, c)), m)
    BY <1>2, <1>6, <1>7, <1>9, <2>1 DEF RepoKnown
  <2> HIDE DEF front, clean
  <2> QED
    BY <1>10, <2>1, <2>2, FollowedIs
<1> HIDE DEF front, clean, held
<1>14. /\ DOMAIN q.moved = clean \cup DOMAIN p.moved
       /\ \A c \in clean : q.moved[c] = front[c]
       /\ \A c \in DOMAIN p.moved : q.moved[c] = p.moved[c]
       /\ DOMAIN q.holds = (follow \ clean) \cup DOMAIN p.holds
  <2>1. \A c \in DOMAIN p.moved : c \notin clean
    BY <1>7, <1>9, <1>12
  <2>2. /\ DOMAIN Over(front, p.moved) = DOMAIN front \cup DOMAIN p.moved
        /\ \A c \in DOMAIN front : Over(front, p.moved)[c] = front[c]
        /\ \A c \in DOMAIN p.moved \ DOMAIN front : Over(front, p.moved)[c] = p.moved[c]
        /\ DOMAIN Over(held, p.holds) = DOMAIN held \cup DOMAIN p.holds
    BY OverIs, Zenon
  <2> QED
    BY <1>5, <1>12, <2>1, <2>2
<1>15. \A c \in DOMAIN q.holds : q.holds[c] \in Branches
  <2>1. \A c \in follow \ clean : held[c] = Base(r, c)
    BY <1>9 DEF held
  <2>2. \A c \in follow : Base(r, c) \in Branches
    BY <1>7, <1>9 DEF Live
  <2>3. /\ \A c \in DOMAIN held : Over(held, p.holds)[c] = held[c]
        /\ \A c \in DOMAIN p.holds \ DOMAIN held : Over(held, p.holds)[c] = p.holds[c]
    BY OverIs, Zenon
  <2> QED
    BY <1>1, <1>5, <1>12, <1>14, <2>1, <2>2, <2>3
<1>16. \A b \in DOMAIN p.moved \cup {root} : StandsNow(root, new, q, b) = now(b)
  BY <1>14 DEF StandsNow, now
<1>21. \A b \in DOMAIN p.moved \cup {root} : Within(new, now(b))
  <2>1. Within(new, new)
    BY WithinItself DEF Known
  <2> QED
    BY <1>2, <2>1 DEF now, StandsNow
<1>22. ASSUME NEW c \in clean PROVE Within(new, front[c]) /\ ~Within(r.line[c], new)
  <2> DEFINE on == now(Base(r, c))
  <2>1. c \in follow /\ c \in asked
    BY <1>9, <1>12
  <2>2. Known(on, m) /\ Within(new, on) /\ Within(on, front[c]) /\ Known(front[c], m)
    BY <1>2, <1>6, <1>7, <1>13, <1>21, <2>1
  <2>3. ~Within(r.line[c], on) /\ Known(r.line[c], m)
    BY <1>7, <1>23, <2>1 DEF RepoKnown, NothingOfItsOwn
  <2> HIDE DEF on
  <2> QED
    BY <2>2, <2>3, WithinThrough DEF Known
<1>17. MovedOK(r, root, m, q)
  BY <1>1, <1>2, <1>5, <1>7, <1>9, <1>12, <1>13, <1>14, <1>15 DEF MovedOK
<1>18. FrontOK(r, root, new, q)
  <2>1. \A b \in DOMAIN front : front[b] = StandsNow(root, new, q, b)
    BY <1>7, <1>9, <1>12, <1>14 DEF StandsNow
  <2> QED
    BY <1>2, <1>5, <1>7, <1>12, <1>14, <1>22, <2>1 DEF FrontOK
<1>19. ASSUME NEW c \in q.visited \ {root} PROVE Answered(r, root, new, q, c)
  <2>1. CASE c \in p.visited
    <3>1. Answered(r, root, new, p, c)
      BY <1>3, <1>19, <2>1
    <3>2. Base(r, c) \in DOMAIN p.moved \cup {root}
      BY <3>1 DEF Answered
    <3>3. StandsNow(root, new, q, Base(r, c)) = StandsNow(root, new, p, Base(r, c))
      BY <1>16, <3>2 DEF now
    <3>4. c \notin asked /\ c \notin clean
      BY <1>7, <1>9, <1>12, <2>1
    <3> QED
      BY <1>14, <3>1, <3>3, <3>4 DEF Answered
  <2>2. CASE c \in asked
    <3>1. Base(r, c) \in DOMAIN p.moved \cup {root}
      BY <1>2, <1>7, <2>2
    <3>2. StandsNow(root, new, q, Base(r, c)) = now(Base(r, c)) /\ Base(r, c) \in DOMAIN q.moved \cup {root}
      BY <1>14, <1>16, <3>1
    <3>3. CASE c \in clean
      BY <1>13, <1>14, <3>2, <3>3 DEF Answered
    <3>4. CASE c \in follow \ clean
      BY <1>14, <3>2, <3>4 DEF Answered
    <3>5. CASE c \notin follow
      BY <1>7, <1>11, <1>12, <1>14, <2>2, <3>2, <3>5 DEF Answered
    <3> QED
      BY <3>3, <3>4, <3>5
  <2> QED
    BY <1>5, <1>19, <2>1, <2>2
<1>20. \A b \in DOMAIN q.moved \cup {root} : b \in DOMAIN q.front \/ Children(r, b) \subseteq q.visited
  BY <1>3, <1>5, <1>8, <1>12, <1>14
<1> QED
  BY <1>4, <1>17, <1>18, <1>19, <1>20 DEF PlanOK, AskedOK

(* A cascade, rank after rank.                                             *)
IsCascade(f, r, root, new, n) ==
  f = [i \in 0..n |-> IF i = 0 THEN Started(root, new) ELSE Rank(r, f[i - 1])]

LEMMA CascadeExists ==
  ASSUME NEW r, NEW root, NEW new, NEW n \in Nat
  PROVE  \E f : IsCascade(f, r, root, new, n)
<1> DEFINE T == {m \in 0..n : \E f : IsCascade(f, r, root, new, m)}
<1>1. ASSUME NEW m \in 0..n, \A k \in 0..n : k < m => k \in T
      PROVE  m \in T
  <2>1. CASE m = 0
    <3> DEFINE f == [i \in 0..0 |-> Started(root, new)]
    <3>1. \A i \in 0..0 : i = 0
      OBVIOUS
    <3>2. f = [i \in 0..0 |-> IF i = 0 THEN Started(root, new) ELSE Rank(r, f[i - 1])]
      BY <3>1, Zenon
    <3>3. IsCascade(f, r, root, new, 0)
      BY <3>2 DEF IsCascade
    <3> QED
      BY <2>1, <3>3
  <2>2. CASE m # 0
    <3>1. m - 1 \in 0..n /\ m - 1 < m /\ m \in 1..n
      BY <2>2
    <3>2. PICK f : IsCascade(f, r, root, new, m - 1)
      BY <1>1, <3>1
    <3> DEFINE last == Rank(r, f[m - 1])
               g == [i \in 0..m |-> IF i = m THEN last ELSE f[i]]
    <3>3. \A i \in 0..(m - 1) : f[i] = IF i = 0 THEN Started(root, new) ELSE Rank(r, f[i - 1])
      BY <3>2, Zenon DEF IsCascade
    <3>4. \A i \in 1..m : i - 1 \in 0..m /\ i - 1 # m /\ g[i - 1] = f[i - 1]
      <4> HIDE DEF last
      <4> QED
        BY <3>1
    <3>5. ASSUME NEW i \in 0..m
          PROVE  g[i] = IF i = 0 THEN Started(root, new) ELSE Rank(r, g[i - 1])
      <4>1. CASE i = m
        <5>1. g[m] = last /\ g[m - 1] = f[m - 1]
          <6> HIDE DEF last
          <6> QED
            BY <3>1, <3>4
        <5> HIDE DEF g
        <5> QED
          BY <2>2, <4>1, <5>1
      <4>2. CASE i # m
        <5>1. i \in 0..(m - 1) /\ (i # 0 => i \in 1..m) /\ g[i] = f[i]
          <6> HIDE DEF last
          <6> QED
            BY <4>2
        <5> HIDE DEF g
        <5> QED
          BY <3>3, <3>4, <5>1
      <4> QED
        BY <4>1, <4>2
    <3>6. g = [i \in 0..m |-> IF i = 0 THEN Started(root, new) ELSE Rank(r, g[i - 1])]
      <4>1. g = [i \in 0..m |-> g[i]]
        <5> HIDE DEF last
        <5> QED
          OBVIOUS
      <4> HIDE DEF g
      <4> QED
        BY <3>5, <4>1, Zenon
    <3>7. IsCascade(g, r, root, new, m)
      <4> HIDE DEF g
      <4> QED
        BY <3>6, Zenon DEF IsCascade
    <3> QED
      BY <3>7
  <2> QED
    BY <2>1, <2>2
<1>2. 0..n \subseteq T
  <2> HIDE DEF T
  <2> QED
    BY <1>1, AllNumbers
<1> QED
  BY <1>2

LEMMA CascadeDef ==
  ASSUME NEW r, NEW root, NEW new, new # r.line[root]
  PROVE  \E f : /\ Cascade(r, root, new) = f[Cardinality(Branches)]
                /\ f[0] = Started(root, new)
                /\ \A i \in 1..Cardinality(Branches) : f[i] = Rank(r, f[i - 1])
<1> DEFINE f == CHOOSE g : IsCascade(g, r, root, new, Cardinality(Branches))
<1>1. Cardinality(Branches) \in Nat
  BY BranchesAssumption, FS_CardinalityType
<1>2. IsCascade(f, r, root, new, Cardinality(Branches))
  BY <1>1, CascadeExists
<1>3. Cascade(r, root, new) = f[Cardinality(Branches)]
  BY Zenon DEF Cascade, IsCascade
<1>4. 0 \in 0..Cardinality(Branches) /\ \A i \in 1..Cardinality(Branches) : i \in 0..Cardinality(Branches) /\ i # 0
  BY <1>1
<1>5. \A i \in 0..Cardinality(Branches) : f[i] = IF i = 0 THEN Started(root, new) ELSE Rank(r, f[i - 1])
  <2> HIDE DEF f
  <2> QED
    BY <1>2, Zenon DEF IsCascade
<1>6. f[0] = Started(root, new) /\ \A i \in 1..Cardinality(Branches) : f[i] = Rank(r, f[i - 1])
  <2> HIDE DEF f
  <2> QED
    BY <1>4, <1>5, Zenon
<1> HIDE DEF f
<1> QED
  BY <1>3, <1>6


(* Every rank that moves a branch has asked one more.                      *)
Grows(k, p) == DOMAIN p.front # {} => k < Cardinality(p.visited)

LEMMA RankGrows ==
  ASSUME NEW r, NEW root, NEW new, NEW p, NEW k \in Nat, p.visited \subseteq Branches, Grows(k, p)
  PROVE  Grows(k + 1, Rank(r, p))
<1> DEFINE asked == Asked(r, p)
           q == Rank(r, p)
<1>1. q.visited = p.visited \cup asked
  BY DEF Rank, RankOf
<1>2. DOMAIN q.front \subseteq asked
  BY DEF Rank, RankOf, Rebuilt, MustFollow
<1>3. /\ asked \cap p.visited = {} /\ asked \subseteq Branches
      /\ asked # {} => DOMAIN p.front # {}
  <2>1. asked = (UNION {Children(r, d) : d \in DOMAIN p.front}) \ p.visited
    BY DEF Asked
  <2>2. \A d : Children(r, d) \subseteq Branches
    BY DEF Children, Live
  <2> HIDE DEF asked
  <2> QED
    BY <2>1, <2>2
<1> HIDE DEF asked, q
<1>4. ASSUME DOMAIN q.front # {} PROVE k + 1 < Cardinality(q.visited)
  <2>1. PICK c \in asked : TRUE
    BY <1>2, <1>4
  <2>2. c \notin p.visited /\ k < Cardinality(p.visited)
    BY <1>3, <2>1 DEF Grows
  <2>3. IsFiniteSet(p.visited) /\ IsFiniteSet(q.visited) /\ p.visited \cup {c} \subseteq q.visited
    BY <1>1, <1>3, <2>1, BranchesAssumption, FS_Subset
  <2>4. /\ Cardinality(p.visited) \in Nat /\ Cardinality(q.visited) \in Nat
        /\ Cardinality(p.visited \cup {c}) = Cardinality(p.visited) + 1
    BY <2>2, <2>3, FS_CardinalityType, FS_AddElement
  <2>5. Cardinality(p.visited \cup {c}) <= Cardinality(q.visited)
    BY <2>3, FS_Subset
  <2> QED
    BY <2>2, <2>4, <2>5
<1> QED
  BY <1>4 DEF Grows, q

LEMMA StartedIs ==
  ASSUME NEW r, NEW m, RepoKnown(r, m), NEW root \in Live(r), NEW new, Known(new, m)
  PROVE  PlanOK(r, root, new, m, Started(root, new)) /\ Grows(0, Started(root, new))
<1> DEFINE p == Started(root, new)
<1>1. /\ p.visited = {root} /\ DOMAIN p.front = {root} /\ p.front[root] = new
      /\ DOMAIN p.moved = {} /\ DOMAIN p.holds = {}
  BY DEF Started, NoMoves
<1> HIDE DEF p
<1>2. MovedOK(r, root, m, p) /\ FrontOK(r, root, new, p) /\ AskedOK(r, root, new, p)
  BY <1>1 DEF MovedOK, FrontOK, AskedOK, StandsNow
<1>3. Cardinality(p.visited) = 1
  BY <1>1, FS_Singleton
<1> QED
  BY <1>2, <1>3 DEF PlanOK, Grows, p

(* The cascade above a branch that moved: what moves is a line that leaves *)
(* off nothing but what its base was on, and every child of a branch that  *)
(* moved was asked.  There are ranks enough: each asks a branch more.      *)
LEMMA CascadeIs ==
  ASSUME NEW r, NEW m, RepoKnown(r, m), NEW root \in Live(r), NEW new, Known(new, m)
  PROVE  LET p == Cascade(r, root, new)
         IN /\ MovedOK(r, root, m, p) /\ p.visited \subseteq Live(r)
            /\ \A c \in DOMAIN p.moved : ~Within(r.line[c], new)
            /\ new = r.line[root] => DOMAIN p.moved = {} /\ DOMAIN p.holds = {}
            /\ new # r.line[root] =>
                 \A b \in DOMAIN p.moved \cup {root} : \A c \in Children(r, b) \ {root} :
                   Answered(r, root, new, p, c)
<1>1. CASE new = r.line[root]
  <2>1. Cascade(r, root, new) = Started(root, new)
    BY <1>1, Zenon DEF Cascade
  <2>2. /\ Started(root, new).visited = {root}
        /\ DOMAIN Started(root, new).moved = {} /\ DOMAIN Started(root, new).holds = {}
    BY DEF Started, NoMoves
  <2>3. MovedOK(r, root, m, Started(root, new))
    BY StartedIs DEF PlanOK
  <2> QED
    BY <1>1, <2>1, <2>2, <2>3
<1>2. CASE new # r.line[root]
  <2> DEFINE n == Cardinality(Branches)
  <2>1. n \in Nat
    BY BranchesAssumption, FS_CardinalityType
  <2>2. PICK f : /\ Cascade(r, root, new) = f[n]
                 /\ f[0] = Started(root, new)
                 /\ \A i \in 1..n : f[i] = Rank(r, f[i - 1])
    BY <1>2, CascadeDef
  <2> HIDE DEF n
  <2> DEFINE OK(i) == PlanOK(r, root, new, m, f[i]) /\ Grows(i, f[i])
             T == {i \in 0..n : OK(i)}
  <2>3. ASSUME NEW i \in 0..n, \A k \in 0..n : k < i => k \in T
        PROVE  i \in T
    <3>1. CASE i = 0
      BY <2>2, <3>1, StartedIs
    <3>2. CASE i # 0
      <4>1. i - 1 \in 0..n /\ i - 1 < i /\ i \in 1..n /\ i - 1 \in Nat /\ (i - 1) + 1 = i
        BY <2>1, <3>2
      <4>2. PlanOK(r, root, new, m, f[i - 1]) /\ Grows(i - 1, f[i - 1])
        BY <2>3, <4>1
      <4>3. f[i - 1].visited \subseteq Branches
        BY <4>2 DEF PlanOK, FrontOK, Live
      <4>4. PlanOK(r, root, new, m, Rank(r, f[i - 1]))
        BY <4>2, RankKeeps
      <4>5. Grows((i - 1) + 1, Rank(r, f[i - 1]))
        BY <4>1, <4>2, <4>3, RankGrows
      <4> QED
        BY <2>2, <4>1, <4>4, <4>5
    <3> QED
      BY <3>1, <3>2
  <2>4. 0..n \subseteq T
    <3> HIDE DEF T
    <3> QED
      BY <2>1, <2>3, AllNumbers
  <2> DEFINE p == f[n]
  <2>5. PlanOK(r, root, new, m, p) /\ Grows(n, p)
    <3> HIDE DEF OK
    <3>1. OK(n)
      BY <2>1, <2>4
    <3> QED
      BY <3>1 DEF OK
  <2> HIDE DEF OK, T, p
  <2>6. /\ p.visited \subseteq Live(r) /\ p.visited \subseteq Branches
        /\ \A c \in DOMAIN p.moved : ~Within(r.line[c], new)
    BY <2>5 DEF PlanOK, FrontOK, Live
  <2>7. DOMAIN p.front = {}
    <3>1. Cardinality(p.visited) <= n /\ Cardinality(p.visited) \in Nat
      BY <2>6, BranchesAssumption, FS_Subset, FS_CardinalityType DEF n
    <3> QED
      BY <2>1, <2>5, <3>1 DEF Grows
  <2>8. /\ \A c \in p.visited \ {root} : Answered(r, root, new, p, c)
        /\ \A b \in DOMAIN p.moved \cup {root} : Children(r, b) \subseteq p.visited
    BY <2>5, <2>7 DEF PlanOK, AskedOK
  <2>9. \A b \in DOMAIN p.moved \cup {root} : \A c \in Children(r, b) \ {root} : Answered(r, root, new, p, c)
    BY <2>8
  <2>10. Cascade(r, root, new) = p
    BY <2>2 DEF p
  <2> QED
    BY <1>2, <2>5, <2>6, <2>9, <2>10 DEF PlanOK
<1> QED
  BY <1>1, <1>2

(* Once the cascade has landed, nothing but lines has changed, and holds.  *)
(* What moved left off nothing but what its base was on; whoever sat on a  *)
(* branch that moved is on it, or held, or one of those that never follow. *)
SameBut(r, z) == z.head = r.head /\ z.parent = r.parent /\ z.stays = r.stays
TakesFrom(r, root, z) ==
  \A c \in Branches \ {root} :
    \/ z.line[c] = r.line[c]
    \/ /\ c \in Live(r) /\ Base(r, c) \in Live(r)
       /\ Ids(r.line[c]) \ Ids(z.line[c]) \subseteq Ids(r.line[Base(r, c)])
Sits(r, z, c) ==
  \/ Within(z.line[Base(r, c)], z.line[c])
  \/ z.held[c] # None \/ c = other \/ c \in r.stays
  \/ z.line[c] = r.line[c] /\ NothingOfItsOwn(r.line[c], r.line[Base(r, c)], z.line[Base(r, c)])
SitsAgain(r, root, z) ==
  \A c \in Live(r) \ {root} :
    Base(r, c) # None /\ z.line[Base(r, c)] # r.line[Base(r, c)] => Sits(r, z, c)


(* What stands within the line the cascade began on is left there.         *)
LeavesBehind(r, root, new, z) ==
  \A c \in Branches \ {root} : Within(r.line[c], new) => z.line[c] = r.line[c]

LEMMA LandedIs ==
  ASSUME NEW r, NEW m, RepoKnown(r, m), NEW root \in Live(r), NEW new, Known(new, m)
  PROVE  LET z == Landed(r, root, new)
         IN /\ RepoKnown(z, m) /\ Live(z) = Live(r) /\ SameBut(r, z)
            /\ z.line[root] = new /\ TakesFrom(r, root, z) /\ SitsAgain(r, root, z)
            /\ LeavesBehind(r, root, new, z)
<1> DEFINE p == Cascade(r, root, new)
           z == LandedOn(r, root, new, p)
           put == [r.line EXCEPT ![root] = new]
<1>1. /\ DOMAIN r = {"head", "line", "parent", "held", "stays", "old"}
      /\ DOMAIN r.line = Branches /\ DOMAIN r.parent = Branches /\ DOMAIN r.held = Branches
      /\ r.head \in Live(r) /\ \A b \in Live(r) : Known(r.line[b], m)
  BY DEF RepoKnown, IsRepo
<1>2. /\ MovedOK(r, root, m, p) /\ p.visited \subseteq Live(r)
      /\ \A c \in DOMAIN p.moved : ~Within(r.line[c], new)
      /\ new = r.line[root] => DOMAIN p.moved = {} /\ DOMAIN p.holds = {}
      /\ new # r.line[root] =>
           \A b \in DOMAIN p.moved \cup {root} : \A c \in Children(r, b) \ {root} :
             Answered(r, root, new, p, c)
  BY CascadeIs
<1> HIDE DEF p
<1>3. /\ DOMAIN p.moved \subseteq p.visited \ {root}
      /\ \A c \in DOMAIN p.moved :
           /\ Known(p.moved[c], m) /\ Base(r, c) \in Live(r)
           /\ Ids(r.line[c]) \ Ids(p.moved[c]) \subseteq Ids(r.line[Base(r, c)])
      /\ DOMAIN p.holds \subseteq p.visited
      /\ \A c \in DOMAIN p.holds : p.holds[c] \in Branches
  BY <1>2 DEF MovedOK
<1>4. Live(r) \subseteq Branches /\ \A b \in Branches : b \in Live(r) <=> r.line[b] # None
  BY DEF Live
<1>5. /\ DOMAIN z = DOMAIN r /\ SameBut(r, z)
      /\ z.line = Over(p.moved, put) /\ z.held = Over(p.holds, r.held)
  BY <1>1 DEF LandedOn, SameBut
<1>6. /\ DOMAIN put = Branches /\ put[root] = new
      /\ \A b \in Branches \ {root} : put[b] = r.line[b]
  BY <1>1, <1>4
<1> HIDE DEF z, put
<1>7. /\ DOMAIN z.line = Branches /\ z.line[root] = new
      /\ \A c \in DOMAIN p.moved : z.line[c] = p.moved[c]
      /\ \A c \in (Branches \ {root}) \ DOMAIN p.moved : z.line[c] = r.line[c]
  <2>1. /\ DOMAIN Over(p.moved, put) = DOMAIN p.moved \cup DOMAIN put
        /\ \A c \in DOMAIN p.moved : Over(p.moved, put)[c] = p.moved[c]
        /\ \A c \in DOMAIN put \ DOMAIN p.moved : Over(p.moved, put)[c] = put[c]
    BY OverIs, Zenon
  <2>2. DOMAIN p.moved \subseteq Branches /\ root \notin DOMAIN p.moved /\ root \in Branches
    BY <1>2, <1>3, <1>4
  <2> QED
    BY <1>5, <1>6, <2>1, <2>2
<1>8. /\ DOMAIN z.held = Branches
      /\ \A c \in DOMAIN p.holds : z.held[c] \in Branches
      /\ \A c \in Branches \ DOMAIN p.holds : z.held[c] = r.held[c]
  <2>1. /\ DOMAIN Over(p.holds, r.held) = DOMAIN p.holds \cup DOMAIN r.held
        /\ \A c \in DOMAIN p.holds : Over(p.holds, r.held)[c] = p.holds[c]
        /\ \A c \in DOMAIN r.held \ DOMAIN p.holds : Over(p.holds, r.held)[c] = r.held[c]
    BY OverIs, Zenon
  <2>2. DOMAIN p.holds \subseteq Branches
    BY <1>2, <1>3, <1>4
  <2> QED
    BY <1>1, <1>3, <1>5, <2>1, <2>2
<1>9. \A b \in Live(r) : Known(z.line[b], m)
  BY <1>1, <1>3, <1>4, <1>7
<1>10. Live(z) = Live(r)
  <2>1. \A b \in Live(r) : z.line[b] # None
    BY <1>9, NoneIsNoLine DEF Known
  <2>2. \A b \in Branches : b \notin Live(r) => z.line[b] = None
    BY <1>2, <1>3, <1>4, <1>7
  <2> QED
    BY <1>4, <2>1, <2>2 DEF Live
<1>11. RepoKnown(z, m)
  <2>1. DOMAIN z.parent = Branches /\ z.head \in Live(z)
    BY <1>1, <1>5, <1>10 DEF SameBut
  <2> QED
    BY <1>1, <1>5, <1>7, <1>8, <1>9, <1>10, <2>1 DEF RepoKnown, IsRepo, Known
<1>12. TakesFrom(r, root, z)
  <2> SUFFICES ASSUME NEW c \in Branches \ {root}
               PROVE  \/ z.line[c] = r.line[c]
                      \/ /\ c \in Live(r) /\ Base(r, c) \in Live(r)
                         /\ Ids(r.line[c]) \ Ids(z.line[c]) \subseteq Ids(r.line[Base(r, c)])
    BY DEF TakesFrom
  <2>1. CASE c \in DOMAIN p.moved
    BY <1>2, <1>3, <1>7, <2>1
  <2>2. CASE c \notin DOMAIN p.moved
    BY <1>7, <2>2
  <2> QED
    BY <2>1, <2>2
<1>13. SitsAgain(r, root, z)
  <2> SUFFICES ASSUME NEW c \in Live(r) \ {root}, Base(r, c) # None,
                      z.line[Base(r, c)] # r.line[Base(r, c)]
               PROVE  Sits(r, z, c)
    BY DEF SitsAgain
  <2> DEFINE b == Base(r, c)
  <2>1. b \in Live(r) /\ c \in Children(r, b)
    BY BaseLive DEF Children
  <2>2. b \in DOMAIN p.moved \cup {root}
    BY <1>4, <1>7, <2>1
  <2>3. new # r.line[root]
    <3>1. CASE b = root
      BY <1>7, <3>1
    <3>2. CASE b # root
      BY <1>2, <2>2, <3>2
    <3> QED
      BY <3>1, <3>2
  <2>4. Answered(r, root, new, p, c)
    BY <1>2, <2>1, <2>2, <2>3
  <2>5. StandsNow(root, new, p, b) = z.line[b]
    BY <1>3, <1>7, <2>2 DEF StandsNow
  <2>6. \/ c \in DOMAIN p.moved /\ Within(z.line[b], p.moved[c])
        \/ c \in DOMAIN p.holds
        \/ Skipped(r, c) \/ c \in r.stays
        \/ c \notin DOMAIN p.moved /\ NothingOfItsOwn(r.line[c], r.line[b], z.line[b])
    BY <2>4, <2>5 DEF Answered
  <2>7. z.line[c] = IF c \in DOMAIN p.moved THEN p.moved[c] ELSE r.line[c]
    BY <1>4, <1>7
  <2>8. c \in DOMAIN p.holds \/ r.held[c] # None => z.held[c] # None
    <3>1. c \in Branches
      BY <1>4
    <3> QED
      BY <1>8, <3>1, TrunkIsABranch
  <2> HIDE DEF b
  <2> QED
    BY <2>6, <2>7, <2>8 DEF Sits, Skipped, b
<1>14. Landed(r, root, new) = z
  BY DEF Landed, z, p
<1>15. LeavesBehind(r, root, new, z)
  BY <1>2, <1>7 DEF LeavesBehind
<1> QED
  BY <1>5, <1>7, <1>10, <1>11, <1>12, <1>13, <1>14, <1>15

-----------------------------------------------------------------------------
(***************************************************************************)
(* The invariant: every branch stands on a line of changes given out, in   *)
(* the repository, in what an undo makes of it, and on the remote; every   *)
(* place a branch or its copy has stood is a line, and where a branch      *)
(* stands is one of them.                                                  *)
(***************************************************************************)

Stands(r, m, o) == RepoKnown(r, m) /\ r.head # o
RefsKnown(f, m) == DOMAIN f = Branches /\ \A b \in Branches : f[b] # None => Known(f[b], m)
AllLines(f) == DOMAIN f = Branches /\ \A b \in Branches : \A l \in f[b] : IsLine(l)
Recorded(r, f) == \A b \in Live(r) : r.line[b] \in f[b]

StackInv ==
  /\ made \in Nat /\ DOMAIN left = {"verbs", "hops", "undos"}
  /\ Stands(w, made, other)
  /\ before # None => Stands(before, made, other)
  /\ AllLines(been) /\ Recorded(w, been)
RemoteInv ==
  /\ RefsKnown(copy, made) /\ RefsKnown(tracking, made)
  /\ AllLines(stood)
LineupInv == StackInv /\ RemoteInv

LEMMA KnownLater ==
  ASSUME NEW m \in Nat, NEW n \in Nat, m <= n
  PROVE  /\ \A l : Known(l, m) => Known(l, n)
         /\ \A r : RepoKnown(r, m) => RepoKnown(r, n)
         /\ \A f : RefsKnown(f, m) => RefsKnown(f, n)
<1>1. ASSUME NEW l, Known(l, m) PROVE Known(l, n)
  <2>1. \A id \in Ids(l) : id \in Nat
    BY <1>1, LineIs DEF Known, Ids
  <2> QED
    BY <1>1, <2>1 DEF Known
<1> QED
  BY <1>1 DEF RepoKnown, RefsKnown

(* What the reflogs are after a write.                                     *)
LEMMA LoggedIs ==
  ASSUME AllLines(been), Recorded(w, been), NEW r, NEW m, RepoKnown(r, m)
  PROVE  /\ AllLines(Logged(r)) /\ Recorded(r, Logged(r))
         /\ \A b \in Live(w) \cap Live(r) : been[b] \subseteq Logged(r)[b]
         /\ \A b \in Live(r) : r.line[b] \in Logged(r)[b]
<1>1. DOMAIN Logged(r) = Branches
  BY DEF Logged
<1>2. \A b \in Live(r) : IsLine(r.line[b])
  BY DEF RepoKnown, Known
<1>3. \A b \in Branches : \A l \in been[b] : IsLine(l)
  BY DEF AllLines
<1>4. \A b \in Branches : Logged(r)[b] = IF r.line[b] = None THEN {}
                                         ELSE IF w.line[b] = None THEN {r.line[b]}
                                         ELSE been[b] \cup {r.line[b]}
  BY DEF Logged
<1>5. Live(r) = {b \in Branches : r.line[b] # None} /\ Live(w) = {b \in Branches : w.line[b] # None}
  BY DEF Live
<1>6. ASSUME NEW b \in Branches, NEW l \in Logged(r)[b] PROVE IsLine(l)
  <2>1. /\ r.line[b] = None => l \in {}
        /\ r.line[b] # None => l = r.line[b] \/ l \in been[b]
    BY <1>4, <1>6
  <2>2. r.line[b] # None => IsLine(r.line[b])
    BY <1>2, <1>5
  <2> QED
    BY <1>3, <2>1, <2>2
<1>7. \A b \in Live(r) : r.line[b] \in Logged(r)[b]
  BY <1>4, <1>5
<1>8. \A b \in Live(w) \cap Live(r) : been[b] \subseteq Logged(r)[b]
  BY <1>4, <1>5
<1> QED
  BY <1>1, <1>6, <1>7, <1>8 DEF AllLines, Recorded

(* A write of a repository of changes given out keeps the invariant.       *)
LEMMA WroteKeeps ==
  ASSUME StackInv, NEW r, Stands(r, made', other), made' \in Nat, made <= made',
         w' = r, been' = Logged(r), before' = w \/ before' = None, other' = other,
         DOMAIN left' = DOMAIN left
  PROVE  StackInv'
<1>1. AllLines(Logged(r)) /\ Recorded(r, Logged(r))
  BY LoggedIs DEF StackInv, Stands
<1>2. Stands(w, made', other)
  BY KnownLater DEF StackInv, Stands
<1>3. Stands(w', made', other') /\ (before' # None => Stands(before', made', other'))
  BY <1>2
<1>4. AllLines(been') /\ Recorded(w', been')
  BY <1>1
<1> QED
  BY <1>3, <1>4 DEF StackInv

LEMMA VerbKeeps ==
  ASSUME StackInv, NEW r, Stands(r, made', other), made' \in Nat, made <= made', Verb(r)
  PROVE  StackInv'
  BY WroteKeeps DEF Verb, Spend

-----------------------------------------------------------------------------
(***************************************************************************)
(* The verbs.  `r' is the repository a verb makes of w: what a branch that *)
(* stays lost is in its base's reflog, and who stood on its base's tip is  *)
(* on it again.                                                            *)
(***************************************************************************)

TakesAt(r, b) ==
  \A id \in Ids(w.line[b]) \ Ids(r.line[b]) : \E l \in Logged(r)[Base(r, b)] : l # None /\ id \in Ids(l)
FollowsAt(r, c) ==
  LET base == Base(w, c)
      now == Base(r, c)
  IN base # None /\ now # None =>
       \/ base \notin Live(r) /\ r.head = w.head
       \/ r.parent[c] = c
       \/ ~Within(w.line[base], w.line[c])
       \/ Within(w.line[base], r.line[now])
       \/ Within(r.line[now], r.line[c])
       \/ c = other \/ c \in w.stays \/ r.held[c] # None \/ w.line[c] = w.line[base]
Sound(r, m) ==
  /\ Stands(r, m, other)
  /\ \A b \in Live(w) \cap Live(r) : TakesAt(r, b) /\ (Carried(Base(w, b)) \/ FollowsAt(r, b))

Taken(b) ==
  Moved(b) => \A id \in Ids(w.line[b]) \ Ids(w'.line[b]) :
                \E l \in been'[Base(w', b)] : l # None /\ id \in Ids(l)

LEMMA SoundVerb ==
  ASSUME StackInv, NEW r, Verb(r), Sound(r, made'), made' \in Nat, made <= made'
  PROVE  /\ StackInv'
         /\ \A b \in Branches : Taken(b)
         /\ \A c \in Branches : Carried(Base(w, c)) \/ Follows(c)
<1>1. StackInv'
  BY VerbKeeps DEF Sound
<1>2. w' = r /\ been' = Logged(r)
  BY DEF Verb
<1>3. ASSUME NEW b \in Branches PROVE Taken(b)
  <2>1. CASE w.line[b] # None /\ r.line[b] # None
    <3>1. b \in Live(w) \cap Live(r)
      BY <2>1 DEF Live
    <3> QED
      BY <1>2, <3>1 DEF Sound, TakesAt, Taken
  <2>2. CASE ~(w.line[b] # None /\ r.line[b] # None)
    BY <1>2, <2>2 DEF Moved, Taken
  <2> QED
    BY <2>1, <2>2
<1>4. ASSUME NEW c \in Branches PROVE Carried(Base(w, c)) \/ Follows(c)
  <2>1. CASE c \in Live(w) \cap Live(r)
    BY <1>2, <2>1 DEF Sound, FollowsAt, Follows
  <2>2. CASE c \notin Live(w) \cap Live(r)
    BY <1>2, <2>2 DEF Follows
  <2> QED
    BY <2>1, <2>2
<1> QED
  BY <1>1, <1>3, <1>4

LEMMA RepoIs ==
  ASSUME NEW r, NEW m, RepoKnown(r, m)
  PROVE  /\ DOMAIN r = {"head", "line", "parent", "held", "stays", "old"}
         /\ DOMAIN r.line = Branches /\ DOMAIN r.parent = Branches /\ DOMAIN r.held = Branches
         /\ \A b \in Live(r) : b \in Branches /\ r.line[b] # None /\ Known(r.line[b], m) /\ IsLine(r.line[b])
         /\ \A b \in Branches : b \notin Live(r) => r.line[b] = None
         /\ r.head \in Live(r)
  BY DEF RepoKnown, IsRepo, Live

LEMMA RepoMade ==
  ASSUME NEW r, NEW m, DOMAIN r = {"head", "line", "parent", "held", "stays", "old"},
         DOMAIN r.line = Branches, DOMAIN r.parent = Branches, DOMAIN r.held = Branches,
         \A b \in Live(r) : Known(r.line[b], m), r.head \in Live(r)
  PROVE  RepoKnown(r, m)
  BY DEF RepoKnown, IsRepo, Known

LEMMA BaseSame ==
  ASSUME NEW r, NEW s, NEW b, r.parent[b] = s.parent[b], Live(r) = Live(s)
  PROVE  Base(r, b) = Base(s, b)
  BY DEF Base

(* What a branch lost to a line its base has stood on is in its reflog.    *)
LEMMA LostToBase ==
  ASSUME StackInv, NEW r, NEW m, RepoKnown(r, m), NEW b, NEW d \in Live(w) \cap Live(r),
         Base(r, b) = d, NEW l \in been[d] \cup {w.line[d], r.line[d]},
         Ids(w.line[b]) \ Ids(r.line[b]) \subseteq Ids(l)
  PROVE  TakesAt(r, b)
<1>1. AllLines(Logged(r)) /\ been[d] \subseteq Logged(r)[d] /\ r.line[d] \in Logged(r)[d]
  BY LoggedIs DEF StackInv
<1>2. w.line[d] \in been[d]
  BY DEF StackInv, Recorded
<1>3. d \in Branches
  BY DEF Live
<1>4. l \in Logged(r)[d] /\ IsLine(l)
  BY <1>1, <1>2, <1>3 DEF AllLines
<1>5. l # None
  BY <1>4, NoneIsNoLine
<1> QED
  BY <1>4, <1>5 DEF TakesAt

LEMMA LostNothing ==
  ASSUME NEW r, NEW b, Ids(w.line[b]) \subseteq Ids(r.line[b])
  PROVE  TakesAt(r, b)
  BY DEF TakesAt

LEMMA WithinBoth ==
  ASSUME NEW l, NEW k, IsLine(l), IsLine(k), Within(l, k), Within(k, l)
  PROVE  l = k
<1>1. /\ Len(l) <= Len(k) /\ \A j \in 1..Len(l) : l[j] = k[j]
      /\ Len(k) <= Len(l)
  BY WithinIs
<1>2. Len(l) = Len(k) /\ l \in Seq(Commits) /\ k \in Seq(Commits)
  BY <1>1, LineIs
<1> QED
  BY <1>1, <1>2, SameList

(* Who had nothing of its own to replay stood on no tip, or stands on the  *)
(* base where it was.                                                      *)
LEMMA NothingFollows ==
  ASSUME NEW tip, NEW old, NEW new, IsLine(tip), IsLine(old), IsLine(new), NothingOfItsOwn(tip, old, new)
  PROVE  ~Within(old, tip) \/ Within(old, new) \/ Within(new, tip) \/ tip = old
<1>1. CASE Within(tip, new)
  BY <1>1, WithinThrough
<1>2. CASE Within(new, tip)
  BY <1>2
<1>3. CASE Within(tip, old)
  BY <1>3, WithinBoth
<1> QED
  BY <1>1, <1>2, <1>3 DEF NothingOfItsOwn

LEMMA FollowsOn ==
  ASSUME NEW m, RepoKnown(w, m), NEW r, NEW c, NEW d \in Live(w), Base(w, c) = d, Base(r, c) = d,
         r.line[d] = w.line[d] \/ Within(w.line[d], r.line[d])
  PROVE  FollowsAt(r, c)
<1>1. Within(w.line[d], r.line[d])
  BY RepoIs, WithinItself
<1> QED
  BY <1>1 DEF FollowsAt

(* What SitsAgain says of one that stood on the tip of its base d.         *)
SatOn(z, c, d) ==
  \/ ~Within(w.line[d], w.line[c])
  \/ Within(w.line[d], z.line[d])
  \/ Within(z.line[d], z.line[c])
  \/ c = other \/ c \in w.stays \/ z.held[c] # None \/ w.line[c] = w.line[d]

LEMMA SitsFollows ==
  ASSUME NEW m, RepoKnown(w, m), NEW s, s.line = w.line, s.stays = w.stays,
         NEW z, RepoKnown(z, m), Live(z) = Live(w), NEW root, SitsAgain(s, root, z),
         NEW c \in Live(w) \ {root}, NEW d, Base(s, c) = d, d # None
  PROVE  SatOn(z, c, d)
<1>1. Live(s) = Live(w)
  BY DEF Live
<1>2. d \in Live(w)
  BY <1>1, BaseLive
<1>3. /\ IsLine(w.line[c]) /\ IsLine(w.line[d]) /\ IsLine(z.line[d]) /\ IsLine(z.line[c])
  BY <1>2, RepoIs
<1>4. CASE z.line[d] = w.line[d]
  <2>1. Within(w.line[d], z.line[d])
    BY <1>3, <1>4, WithinItself
  <2> QED
    BY <2>1 DEF SatOn
<1>5. CASE z.line[d] # w.line[d]
  <2>1. Sits(s, z, c)
    BY <1>1, <1>5 DEF SitsAgain
  <2>2. CASE z.line[c] = w.line[c] /\ NothingOfItsOwn(w.line[c], w.line[d], z.line[d])
    <3>1. \/ ~Within(w.line[d], w.line[c]) \/ Within(w.line[d], z.line[d])
          \/ Within(z.line[d], w.line[c]) \/ w.line[c] = w.line[d]
      BY <1>3, <2>2, NothingFollows
    <3> QED
      BY <2>2, <3>1 DEF SatOn
  <2>3. CASE ~(z.line[c] = w.line[c] /\ NothingOfItsOwn(w.line[c], w.line[d], z.line[d]))
    BY <2>1, <2>3 DEF Sits, SatOn
  <2> QED
    BY <2>2, <2>3
<1> QED
  BY <1>4, <1>5

(* ff commit.                                                              *)
LEMMA CloseSound ==
  ASSUME StackInv, NEW path \in Paths, Close(path)
  PROVE  /\ made' \in Nat /\ made <= made'
         /\ \E r : Verb(r) /\ Sound(r, made')
<1> DEFINE c == Commit(made', path)
           h == w.head
           r == [w EXCEPT !.line[w.head] = Append(@, c)]
<1>1. made' = made + 1 /\ made' \in Nat /\ made <= made' /\ made \in Nat
  BY DEF Close, StackInv
<1>2. Verb(r)
  BY DEF Close
<1>3. RepoKnown(w, made) /\ RepoKnown(w, made') /\ h # other
  BY <1>1, KnownLater DEF StackInv, Stands
<1>4. /\ DOMAIN w = {"head", "line", "parent", "held", "stays", "old"}
      /\ DOMAIN w.line = Branches /\ DOMAIN w.parent = Branches /\ DOMAIN w.held = Branches
      /\ \A b \in Live(w) : b \in Branches /\ w.line[b] # None /\ Known(w.line[b], made') /\ IsLine(w.line[b])
      /\ h \in Live(w) /\ h \in Branches
  BY <1>3, RepoIs
<1>5. c \in Commits /\ c.id = made + 1
  BY <1>1 DEF Commits, Commit
<1>6. \A id \in Ids(w.line[h]) : id \in Nat /\ id <= made
  <2>1. Known(w.line[h], made)
    BY <1>3, <1>4, RepoIs
  <2> QED
    BY <2>1, LineIs DEF Known, Ids
<1>7. c.id \notin Ids(w.line[h])
  BY <1>1, <1>5, <1>6
<1> DEFINE new == Append(w.line[h], c)
<1>8. IsLine(new) /\ Ids(new) = Ids(w.line[h]) \cup {c.id} /\ Within(w.line[h], new)
  BY <1>4, <1>5, <1>7, LineAppend
<1>9. Known(new, made')
  BY <1>1, <1>5, <1>6, <1>8 DEF Known
<1>10. /\ DOMAIN r = DOMAIN w /\ r.parent = w.parent /\ r.held = w.held /\ r.head = w.head
       /\ DOMAIN r.line = Branches /\ r.line[h] = new
       /\ \A b \in Branches \ {h} : r.line[b] = w.line[b]
  <2> HIDE DEF c
  <2> QED
    BY <1>4
<1> HIDE DEF r, new, c
<1>11. Live(r) = Live(w)
  <2>1. new # None
    BY <1>8, NoneIsNoLine
  <2> QED
    BY <1>4, <1>10, <2>1 DEF Live
<1>12. RepoKnown(r, made')
  <2>1. \A b \in Live(r) : Known(r.line[b], made')
    BY <1>4, <1>9, <1>10, <1>11
  <2> QED
    BY <1>4, <1>10, <1>11, <2>1, RepoMade
<1>13. ASSUME NEW b \in Live(w) PROVE TakesAt(r, b) /\ FollowsAt(r, b)
  <2>1. Ids(w.line[b]) \subseteq Ids(r.line[b])
    BY <1>4, <1>8, <1>10
  <2>2. Base(r, b) = Base(w, b)
    BY <1>10, <1>11, BaseSame
  <2>3. CASE Base(w, b) = None
    BY <2>1, <2>3, LostNothing DEF FollowsAt
  <2>4. CASE Base(w, b) # None
    <3>1. Base(w, b) \in Live(w) /\ Base(w, b) \in Branches
      BY <1>4, <2>4, BaseLive
    <3>2. r.line[Base(w, b)] = w.line[Base(w, b)] \/ Within(w.line[Base(w, b)], r.line[Base(w, b)])
      BY <1>8, <1>10, <3>1
    <3> QED
      BY <1>3, <2>1, <2>2, <3>1, <3>2, LostNothing, FollowsOn
  <2> QED
    BY <2>3, <2>4
<1>14. Sound(r, made')
  BY <1>3, <1>10, <1>11, <1>12, <1>13 DEF Sound, Stands
<1> QED
  BY <1>1, <1>2, <1>14

(* ff describe <rev> and ff absorb.                                        *)
LEMMA RewriteSound ==
  ASSUME StackInv, NEW k \in DOMAIN w.line[w.head], NEW c \in Commits, c.id = w.line[w.head][k].id,
         Rewrite(k, c)
  PROVE  made' = made /\ \E r : Verb(r) /\ Sound(r, made)
<1> DEFINE h == w.head
           line == w.line[h]
           n == Len(line)
           below == Below(line, k - 1)
           onto == Append(below, c)
           done == Replay(line, k, onto, FALSE)
           z == Landed(w, h, done.line)
           carried == {b \in Live(w) : Within(w.line[b], line) /\ Len(w.line[b]) >= k}
           moved == [b \in carried |-> Below(done.line, Len(w.line[b]))]
           r == [z EXCEPT !.line = Over(moved, @), !.old = @ \cup Above(line, k - 1)]
<1>1. RepoKnown(w, made) /\ h # other /\ made \in Nat
  BY DEF StackInv, Stands
<1>2. /\ h \in Live(w) /\ IsLine(line) /\ Known(line, made)
      /\ \A b \in Live(w) : b \in Branches /\ w.line[b] # None /\ Known(w.line[b], made) /\ IsLine(w.line[b])
      /\ \A b \in Branches : b \notin Live(w) => w.line[b] = None
  BY <1>1, RepoIs
<1>3. /\ n \in Nat /\ DOMAIN line = 1..n /\ k \in 1..n
      /\ \A i, j \in 1..n : line[i].id = line[j].id => i = j
  BY <1>2, LineIs
<1>4. made' = made /\ done.clean /\ Verb(r)
  BY DEF Rewrite, RewriteOf, RewriteTo
<1> HIDE DEF r, z, done
<1>5. k - 1 \in 0..n /\ k \in 0..n /\ (k - 1) + 1 = k
  BY <1>3
<1>6. /\ IsLine(below) /\ Len(below) = k - 1 /\ \A j \in 1..(k - 1) : below[j] = line[j]
      /\ Ids(below) = {line[j].id : j \in 1..(k - 1)}
  <2> HIDE DEF line, n
  <2> QED
    BY <1>2, <1>5, BelowLine DEF n
<1> HIDE DEF below, line
<1>7. c.id \notin Ids(below)
  <2>1. \A j \in 1..(k - 1) : j \in 1..n /\ j # k
    BY <1>3
  <2>2. c.id = line[k].id
    BY DEF line
  <2> QED
    BY <1>3, <1>6, <2>1, <2>2
<1>8. IsLine(onto) /\ Len(onto) = k /\ onto[k] = c /\ Within(below, onto)
  BY <1>5, <1>6, <1>7, LineAppend
<1>9. \A j \in 1..k : onto[j].id = line[j].id
  <2>1. \A j \in 1..(k - 1) : onto[j] = below[j]
    <3> HIDE DEF onto
    <3> QED
      BY <1>6, <1>8, WithinIs
  <2>2. \A j \in 1..k : j \in 1..(k - 1) \/ j = k
    BY <1>3
  <2>3. c.id = line[k].id
    BY DEF line
  <2> HIDE DEF onto
  <2> QED
    BY <1>6, <1>8, <2>1, <2>2, <2>3
<1> HIDE DEF onto
<1>10. FALSE \in BOOLEAN /\ Unanswered(FALSE)
  BY DEF Unanswered
<1>11. Rewrote(line, n, done)
  <2>1. /\ IsLine(line) /\ IsLine(onto) /\ k \in 0..Len(line) /\ Len(onto) = k
        /\ \A j \in 1..k : onto[j].id = line[j].id
    BY <1>2, <1>5, <1>8, <1>9 DEF n
  <2> QED
    BY <1>10, <2>1, RewrittenIs, Zenon DEF done, n
<1>12. Len(done.line) = n /\ \A j \in 1..n : done.line[j].id = line[j].id
  BY <1>4, <1>11 DEF Rewrote
<1>13. IsLine(done.line)
  <2>1. IsLine(line) /\ IsLine(onto) /\ k \in 0..Len(line)
    BY <1>2, <1>5, <1>8 DEF n
  <2> QED
    BY <1>10, <2>1, ReplayIs, Zenon DEF done
<1> DEFINE new == done.line
<1>14. IsLine(new) /\ Len(new) = n /\ \A j \in 1..n : new[j].id = line[j].id
  BY <1>12, <1>13
<1> HIDE DEF new, n
<1>15. Ids(new) = Ids(line)
  <2>1. DOMAIN new = 1..n
    BY <1>14, LineIs
  <2> QED
    BY <1>3, <1>14, <2>1 DEF Ids
<1>16. Known(new, made)
  BY <1>2, <1>14, <1>15 DEF Known
<1>17. /\ RepoKnown(z, made) /\ Live(z) = Live(w) /\ SameBut(w, z)
       /\ z.line[h] = new /\ TakesFrom(w, h, z) /\ SitsAgain(w, h, z)
  <2> HIDE DEF h
  <2> QED
    BY <1>1, <1>2, <1>16, LandedIs DEF z, new
<1>18. /\ DOMAIN z = {"head", "line", "parent", "held", "stays", "old"}
       /\ DOMAIN z.line = Branches /\ DOMAIN z.parent = Branches /\ DOMAIN z.held = Branches
       /\ \A b \in Live(w) : Known(z.line[b], made) /\ IsLine(z.line[b])
  BY <1>17, RepoIs
<1>19. /\ DOMAIN r = DOMAIN z /\ r.parent = w.parent /\ r.held = z.held /\ r.head = h
       /\ r.line = Over(moved, z.line)
  <2> HIDE DEF moved
  <2> QED
    BY <1>17, <1>18 DEF r, SameBut
<1>20. ASSUME NEW b \in carried
       PROVE  /\ moved[b] = Below(new, Len(w.line[b])) /\ Len(w.line[b]) \in 0..n
              /\ Known(moved[b], made) /\ Ids(moved[b]) = Ids(w.line[b])
  <2>1. b \in Live(w) /\ Within(w.line[b], line) /\ IsLine(w.line[b]) /\ moved[b] = Below(new, Len(w.line[b]))
    BY <1>2 DEF new
  <2> DEFINE i == Len(w.line[b])
  <2>2. i \in Nat /\ i <= n /\ DOMAIN w.line[b] = 1..i /\ \A j \in 1..i : w.line[b][j] = line[j]
    BY <1>2, <2>1, WithinIs, LineIs DEF n
  <2>3. i \in 0..n
    BY <1>3, <2>2
  <2>4. IsLine(Below(new, i)) /\ Ids(Below(new, i)) = {new[j].id : j \in 1..i}
    BY <1>14, <2>3, BelowLine
  <2>5. \A j \in 1..i : new[j].id = w.line[b][j].id
    <3>1. \A j \in 1..i : j \in 1..n
      BY <1>3, <2>2
    <3> QED
      BY <1>14, <2>2, <3>1
  <2>6. Ids(Below(new, i)) = Ids(w.line[b])
    BY <2>2, <2>4, <2>5 DEF Ids
  <2>7. Known(w.line[b], made)
    BY <1>2, <2>1
  <2> QED
    BY <2>1, <2>3, <2>4, <2>6, <2>7 DEF Known
<1>21. DOMAIN moved = carried /\ carried \subseteq Live(w) /\ h \in carried
  <2>1. Within(w.line[h], line) /\ Len(w.line[h]) >= k
    BY <1>2, <1>3, WithinItself DEF line, n
  <2> QED
    BY <1>2, <2>1
<1>22. moved[h] = new
  <2>1. moved[h] = Below(new, n)
    BY <1>20, <1>21 DEF n, line
  <2>2. n \in 0..n
    BY <1>3
  <2>3. IsLine(Below(new, n)) /\ Len(Below(new, n)) = n /\ \A j \in 1..n : Below(new, n)[j] = new[j]
    BY <1>14, <2>2, BelowLine
  <2> QED
    BY <1>14, <2>1, <2>3, LineIs, SameList
<1>23. ASSUME NEW b \in carried PROVE Within(w.line[b], line)
  OBVIOUS
<1> HIDE DEF moved, carried
<1>24. /\ DOMAIN r.line = Branches
       /\ \A b \in carried : r.line[b] = moved[b]
       /\ \A b \in Branches \ carried : r.line[b] = z.line[b]
       /\ r.line[h] = new
  <2>1. /\ DOMAIN Over(moved, z.line) = DOMAIN moved \cup DOMAIN z.line
        /\ \A b \in DOMAIN moved : Over(moved, z.line)[b] = moved[b]
        /\ \A b \in DOMAIN z.line \ DOMAIN moved : Over(moved, z.line)[b] = z.line[b]
    BY OverIs, Zenon
  <2>2. Live(w) \subseteq Branches
    BY <1>2
  <2> QED
    BY <1>18, <1>19, <1>21, <1>22, <2>1, <2>2
<1>25. \A b \in Live(w) : Known(r.line[b], made)
  BY <1>2, <1>18, <1>20, <1>24
<1>26. Live(r) = Live(w)
  <2>1. \A b \in Live(w) : r.line[b] # None
    BY <1>25, NoneIsNoLine DEF Known
  <2>2. \A b \in Branches : b \notin Live(w) => r.line[b] = None
    BY <1>17, <1>21, <1>24 DEF Live
  <2> QED
    BY <1>2, <2>1, <2>2 DEF Live
<1>27. RepoKnown(r, made)
  BY <1>2, <1>17, <1>18, <1>19, <1>24, <1>25, <1>26, RepoMade DEF SameBut
<1>28. ASSUME NEW b \in Live(w) PROVE TakesAt(r, b)
  <2>1. CASE b \in carried
    BY <1>20, <1>24, <2>1, LostNothing
  <2>2. CASE b \notin carried
    <3>1. b \in Branches \ {h} /\ r.line[b] = z.line[b]
      BY <1>2, <1>21, <1>24, <2>2
    <3>2. CASE z.line[b] = w.line[b]
      BY <3>1, <3>2, LostNothing
    <3>3. CASE z.line[b] # w.line[b]
      <4>1. Base(w, b) \in Live(w) /\ Ids(w.line[b]) \ Ids(r.line[b]) \subseteq Ids(w.line[Base(w, b)])
        BY <1>17, <3>1, <3>3 DEF TakesFrom
      <4>2. Base(r, b) = Base(w, b)
        BY <1>19, <1>26, BaseSame
      <4> QED
        BY <1>26, <1>27, <4>1, <4>2, LostToBase
    <3> QED
      BY <3>2, <3>3
  <2> QED
    BY <2>1, <2>2
<1>29. ASSUME NEW b \in Live(w) PROVE Carried(Base(w, b)) \/ FollowsAt(r, b)
  <2> DEFINE d == Base(w, b)
  <2>1. Base(r, b) = d
    BY <1>19, <1>26, BaseSame
  <2>2. CASE d = None
    BY <2>2 DEF FollowsAt
  <2>3. CASE d # None /\ ~Carried(d)
    <3>1. d \in Live(w) /\ d # b /\ IsLine(w.line[d]) /\ IsLine(w.line[b])
      BY <1>2, <2>3, BaseLive
    <3>2. d = h \/ ~Within(w.line[d], line)
      BY <2>3 DEF Carried, line
    <3>3. r.line[d] = z.line[d]
      BY <1>2, <1>17, <1>23, <1>24, <3>1, <3>2
    <3>4. CASE b \in carried
      <4>1. Within(w.line[b], line)
        BY <1>23, <3>4
      <4>2. ~Within(w.line[d], w.line[b]) \/ w.line[b] = w.line[d]
        <5>1. CASE d = h
          BY <1>2, <3>1, <4>1, <5>1, WithinBoth DEF line
        <5>2. CASE ~Within(w.line[d], line)
          BY <1>2, <3>1, <4>1, <5>2, WithinThrough
        <5> QED
          BY <3>2, <5>1, <5>2
      <4> HIDE DEF d
      <4> QED
        BY <2>1, <4>2 DEF FollowsAt, d
    <3>5. CASE b \notin carried
      <4>1. b \in Live(w) \ {h} /\ r.line[b] = z.line[b]
        BY <1>2, <1>21, <1>24, <3>5
      <4>2. SatOn(z, b, d)
        BY <1>1, <1>17, <2>3, <4>1, SitsFollows
      <4> QED
        BY <1>19, <2>1, <3>3, <4>1, <4>2 DEF SatOn, FollowsAt
    <3> QED
      BY <3>4, <3>5
  <2> QED
    BY <2>2, <2>3
<1>30. Sound(r, made)
  BY <1>1, <1>19, <1>26, <1>27, <1>28, <1>29 DEF Sound, Stands
<1> QED
  BY <1>4, <1>30

-----------------------------------------------------------------------------
(***************************************************************************)
(* ff restack, and the resolution of a hold.                               *)
(***************************************************************************)

Drops(b, base, new) == \E l \in been[base] \cup {w.line[base]} : Ids(w.line[b]) \ Ids(new) \subseteq Ids(l)

LEMMA ForkedIs ==
  ASSUME StackInv, NEW b \in Live(w), NEW base \in Live(w)
  PROVE  /\ Forked(b, base) \in 0..Len(w.line[b])
         /\ \E l \in been[base] \cup {w.line[base]} : IsLine(l) /\ SharedUpTo(w.line[b], l, Forked(b, base))
<1>1. IsLine(w.line[b]) /\ IsLine(w.line[base]) /\ base \in Branches
  BY RepoIs DEF StackInv, Stands
<1>2. \A l \in been[base] : IsLine(l)
  BY <1>1 DEF StackInv, AllLines
<1>3. /\ ForkedFrom(w.line[b], w.line[base], been[base]) \in 0..Len(w.line[b])
      /\ \E l \in been[base] \cup {w.line[base]} : SharedUpTo(w.line[b], l, ForkedFrom(w.line[b], w.line[base], been[base]))
  BY <1>1, <1>2, ForkedFromIs
<1> QED
  BY <1>1, <1>2, <1>3 DEF Forked

LEMMA ReplayedIs ==
  ASSUME StackInv, NEW b \in Live(w), NEW base \in Live(w), NEW answered \in BOOLEAN
  PROVE  LET done == Replayed(b, base, answered)
         IN /\ Known(done.line, made) /\ Within(w.line[base], done.line)
            /\ done.clean \/ answered => Drops(b, base, done.line)
<1> DEFINE old == w.line[b]
           onto == w.line[base]
           from == Forked(b, base)
           done == Replay(old, from, onto, answered)
<1>1. Known(old, made) /\ Known(onto, made) /\ IsLine(old) /\ IsLine(onto)
  BY RepoIs DEF StackInv, Stands
<1>2. from \in 0..Len(old)
  BY ForkedIs
<1>3. PICK l \in been[base] \cup {onto} : IsLine(l) /\ SharedUpTo(old, l, from)
  BY ForkedIs
<1> HIDE DEF old, onto, from
<1>4. /\ IsLine(done.line) /\ Within(onto, done.line)
      /\ Ids(done.line) \subseteq Ids(onto) \cup Ids(old)
  BY <1>1, <1>2, ReplayIs, Zenon
<1>5. done.clean \/ answered => Ids(old) \ Ids(done.line) \subseteq Ids(l)
  BY <1>1, <1>2, <1>3, ReplayTakes, Zenon
<1>6. Replayed(b, base, answered) = done
  BY DEF Replayed, old, onto, from
<1> HIDE DEF done
<1>7. Known(done.line, made)
  BY <1>1, <1>4 DEF Known
<1>8. done.clean \/ answered => Drops(b, base, done.line)
  BY <1>3, <1>5 DEF Drops, old, onto
<1> QED
  BY <1>4, <1>6, <1>7, <1>8 DEF onto

LEMMA RestackedSound ==
  ASSUME StackInv, NEW b \in Live(w), NEW base \in Live(w) \ {b}, NEW aimed \in BOOLEAN,
         aimed \/ base = Base(w, b),
         NEW new, Known(new, made), Within(w.line[base], new), Drops(b, base, new)
  PROVE  Sound(Restacked(b, base, aimed, new), made)
<1> DEFINE s == [w EXCEPT !.parent[b] = Reaimed(b, base, aimed),
                          !.held[b] = HoldAfter(b, base, aimed),
                          !.old = @ \cup Replaced(b, base)]
           z == Landed(s, b, new)
<1>1. RepoKnown(w, made) /\ w.head # other
  BY DEF StackInv, Stands
<1>2. /\ DOMAIN w = {"head", "line", "parent", "held", "stays", "old"}
      /\ DOMAIN w.line = Branches /\ DOMAIN w.parent = Branches /\ DOMAIN w.held = Branches
      /\ \A c \in Live(w) : c \in Branches /\ w.line[c] # None /\ Known(w.line[c], made) /\ IsLine(w.line[c])
      /\ w.head \in Live(w)
  BY <1>1, RepoIs
<1>3. /\ DOMAIN s = DOMAIN w /\ s.line = w.line /\ s.head = w.head /\ s.stays = w.stays
      /\ DOMAIN s.parent = Branches /\ DOMAIN s.held = Branches
      /\ s.parent[b] = Reaimed(b, base, aimed)
      /\ \A c \in Branches \ {b} : s.parent[c] = w.parent[c]
  BY <1>2
<1>4. Restacked(b, base, aimed, new) = z
  BY DEF Restacked
<1> HIDE DEF s, z
<1>5. Live(s) = Live(w)
  BY <1>3 DEF Live
<1>6. RepoKnown(s, made)
  BY <1>2, <1>3, <1>5, RepoMade
<1>7. /\ RepoKnown(z, made) /\ Live(z) = Live(w) /\ SameBut(s, z) /\ z.line[b] = new
      /\ TakesFrom(s, b, z) /\ SitsAgain(s, b, z) /\ LeavesBehind(s, b, new, z)
  BY <1>5, <1>6, LandedIs DEF z
<1>8. \A c \in Live(w) \ {b} : Base(s, c) = Base(w, c) /\ Base(z, c) = Base(w, c)
  BY <1>2, <1>3, <1>5, <1>7, BaseSame DEF SameBut
<1>9. Base(z, b) = base
  <2>1. CASE aimed
    BY <1>3, <1>7, <2>1 DEF Reaimed, SameBut, Base
  <2>2. CASE ~aimed
    BY <1>3, <1>7, <2>2, BaseSame DEF Reaimed, SameBut
  <2> QED
    BY <2>1, <2>2
<1>10. ASSUME NEW c \in Live(w) PROVE TakesAt(z, c)
  <2>1. CASE c = b
    <3>1. PICK l \in been[base] \cup {w.line[base]} : Ids(w.line[b]) \ Ids(new) \subseteq Ids(l)
      BY DEF Drops
    <3> QED
      BY <1>7, <1>9, <2>1, <3>1, LostToBase
  <2>2. CASE c # b /\ z.line[c] = w.line[c]
    BY <2>2, LostNothing
  <2>3. CASE c # b /\ z.line[c] # w.line[c]
    <3>1. Base(s, c) \in Live(w) /\ Ids(w.line[c]) \ Ids(z.line[c]) \subseteq Ids(w.line[Base(s, c)])
      BY <1>2, <1>3, <1>5, <1>7, <2>3 DEF TakesFrom
    <3> QED
      BY <1>7, <1>8, <2>3, <3>1, LostToBase
  <2> QED
    BY <2>1, <2>2, <2>3
<1>11. ASSUME NEW c \in Live(w) PROVE FollowsAt(z, c)
  <2>1. CASE c = b
    <3>1. z.line[base] = w.line[base]
      BY <1>2, <1>3, <1>7 DEF LeavesBehind
    <3> QED
      BY <1>7, <1>9, <2>1, <3>1 DEF FollowsAt
  <2>2. CASE c # b /\ Base(w, c) = None
    BY <2>2 DEF FollowsAt
  <2>3. CASE c # b /\ Base(w, c) # None
    <3>1. SatOn(z, c, Base(w, c))
      BY <1>1, <1>3, <1>7, <1>8, <2>3, SitsFollows
    <3> QED
      BY <1>8, <2>3, <3>1 DEF SatOn, FollowsAt
  <2> QED
    BY <2>1, <2>2, <2>3
<1>12. Sound(z, made)
  BY <1>1, <1>3, <1>7, <1>10, <1>11 DEF Sound, Stands, SameBut
<1> QED
  BY <1>4, <1>12

(* Another repository with the same lines, and the same parents.           *)
LEMMA SameLines ==
  ASSUME StackInv, NEW r, DOMAIN r = DOMAIN w, r.line = w.line, r.head = w.head,
         DOMAIN r.parent = Branches, DOMAIN r.held = Branches
  PROVE  /\ RepoKnown(r, made) /\ Live(r) = Live(w) /\ Stands(r, made, other)
         /\ r.parent = w.parent => Sound(r, made)
<1>1. RepoKnown(w, made) /\ w.head # other
  BY DEF StackInv, Stands
<1>2. Live(r) = Live(w)
  BY DEF Live
<1>3. RepoKnown(r, made)
  BY <1>1, <1>2, RepoIs, RepoMade
<1>4. ASSUME r.parent = w.parent, NEW b \in Live(w) PROVE TakesAt(r, b) /\ FollowsAt(r, b)
  <2>1. Base(r, b) = Base(w, b)
    BY <1>2, <1>4, BaseSame
  <2>2. CASE Base(w, b) = None
    BY <2>2, LostNothing DEF FollowsAt
  <2>3. CASE Base(w, b) # None
    <3>1. Base(w, b) \in Live(w)
      BY <2>3, BaseLive
    <3> QED
      BY <1>1, <2>1, <3>1, LostNothing, FollowsOn
  <2> QED
    BY <2>2, <2>3
<1> QED
  BY <1>1, <1>2, <1>3, <1>4 DEF Sound, Stands

LEMMA RestackSound ==
  ASSUME StackInv, NEW b, NEW base, NEW aimed \in BOOLEAN, aimed \/ base = Base(w, b),
         RestackOnto(b, base, aimed)
  PROVE  made' = made /\ \E r : Verb(r) /\ Sound(r, made)
<1>1. /\ b \in Live(w) /\ base \in Live(w) \ {b} /\ made' = made
      /\ Reaim(b, base, aimed) \/ MoveUp(b, base, aimed) \/ ReplayOnto(b, base, aimed) \/ HoldOnto(b, base, aimed)
  BY DEF RestackOnto
<1>2. /\ Known(w.line[b], made) /\ Known(w.line[base], made) /\ IsLine(w.line[b]) /\ IsLine(w.line[base])
      /\ DOMAIN w = {"head", "line", "parent", "held", "stays", "old"}
      /\ DOMAIN w.parent = Branches /\ DOMAIN w.held = Branches
  BY <1>1, RepoIs DEF StackInv, Stands
<1>3. CASE Reaim(b, base, aimed)
  <2>1. Within(w.line[base], w.line[b]) /\ Verb(Restacked(b, base, aimed, w.line[b]))
    BY <1>3 DEF Reaim, UpToDate
  <2>2. Drops(b, base, w.line[b])
    BY DEF Drops
  <2> QED
    BY <1>1, <1>2, <2>1, <2>2, RestackedSound
<1>4. CASE MoveUp(b, base, aimed)
  <2>1. Within(w.line[b], w.line[base]) /\ Verb(Restacked(b, base, aimed, w.line[base]))
    BY <1>4 DEF MoveUp, FastForward
  <2>2. Ids(w.line[b]) \subseteq Ids(w.line[base]) /\ Within(w.line[base], w.line[base])
    BY <1>2, <2>1, WithinIs, WithinItself
  <2>3. Drops(b, base, w.line[base])
    BY <2>2 DEF Drops
  <2> QED
    BY <1>1, <1>2, <2>1, <2>2, <2>3, RestackedSound
<1>5. CASE ReplayOnto(b, base, aimed)
  <2> DEFINE done == Replayed(b, base, FALSE)
  <2>1. done.clean /\ Verb(Restacked(b, base, aimed, done.line))
    BY <1>5 DEF ReplayOnto
  <2>2. FALSE \in BOOLEAN /\ b \in Live(w) /\ base \in Live(w)
    BY <1>1
  <2>3. Known(done.line, made) /\ Within(w.line[base], done.line) /\ Drops(b, base, done.line)
    BY <2>1, <2>2, ReplayedIs, Zenon
  <2> HIDE DEF done
  <2> QED
    BY <1>1, <2>1, <2>3, RestackedSound
<1>6. CASE HoldOnto(b, base, aimed)
  <2> DEFINE r == [w EXCEPT !.held[b] = base]
  <2>1. Verb(r)
    BY <1>6 DEF HoldOnto
  <2>2. /\ DOMAIN r = DOMAIN w /\ r.line = w.line /\ r.head = w.head /\ r.parent = w.parent
        /\ DOMAIN r.held = Branches
    BY <1>2
  <2> HIDE DEF r
  <2>3. Sound(r, made)
    BY <1>2, <2>2, SameLines
  <2> QED
    BY <1>1, <2>1, <2>3
<1> QED
  BY <1>1, <1>3, <1>4, <1>5, <1>6

(* A line has forked from itself at its end.                               *)
LEMMA NothingAhead ==
  ASSUME StackInv, NEW b \in Live(w)
  PROVE  Ahead(b, b) = <<>>
<1> DEFINE l == w.line[b]
           T == {Meet(l, x) : x \in {l} \cup (been[b] \ {l})}
<1>1. IsLine(l) /\ b \in Branches
  BY RepoIs DEF StackInv, Stands
<1>2. \A x \in {l} \cup (been[b] \ {l}) : IsLine(x)
  BY <1>1 DEF StackInv, AllLines
<1>3. Len(l) \in Nat /\ l \in Seq(Commits)
  BY <1>1, LineIs
<1> HIDE DEF l
<1>4. Meet(l, l) = Len(l)
  <2>1. Meet(l, l) \in 0..Len(l) /\ \A k \in 0..Len(l) : k <= Meet(l, l)
    BY <1>1, MeetIs
  <2>2. Len(l) \in 0..Len(l)
    BY <1>3
  <2> QED
    BY <1>3, <2>1, <2>2
<1>5. T \subseteq 0..Len(l) /\ Len(l) \in T
  <2>1. \A x \in {l} \cup (been[b] \ {l}) : Meet(l, x) \in 0..Len(l)
    BY <1>1, <1>2, MeetIs
  <2> QED
    BY <1>4, <2>1
<1>6. Max(T) = Len(l)
  <2> HIDE DEF T
  <2>1. Max(T) \in T /\ \A k \in T : k <= Max(T)
    BY <1>3, <1>5, LargestIs
  <2>2. Max(T) \in 0..Len(l) /\ Len(l) <= Max(T)
    BY <1>5, <2>1
  <2> QED
    BY <1>3, <2>2
<1>7. Forked(b, b) = Len(l)
  BY <1>6 DEF Forked, ForkedFrom, l
<1>8. SubSeq(l, Len(l) + 1, Len(l)) = <<>>
  <2>1. Len(l) \in 0..Len(l)
    BY <1>3
  <2>2. SubSeq(l, Len(l) + 1, Len(l)) \in Seq(Commits) /\ Len(SubSeq(l, Len(l) + 1, Len(l))) = Len(l) - Len(l)
    BY <1>3, <2>1, SeqEnd
  <2>3. Len(l) - Len(l) = 0
    BY <1>3
  <2> QED
    BY <2>2, <2>3, EmptySeq
<1> QED
  BY <1>7, <1>8 DEF Ahead, l

(* ff resolve: the replay with the reader's answers is a verb, and a hold  *)
(* with nothing left to ask is let go.                                     *)
LEMMA ResolveSound ==
  ASSUME StackInv, NEW b, Resolve(b)
  PROVE  made' = made /\ ((\E r : Verb(r) /\ Sound(r, made)) \/ (StackInv' /\ ~IsVerb))
<1> DEFINE base == w.held[b]
<1>1. /\ b \in Live(w) /\ base \in Live(w) /\ Ahead(b, base) # <<>> /\ made' = made
  BY DEF Resolve
<1>2. base # b
  BY <1>1, NothingAhead
<1>3. /\ DOMAIN w = {"head", "line", "parent", "held", "stays", "old"}
      /\ DOMAIN w.parent = Branches /\ DOMAIN w.held = Branches /\ b \in Branches
  BY <1>1, RepoIs DEF StackInv, Stands
<1>4. CASE Verb(Restacked(b, base, TRUE, Replayed(b, base, TRUE).line))
  <2> DEFINE done == Replayed(b, base, TRUE)
  <2>1. TRUE \in BOOLEAN /\ base \in Live(w) \ {b}
    BY <1>1, <1>2
  <2>2. Known(done.line, made) /\ Within(w.line[base], done.line) /\ Drops(b, base, done.line)
    BY <1>1, <2>1, ReplayedIs, Zenon
  <2> HIDE DEF base
  <2>3. Sound(Restacked(b, base, TRUE, done.line), made)
    BY <1>1, <2>1, <2>2, RestackedSound, Zenon
  <2> QED
    BY <1>1, <1>4, <2>3, Zenon
<1>5. CASE /\ w' = [w EXCEPT !.held[b] = None]
           /\ before' = None
           /\ UNCHANGED <<been, pushed, other, made, left>>
  <2> DEFINE r == [w EXCEPT !.held[b] = None]
  <2>1. /\ DOMAIN r = DOMAIN w /\ r.line = w.line /\ r.head = w.head /\ r.parent = w.parent
        /\ DOMAIN r.held = Branches
    BY <1>3
  <2>2. w' = r /\ before' = None /\ been' = been /\ other' = other /\ made' = made /\ left' = left
    BY <1>5
  <2> HIDE DEF r
  <2>3. Stands(r, made, other) /\ Live(r) = Live(w)
    BY <1>3, <2>1, SameLines
  <2>4. Recorded(r, been)
    BY <2>1, <2>3 DEF StackInv, Recorded
  <2>5. StackInv'
    BY <2>2, <2>3, <2>4 DEF StackInv
  <2> QED
    BY <1>1, <2>2, <2>5 DEF IsVerb
<1> QED
  BY <1>4, <1>5 DEF Resolve

-----------------------------------------------------------------------------
(***************************************************************************)
(* ff fold: the target takes the source's work, and who stood on the source*)
(* stands on the target.                                                   *)
(***************************************************************************)

LEMMA FoldsToIs ==
  ASSUME StackInv, NEW source \in Live(w), NEW target \in Live(w), FoldsTo(source, target) # <<>>
  PROVE  LET onto == FoldsTo(source, target)[1]
         IN Known(onto, made) /\ Within(w.line[target], onto) /\ Drops(source, target, onto)
<1>1. /\ Known(w.line[source], made) /\ Known(w.line[target], made)
      /\ IsLine(w.line[source]) /\ IsLine(w.line[target])
  BY RepoIs DEF StackInv, Stands
<1>2. CASE UpToDate(source, target)
  <2>1. FoldsTo(source, target)[1] = w.line[source]
    BY <1>2 DEF FoldsTo
  <2> QED
    BY <1>1, <1>2, <2>1 DEF UpToDate, Drops
<1>3. CASE ~UpToDate(source, target) /\ FastForward(source, target)
  <2>1. FoldsTo(source, target)[1] = w.line[target]
    BY <1>3 DEF FoldsTo
  <2>2. Ids(w.line[source]) \subseteq Ids(w.line[target]) /\ Within(w.line[target], w.line[target])
    BY <1>1, <1>3, WithinIs, WithinItself DEF FastForward
  <2> QED
    BY <1>1, <2>1, <2>2 DEF Drops
<1>4. CASE ~UpToDate(source, target) /\ ~FastForward(source, target)
  <2> DEFINE done == Replayed(source, target, FALSE)
  <2>1. done.clean /\ FoldsTo(source, target) = <<done.line>>
    BY <1>4 DEF FoldsTo
  <2>2. FALSE \in BOOLEAN
    OBVIOUS
  <2>3. Known(done.line, made) /\ Within(w.line[target], done.line) /\ Drops(source, target, done.line)
    BY <2>1, <2>2, ReplayedIs, Zenon
  <2> HIDE DEF done
  <2> QED
    BY <2>1, <2>3
<1> QED
  BY <1>2, <1>3, <1>4

LEMMA LostOne ==
  ASSUME StackInv, NEW r, NEW m, RepoKnown(r, m), NEW d \in Live(w) \cap Live(r),
         NEW l \in been[d] \cup {w.line[d], r.line[d]}, NEW id \in Ids(l)
  PROVE  \E x \in Logged(r)[d] : x # None /\ id \in Ids(x)
<1>1. AllLines(Logged(r)) /\ been[d] \subseteq Logged(r)[d] /\ r.line[d] \in Logged(r)[d]
  BY LoggedIs DEF StackInv
<1>2. w.line[d] \in been[d]
  BY DEF StackInv, Recorded
<1>3. d \in Branches
  BY DEF Live
<1>4. l \in Logged(r)[d] /\ IsLine(l)
  BY <1>1, <1>2, <1>3 DEF AllLines
<1> QED
  BY <1>4, NoneIsNoLine

(* The source once its work has landed on the target: a cascade from where *)
(* it was to there.                                                        *)
FoldLanded(source, target, onto) ==
  Landed([w EXCEPT !.held[source] = None, !.old = @ \cup Replaced(source, target)], source, onto)

LEMMA FoldLandedIs ==
  ASSUME StackInv, NEW source \in Live(w), NEW target, NEW onto, Known(onto, made)
  PROVE  LET z == FoldLanded(source, target, onto)
         IN \E s : /\ s.line = w.line /\ s.stays = w.stays /\ s.parent = w.parent
                   /\ RepoKnown(z, made) /\ Live(z) = Live(w) /\ SameBut(w, z) /\ z.line[source] = onto
                   /\ TakesFrom(s, source, z) /\ SitsAgain(s, source, z) /\ LeavesBehind(s, source, onto, z)
<1> DEFINE s == [w EXCEPT !.held[source] = None, !.old = @ \cup Replaced(source, target)]
           z == Landed(s, source, onto)
<1>1. /\ DOMAIN w = {"head", "line", "parent", "held", "stays", "old"}
      /\ DOMAIN w.line = Branches /\ DOMAIN w.parent = Branches /\ DOMAIN w.held = Branches
  BY RepoIs DEF StackInv, Stands
<1>2. /\ DOMAIN s = DOMAIN w /\ s.line = w.line /\ s.head = w.head /\ s.stays = w.stays
      /\ s.parent = w.parent /\ DOMAIN s.held = Branches
  BY <1>1
<1>3. FoldLanded(source, target, onto) = z
  BY DEF FoldLanded
<1> HIDE DEF s, z
<1>4. RepoKnown(s, made) /\ Live(s) = Live(w)
  BY <1>1, <1>2, SameLines
<1>5. /\ RepoKnown(z, made) /\ Live(z) = Live(w) /\ SameBut(s, z) /\ z.line[source] = onto
      /\ TakesFrom(s, source, z) /\ SitsAgain(s, source, z) /\ LeavesBehind(s, source, onto, z)
  BY <1>4, LandedIs DEF z
<1>6. SameBut(w, z)
  BY <1>2, <1>5 DEF SameBut
<1> QED
  BY <1>2, <1>3, <1>5, <1>6

(* What a fold leaves, the source gone or left beside the target.          *)
FoldLeaves(source, target, onto, r) ==
  LET z == FoldLanded(source, target, onto)
  IN /\ Live(r) \in {Live(w), Live(w) \ {source}}
     /\ r.line[target] = onto
     /\ source \in Live(r) => r.line[source] = onto /\ r.parent[source] = target
     /\ \A c \in Live(r) \ {source, target} : r.line[c] = z.line[c]
     /\ \A c \in Live(r) \ {source} :
          /\ r.parent[c] = IF c \in Children(w, source) THEN target ELSE w.parent[c]
          /\ z.held[c] # None => r.held[c] # None

LEMMA FoldSound ==
  ASSUME StackInv, NEW source \in Live(w) \ {Trunk}, NEW target \in Live(w) \ {source},
         NEW onto, Known(onto, made), Within(w.line[target], onto), Drops(source, target, onto),
         NEW r, Stands(r, made, other), FoldLeaves(source, target, onto, r)
  PROVE  Sound(r, made)
<1> DEFINE z == FoldLanded(source, target, onto)
<1>1. RepoKnown(w, made) /\ RepoKnown(r, made)
  BY DEF StackInv, Stands
<1>2. PICK s : /\ s.line = w.line /\ s.stays = w.stays /\ s.parent = w.parent
               /\ RepoKnown(z, made) /\ Live(z) = Live(w) /\ SameBut(w, z) /\ z.line[source] = onto
               /\ TakesFrom(s, source, z) /\ SitsAgain(s, source, z) /\ LeavesBehind(s, source, onto, z)
  BY FoldLandedIs
<1> HIDE DEF z
<1>3. /\ Live(r) \subseteq Live(w) /\ Live(w) \ {source} \subseteq Live(r) /\ target \in Live(r)
      /\ r.line[target] = onto
      /\ source \in Live(r) => r.line[source] = onto /\ r.parent[source] = target
      /\ \A c \in Live(r) \ {source, target} : r.line[c] = z.line[c]
      /\ \A c \in Live(r) \ {source} :
           /\ r.parent[c] = IF c \in Children(w, source) THEN target ELSE w.parent[c]
           /\ z.held[c] # None => r.held[c] # None
  <2>1. /\ Live(r) \in {Live(w), Live(w) \ {source}}
        /\ r.line[target] = onto
        /\ source \in Live(r) => r.line[source] = onto /\ r.parent[source] = target
        /\ \A c \in Live(r) \ {source, target} : r.line[c] = z.line[c]
        /\ \A c \in Live(r) \ {source} :
             /\ r.parent[c] = IF c \in Children(w, source) THEN target ELSE w.parent[c]
             /\ z.held[c] # None => r.held[c] # None
    BY DEF FoldLeaves, z
  <2> QED
    BY <2>1
<1>4. /\ \A c \in Live(w) : c \in Branches /\ IsLine(w.line[c])
      /\ IsLine(onto) /\ Ids(w.line[target]) \subseteq Ids(onto)
      /\ \A c \in Live(w) : IsLine(z.line[c])
  <2>1. \A c \in Live(w) : c \in Branches /\ IsLine(w.line[c]) /\ IsLine(z.line[c])
    BY <1>1, <1>2, RepoIs
  <2>2. IsLine(onto)
    BY DEF Known
  <2> QED
    BY <2>1, <2>2, WithinIs
<1>5. PICK l \in been[target] \cup {w.line[target]} : Ids(w.line[source]) \ Ids(onto) \subseteq Ids(l)
  BY DEF Drops
<1>6. Live(s) = Live(w) /\ \A c : Base(s, c) = Base(w, c)
  BY <1>2 DEF Live, Base
<1>7. ASSUME NEW c \in Live(r) \ {source}, Base(w, c) = source, c # target
      PROVE  Base(r, c) = target
  <2>1. r.parent[c] = target
    BY <1>3, <1>7 DEF Children
  <2> QED
    BY <1>3, <1>7, <2>1 DEF Base
<1>8. ASSUME NEW c \in Live(r) \ {source}, Base(w, c) # source, Base(w, c) # None
      PROVE  Base(r, c) = Base(w, c) /\ Base(w, c) \in Live(r)
  <2>1. r.parent[c] = w.parent[c]
    BY <1>3, <1>8 DEF Children
  <2> QED
    BY <1>3, <1>8, <2>1 DEF Base
<1>9. source \in Live(r) => Base(r, source) = target
  BY <1>3 DEF Base
<1>10. ASSUME NEW c \in Live(w) \cap Live(r) PROVE TakesAt(r, c)
  <2>1. CASE c = target
    BY <1>3, <1>4, <2>1, LostNothing
  <2>2. CASE c = source
    BY <1>1, <1>3, <1>5, <1>9, <2>2, LostToBase
  <2>3. CASE c \notin {source, target} /\ z.line[c] = w.line[c]
    BY <1>3, <2>3, LostNothing
  <2>4. CASE c \notin {source, target} /\ z.line[c] # w.line[c]
    <3>1. Base(w, c) \in Live(w) /\ Ids(w.line[c]) \ Ids(r.line[c]) \subseteq Ids(w.line[Base(w, c)])
      BY <1>2, <1>3, <1>4, <1>6, <2>4 DEF TakesFrom
    <3>2. CASE Base(w, c) = source
      <4>1. Base(r, c) = target
        BY <1>7, <2>4, <3>2
      <4>2. ASSUME NEW id \in Ids(w.line[c]) \ Ids(r.line[c])
            PROVE  \E x \in Logged(r)[target] : x # None /\ id \in Ids(x)
        <5>1. id \in Ids(onto) \/ id \in Ids(l)
          BY <1>5, <3>1, <3>2
        <5>2. CASE id \in Ids(onto)
          BY <1>1, <1>3, <5>2, LostOne
        <5>3. CASE id \in Ids(l)
          BY <1>1, <1>3, <5>3, LostOne
        <5> QED
          BY <5>1, <5>2, <5>3
      <4> QED
        BY <4>1, <4>2 DEF TakesAt
    <3>3. CASE Base(w, c) # source
      <4>1. Base(w, c) # None
        BY <3>1, RepoIs, TrunkIsABranch DEF Live
      <4> QED
        BY <1>1, <1>8, <2>4, <3>1, <3>3, <4>1, LostToBase
    <3> QED
      BY <3>2, <3>3
  <2> QED
    BY <2>1, <2>2, <2>3, <2>4
<1>11. ASSUME NEW c \in Live(w) \cap Live(r) PROVE FollowsAt(r, c)
  <2> DEFINE d == Base(w, c)
  <2>1. CASE d = None
    BY <2>1 DEF FollowsAt
  <2>2. CASE c = source
    <3>1. Within(r.line[target], r.line[source])
      BY <1>3, <1>4, <2>2, WithinItself
    <3> QED
      BY <1>9, <2>2, <3>1 DEF FollowsAt
  <2>3. CASE d = source /\ c = target
    <3>1. r.parent[c] = c
      BY <1>3, <2>3 DEF Children
    <3> QED
      BY <3>1 DEF FollowsAt
  <2>4. CASE d = source /\ c \notin {source, target}
    <3>1. SatOn(z, c, d)
      BY <1>1, <1>2, <1>4, <1>6, <2>4, SitsFollows, TrunkIsABranch
    <3>2. Base(r, c) = target /\ r.line[target] = z.line[d] /\ r.line[c] = z.line[c]
      BY <1>2, <1>3, <1>7, <2>4
    <3>3. z.held[c] # None => r.held[c] # None
      BY <1>3, <2>4
    <3> QED
      BY <3>1, <3>2, <3>3 DEF SatOn, FollowsAt
  <2>5. CASE d \notin {source, None} /\ c # source
    <3>1. Base(r, c) = d /\ d \in Live(r) /\ d \in Live(w)
      BY <1>3, <1>8, <2>5
    <3>2. CASE d = target
      BY <1>1, <1>3, <3>1, <3>2, FollowsOn
    <3>3. CASE d # target /\ c # target
      <4>1. SatOn(z, c, d)
        BY <1>1, <1>2, <1>4, <1>6, <2>5, SitsFollows
      <4>2. r.line[d] = z.line[d] /\ r.line[c] = z.line[c] /\ (z.held[c] # None => r.held[c] # None)
        BY <1>3, <2>5, <3>1, <3>3
      <4> QED
        BY <3>1, <4>1, <4>2 DEF SatOn, FollowsAt
    <3>4. CASE d # target /\ c = target
      <4>1. r.line[d] = z.line[d]
        BY <1>3, <2>5, <3>1, <3>4
      <4>2. CASE z.line[d] = w.line[d]
        BY <1>1, <3>1, <4>1, <4>2, FollowsOn
      <4>3. CASE z.line[d] # w.line[d]
        <5>1. ~Within(w.line[d], onto)
          BY <1>2, <1>4, <2>5, <3>1, <4>3 DEF LeavesBehind
        <5>2. ~Within(w.line[d], w.line[target])
          BY <1>4, <3>1, <5>1, WithinThrough
        <5> QED
          BY <3>4, <5>2 DEF FollowsAt
      <4> QED
        BY <4>2, <4>3
    <3> QED
      BY <3>2, <3>3, <3>4
  <2> QED
    BY <2>1, <2>2, <2>3, <2>4, <2>5
<1> QED
  BY <1>10, <1>11 DEF Sound

(* The repository once a fold has retargeted who stood on the source.      *)
LEMMA FoldedIs ==
  ASSUME StackInv, NEW source \in Live(w), NEW target \in Live(w) \ {source}, NEW onto, Known(onto, made)
  PROVE  LET f == Folded(source, target, onto)
         IN /\ RepoKnown(f, made) /\ Live(f) = Live(w) /\ f.head = w.head
            /\ f.line[source] = onto
            /\ FoldLeaves(source, target, onto, [f EXCEPT !.parent[source] = target])
            /\ FoldLeaves(source, target, onto, [Deleted(f, {source}) EXCEPT !.head = target])
            /\ RepoKnown([f EXCEPT !.parent[source] = target], made)
            /\ RepoKnown([Deleted(f, {source}) EXCEPT !.head = target], made)
<1> DEFINE z == FoldLanded(source, target, onto)
           t == Retargeted(z, source, target)
           f == [t EXCEPT !.line[target] = onto]
           g == [f EXCEPT !.parent[source] = target]
           gone == Deleted(f, {source})
           e == [gone EXCEPT !.head = target]
<1>1. RepoKnown(z, made) /\ Live(z) = Live(w) /\ SameBut(w, z) /\ z.line[source] = onto
  BY FoldLandedIs
<1>2. /\ DOMAIN z = {"head", "line", "parent", "held", "stays", "old"}
      /\ DOMAIN z.line = Branches /\ DOMAIN z.parent = Branches /\ DOMAIN z.held = Branches
      /\ \A c \in Live(w) : c \in Branches /\ Known(z.line[c], made)
      /\ \A c \in Branches : c \notin Live(w) => z.line[c] = None
      /\ z.head = w.head /\ w.head \in Live(w) /\ z.parent = w.parent
  BY <1>1, RepoIs DEF SameBut
<1>3. f = Folded(source, target, onto)
  BY DEF Folded, FoldLanded
<1> HIDE DEF z
<1>4. /\ DOMAIN t = DOMAIN z /\ t.line = z.line /\ t.head = z.head
      /\ DOMAIN t.held = Branches /\ DOMAIN t.parent = Branches
      /\ \A c \in Branches : t.held[c] = IF z.held[c] = source /\ w.held[c] # source THEN target ELSE z.held[c]
      /\ \A c \in Branches : t.parent[c] = IF c \in Children(w, source) THEN target ELSE z.parent[c]
  BY <1>2 DEF Retargeted
<1> HIDE DEF t
<1>5. /\ DOMAIN f = DOMAIN z /\ f.head = w.head /\ f.parent = t.parent /\ f.held = t.held
      /\ DOMAIN f.line = Branches /\ f.line[target] = onto
      /\ \A c \in Branches \ {target} : f.line[c] = z.line[c]
  BY <1>2, <1>4
<1> HIDE DEF f
<1>6. onto # None
  BY NoneIsNoLine DEF Known
<1>7. Live(f) = Live(w)
  <2>1. \A c \in Live(w) : f.line[c] # None
    BY <1>2, <1>5, <1>6, NoneIsNoLine DEF Known
  <2>2. \A c \in Branches : c \notin Live(w) => f.line[c] = None
    BY <1>2, <1>5
  <2> QED
    BY <1>2, <2>1, <2>2 DEF Live
<1>8. \A c \in Live(w) : Known(f.line[c], made)
  BY <1>2, <1>5
<1>9. RepoKnown(f, made)
  BY <1>2, <1>4, <1>5, <1>7, <1>8, RepoMade
<1>10. /\ DOMAIN g = DOMAIN z /\ g.head = w.head /\ g.line = f.line /\ g.held = f.held
       /\ DOMAIN g.parent = Branches /\ g.parent[source] = target
       /\ \A c \in Branches \ {source} : g.parent[c] = f.parent[c]
  BY <1>2, <1>4, <1>5
<1>11. /\ DOMAIN gone = DOMAIN z /\ DOMAIN gone.line = Branches /\ DOMAIN gone.parent = Branches
       /\ DOMAIN gone.held = Branches
       /\ \A c \in Branches : gone.line[c] = IF c \in {source} THEN None ELSE f.line[c]
       /\ \A c \in Branches : gone.parent[c] = IF c \in {source} THEN None ELSE f.parent[c]
       /\ \A c \in Branches : gone.held[c] = IF c \in {source} THEN None ELSE f.held[c]
  BY <1>2, <1>4, <1>5 DEF Deleted
<1> HIDE DEF g, gone
<1>12. /\ DOMAIN e = DOMAIN z /\ e.head = target /\ e.line = gone.line /\ e.held = gone.held /\ e.parent = gone.parent
  BY <1>2, <1>11
<1> HIDE DEF e
<1>13. Live(g) = Live(w)
  BY <1>7, <1>10 DEF Live
<1>14. Live(e) = Live(w) \ {source}
  BY <1>7, <1>11, <1>12 DEF Live
<1>15. \A c \in Branches : z.held[c] # None => t.held[c] # None
  BY <1>2, <1>4, TrunkIsABranch
<1>16. FoldLeaves(source, target, onto, g)
  <2>1. f.line[source] = onto
    BY <1>1, <1>2, <1>5
  <2>2. \A c \in Live(w) \ {source, target} : g.line[c] = z.line[c]
    BY <1>2, <1>5, <1>10
  <2>3. \A c \in Live(w) \ {source} :
          /\ g.parent[c] = IF c \in Children(w, source) THEN target ELSE w.parent[c]
          /\ z.held[c] # None => g.held[c] # None
    BY <1>2, <1>4, <1>5, <1>10, <1>15
  <2> QED
    BY <1>5, <1>10, <1>13, <2>1, <2>2, <2>3 DEF FoldLeaves, z
<1>17. FoldLeaves(source, target, onto, e)
  <2>1. \A c \in Live(w) \ {source, target} : e.line[c] = z.line[c]
    BY <1>2, <1>5, <1>11, <1>12
  <2>2. \A c \in Live(w) \ {source} :
          /\ e.parent[c] = IF c \in Children(w, source) THEN target ELSE w.parent[c]
          /\ z.held[c] # None => e.held[c] # None
    BY <1>2, <1>4, <1>5, <1>11, <1>12, <1>15
  <2>3. e.line[target] = onto
    BY <1>2, <1>5, <1>11, <1>12
  <2> QED
    BY <1>14, <2>1, <2>2, <2>3 DEF FoldLeaves, z
<1>18. RepoKnown(g, made)
  BY <1>2, <1>4, <1>5, <1>8, <1>10, <1>13, RepoMade
<1>19. RepoKnown(e, made)
  <2>1. \A c \in Live(e) : Known(e.line[c], made)
    BY <1>2, <1>8, <1>11, <1>12, <1>14
  <2>2. e.head \in Live(e)
    BY <1>12, <1>14
  <2> QED
    BY <1>2, <1>11, <1>12, <2>1, <2>2, RepoMade
<1>20. f.line[source] = onto
  BY <1>1, <1>2, <1>5
<1> QED
  BY <1>3, <1>5, <1>7, <1>9, <1>16, <1>17, <1>18, <1>19, <1>20 DEF g, e, gone

LEMMA FoldStayIs ==
  ASSUME StackInv, NEW source \in Live(w), NEW target \in Live(w) \ {source}, NEW onto, Known(onto, made)
  PROVE  LET f == Folded(source, target, onto)
         IN /\ RepoKnown(f, made) /\ f.head = w.head
            /\ FoldLeaves(source, target, onto, [f EXCEPT !.parent[source] = target])
            /\ RepoKnown([f EXCEPT !.parent[source] = target], made)
  BY FoldedIs, ZenonT(60)

LEMMA FoldVerbSound ==
  ASSUME StackInv, NEW target, Fold(target) \/ FoldStay(target)
  PROVE  made' = made /\ \E r : Verb(r) /\ Sound(r, made)
<1> DEFINE source == w.head
           onto == FoldsTo(source, target)[1]
           f == Folded(source, target, onto)
<1>1. MayFold(source, target)
  BY DEF Fold, FoldStay
<1>2. /\ source \in Live(w) \ {Trunk} /\ target \in Live(w) \ {source} /\ made' = made /\ source # other
      /\ FoldsTo(source, target) # <<>>
  BY <1>1, RepoIs DEF MayFold, StackInv, Stands
<1>3. Known(onto, made) /\ Within(w.line[target], onto) /\ Drops(source, target, onto)
  BY <1>2, FoldsToIs
<1> HIDE DEF onto
<1>4. CASE Fold(target)
  <2> DEFINE r == [Deleted(f, {source}) EXCEPT !.head = target]
  <2>1. Verb(r) /\ target # other
    BY <1>4 DEF Fold, onto
  <2>2. FoldLeaves(source, target, onto, r) /\ RepoKnown(r, made) /\ RepoKnown(f, made)
    BY <1>2, <1>3, FoldedIs
  <2>3. r.head = target
    <3>1. DOMAIN Deleted(f, {source}) = DOMAIN f
      BY DEF Deleted
    <3> HIDE DEF f
    <3> QED
      BY <2>2, <3>1, RepoIs
  <2> HIDE DEF r, f
  <2>4. Sound(r, made)
    BY <1>2, <1>3, <2>1, <2>2, <2>3, FoldSound DEF Stands
  <2> QED
    BY <1>2, <2>1, <2>4
<1>5. CASE FoldStay(target)
  <2> DEFINE r == [f EXCEPT !.parent[source] = target]
  <2>1. Verb(r)
    BY <1>5 DEF FoldStay, onto
  <2>2. FoldLeaves(source, target, onto, r) /\ RepoKnown(r, made) /\ RepoKnown(f, made) /\ f.head = w.head
    <3>1. source \in Live(w)
      BY <1>2
    <3>2. target \in Live(w) \ {source} /\ Known(onto, made)
      BY <1>2, <1>3
    <3> HIDE DEF source
    <3>3. FoldLeaves(source, target, onto, r)
      BY <3>1, <3>2, FoldStayIs, ZenonT(60)
    <3>4. RepoKnown(r, made)
      BY <3>1, <3>2, FoldStayIs, ZenonT(60)
    <3>5. RepoKnown(f, made)
      BY <3>1, <3>2, FoldStayIs, ZenonT(60)
    <3>6. f.head = w.head
      BY <3>1, <3>2, FoldStayIs, ZenonT(60)
    <3> QED
      BY <3>3, <3>4, <3>5, <3>6
  <2> HIDE DEF f
  <2>3. r.head = w.head
    BY <2>2, RepoIs
  <2> HIDE DEF r
  <2>4. Sound(r, made)
    BY <1>2, <1>3, <2>1, <2>2, <2>3, FoldSound DEF Stands
  <2> QED
    BY <1>2, <2>1, <2>4
<1> QED
  BY <1>4, <1>5

-----------------------------------------------------------------------------
(***************************************************************************)
(* ff branch --prune, ff undo, and the steps that are no verb.             *)
(***************************************************************************)

LEMMA DeletedIs ==
  ASSUME NEW r, NEW m, RepoKnown(r, m), NEW gone, r.head \notin gone
  PROVE  LET e == Deleted(r, gone)
         IN /\ RepoKnown(e, m) /\ Live(e) = Live(r) \ gone /\ e.head = r.head /\ e.stays = r.stays
            /\ DOMAIN e.parent = Branches
            /\ \A b \in Branches \ gone : /\ e.line[b] = r.line[b] /\ e.parent[b] = r.parent[b]
                                          /\ e.held[b] = r.held[b]
<1> DEFINE e == Deleted(r, gone)
<1>1. /\ DOMAIN r = {"head", "line", "parent", "held", "stays", "old"}
      /\ DOMAIN r.line = Branches /\ DOMAIN r.parent = Branches /\ DOMAIN r.held = Branches
      /\ \A b \in Live(r) : b \in Branches /\ r.line[b] # None /\ Known(r.line[b], m)
      /\ r.head \in Live(r)
  BY RepoIs
<1>2. /\ DOMAIN e = DOMAIN r /\ e.head = r.head /\ e.stays = r.stays
      /\ DOMAIN e.line = Branches /\ DOMAIN e.parent = Branches /\ DOMAIN e.held = Branches
      /\ \A b \in Branches : e.line[b] = IF b \in gone THEN None ELSE r.line[b]
      /\ \A b \in Branches : e.parent[b] = IF b \in gone THEN None ELSE r.parent[b]
      /\ \A b \in Branches : e.held[b] = IF b \in gone THEN None ELSE r.held[b]
  BY <1>1 DEF Deleted
<1> HIDE DEF e
<1>3. Live(e) = Live(r) \ gone
  BY <1>2 DEF Live
<1>4. RepoKnown(e, m)
  BY <1>1, <1>2, <1>3, RepoMade
<1> QED
  BY <1>2, <1>3, <1>4 DEF e

LEMMA PruneSound ==
  ASSUME StackInv, NEW gone, NEW record, Prune(gone, record)
  PROVE  made' = made /\ \E r : Verb(r) /\ Sound(r, made)
<1> DEFINE deletes == Prunable(gone, record)
           above == (UNION {Children(w, b) : b \in deletes}) \ deletes
           s == [w EXCEPT !.parent = Parents(deletes)]
           r == Deleted(s, deletes)
<1>1. Verb(r) /\ made' = made
  BY DEF Prune
<1>2. w.head \notin deletes
  BY DEF Prunable
<1>3. /\ DOMAIN Parents(deletes) = Branches
      /\ \A c \in Branches : c \notin above => Parents(deletes)[c] = w.parent[c]
  BY DEF Parents
<1> HIDE DEF deletes
<1>4. /\ DOMAIN w = {"head", "line", "parent", "held", "stays", "old"}
      /\ DOMAIN w.held = Branches /\ RepoKnown(w, made) /\ w.head # other
      /\ \A b \in Live(w) : b \in Branches
  BY RepoIs DEF StackInv, Stands
<1>5. /\ DOMAIN s = DOMAIN w /\ s.line = w.line /\ s.head = w.head /\ s.held = w.held
      /\ s.parent = Parents(deletes)
  BY <1>4
<1> HIDE DEF s
<1>6. RepoKnown(s, made) /\ Live(s) = Live(w)
  BY <1>3, <1>4, <1>5, SameLines
<1>7. /\ RepoKnown(r, made) /\ Live(r) = Live(w) \ deletes /\ r.head = w.head
      /\ \A b \in Branches \ deletes : r.line[b] = w.line[b] /\ r.parent[b] = Parents(deletes)[b]
  <2>1. s.head \notin deletes
    BY <1>2, <1>5
  <2> QED
    BY <1>5, <1>6, <2>1, DeletedIs
<1> HIDE DEF r
<1>8. ASSUME NEW c \in Live(w) \cap Live(r) PROVE TakesAt(r, c) /\ FollowsAt(r, c)
  <2> DEFINE d == Base(w, c)
  <2>1. TakesAt(r, c)
    BY <1>4, <1>7, <1>8, LostNothing
  <2>2. CASE d = None
    BY <2>1, <2>2 DEF FollowsAt
  <2>3. CASE d \in deletes
    BY <1>7, <2>1, <2>3 DEF FollowsAt
  <2>4. CASE d # None /\ d \notin deletes
    <3>1. c \notin above
      BY <2>4 DEF Children
    <3>2. r.parent[c] = w.parent[c]
      BY <1>3, <1>4, <1>7, <1>8, <3>1
    <3>3. d \in Live(w)
      BY <2>4, BaseLive
    <3>4. Base(r, c) = d
      BY <1>7, <2>4, <3>2, <3>3 DEF Base
    <3>5. r.line[d] = w.line[d]
      BY <1>4, <1>7, <2>4, <3>3
    <3> QED
      BY <1>4, <2>1, <3>3, <3>4, <3>5, FollowsOn
  <2> QED
    BY <2>2, <2>3, <2>4
<1>9. Sound(r, made)
  BY <1>4, <1>7, <1>8 DEF Sound, Stands
<1> QED
  BY <1>1, <1>9

LEMMA UndoKeeps ==
  ASSUME StackInv, Undo
  PROVE  StackInv' /\ ~IsVerb
<1> DEFINE back == IF other = None THEN before ELSE [before EXCEPT !.line[other] = w.line[other]]
<1>1. /\ before # None /\ w' = back /\ been' = Logged(back) /\ before' = None /\ other' = other /\ made' = made
      /\ left' = [left EXCEPT !["undos"] = @ - 1]
  BY DEF Undo, Spend
<1>2. RepoKnown(before, made) /\ before.head # other /\ RepoKnown(w, made) /\ made \in Nat
  BY <1>1 DEF StackInv, Stands
<1>3. Stands(back, made, other)
  <2>1. CASE other = None
    BY <1>2, <2>1 DEF Stands
  <2>2. CASE other # None
    <3> DEFINE r == [before EXCEPT !.line[other] = w.line[other]]
    <3>1. /\ DOMAIN before = {"head", "line", "parent", "held", "stays", "old"}
          /\ DOMAIN before.line = Branches /\ DOMAIN before.parent = Branches /\ DOMAIN before.held = Branches
          /\ \A b \in Live(before) : b \in Branches /\ before.line[b] # None /\ Known(before.line[b], made)
          /\ before.head \in Live(before)
          /\ \A b \in Live(w) : Known(w.line[b], made)
      BY <1>2, RepoIs
    <3>2. /\ DOMAIN r = DOMAIN before /\ r.head = before.head /\ r.parent = before.parent /\ r.held = before.held
          /\ DOMAIN r.line = Branches
          /\ \A b \in Branches : r.line[b] = IF b = other THEN w.line[other] ELSE before.line[b]
      BY <3>1
    <3> HIDE DEF r
    <3>3. \A b \in Live(r) : Known(r.line[b], made)
      <4> SUFFICES ASSUME NEW b \in Live(r) PROVE Known(r.line[b], made)
        OBVIOUS
      <4>1. b \in Branches /\ r.line[b] # None
        BY DEF Live
      <4>2. CASE b = other
        <5>1. b \in Live(w)
          BY <3>2, <4>1, <4>2 DEF Live
        <5> QED
          BY <3>1, <3>2, <4>1, <4>2, <5>1
      <4>3. CASE b # other
        <5>1. b \in Live(before)
          BY <3>2, <4>1, <4>3 DEF Live
        <5> QED
          BY <3>1, <3>2, <4>1, <4>3, <5>1
      <4> QED
        BY <4>2, <4>3
    <3>4. r.head \in Live(r)
      BY <1>2, <3>1, <3>2 DEF Live
    <3>5. RepoKnown(r, made)
      BY <3>1, <3>2, <3>3, <3>4, RepoMade
    <3> QED
      BY <1>2, <2>2, <3>2, <3>5 DEF Stands, r
  <2> QED
    BY <2>1, <2>2
<1> HIDE DEF back
<1>4. DOMAIN left' = DOMAIN left /\ left'.verbs = left.verbs
  BY <1>1 DEF StackInv
<1>5. StackInv'
  BY <1>1, <1>2, <1>3, <1>4, WroteKeeps
<1> QED
  BY <1>4, <1>5 DEF IsVerb

LEMMA SwitchKeeps ==
  ASSUME StackInv, NEW b, Switch(b)
  PROVE  StackInv' /\ ~IsVerb
<1> DEFINE r == [w EXCEPT !.head = b]
<1>1. /\ b \in Live(w) \ {w.head, other} /\ w' = r /\ before' = w /\ been' = been /\ other' = other /\ made' = made
      /\ left' = [left EXCEPT !["hops"] = @ - 1]
  BY DEF Switch, Spend
<1>2. RepoKnown(w, made) /\ w.head # other
  BY DEF StackInv, Stands
<1>3. /\ DOMAIN w = {"head", "line", "parent", "held", "stays", "old"}
      /\ DOMAIN w.line = Branches /\ DOMAIN w.parent = Branches /\ DOMAIN w.held = Branches
      /\ \A c \in Live(w) : Known(w.line[c], made)
  BY <1>2, RepoIs
<1>4. /\ DOMAIN r = DOMAIN w /\ r.line = w.line /\ r.parent = w.parent /\ r.held = w.held /\ r.head = b
  BY <1>3
<1> HIDE DEF r
<1>5. Live(r) = Live(w)
  BY <1>4 DEF Live
<1>6. Stands(r, made, other)
  BY <1>1, <1>3, <1>4, <1>5, RepoMade DEF Stands
<1>7. Recorded(r, been)
  BY <1>4, <1>5 DEF StackInv, Recorded
<1>8. DOMAIN left' = DOMAIN left /\ left'.verbs = left.verbs
  BY <1>1 DEF StackInv
<1>9. StackInv'
  BY <1>1, <1>2, <1>6, <1>7, <1>8 DEF StackInv, Stands
<1> QED
  BY <1>8, <1>9 DEF IsVerb

LEMMA PushKeeps ==
  ASSUME StackInv, NEW b, Push(b)
  PROVE  StackInv' /\ ~IsVerb
<1>1. UNCHANGED <<w, been, other, made, before>> /\ left' = [left EXCEPT !["hops"] = @ - 1]
  BY DEF Push, Spend
<1>2. DOMAIN left' = DOMAIN left /\ left'.verbs = left.verbs
  BY <1>1 DEF StackInv
<1> QED
  BY <1>1, <1>2 DEF IsVerb, StackInv

(* What every step of the stack comes to.                                  *)
StepSound ==
  /\ made' \in Nat /\ made <= made'
  /\ StackInv'
  /\ IsVerb => \A b \in Branches : Taken(b) /\ (Carried(Base(w, b)) \/ Follows(b))

LEMMA VerbStep ==
  ASSUME StackInv, made' = made, \E r : Verb(r) /\ Sound(r, made)
  PROVE  StepSound
<1>1. made \in Nat
  BY DEF StackInv
<1>2. PICK r : Verb(r) /\ Sound(r, made)
  OBVIOUS
<1>3. made' \in Nat /\ made <= made' /\ Sound(r, made')
  BY <1>1, <1>2
<1> QED
  BY <1>2, <1>3, SoundVerb DEF StepSound

LEMMA QuietStep ==
  ASSUME made' \in Nat, made <= made', StackInv', ~IsVerb
  PROVE  StepSound
  BY DEF StepSound

LEMMA TypedSound ==
  ASSUME StackInv, Typed \/ PruneGone
  PROVE  StepSound
<1>1. made \in Nat /\ made <= made
  BY DEF StackInv
<1>2. ASSUME NEW b, Switch(b) PROVE StepSound
  <2>1. made' = made
    BY <1>2 DEF Switch
  <2> QED
    BY <1>1, <1>2, <2>1, SwitchKeeps, QuietStep
<1>3. ASSUME NEW path \in Paths, Close(path) PROVE StepSound
  <2>1. /\ made' \in Nat /\ made <= made'
        /\ \E r : Verb(r) /\ Sound(r, made')
    BY <1>3, CloseSound
  <2>2. PICK r : Verb(r) /\ Sound(r, made')
    BY <2>1
  <2> QED
    BY <2>1, <2>2, SoundVerb DEF StepSound
<1>4. \A k \in DOMAIN w.line[w.head] : w.line[w.head][k] \in Commits
  <2>1. IsLine(w.line[w.head])
    BY RepoIs DEF StackInv, Stands
  <2> QED
    BY <2>1, LineIs
<1>5. ASSUME NEW k \in DOMAIN w.line[w.head], Reword(k) PROVE StepSound
  <2> DEFINE was == w.line[w.head][k]
             c == [was EXCEPT !.name = @ + 1]
  <2>1. was \in Commits
    BY <1>4
  <2>2. Rewrite(k, c)
    BY <1>5 DEF Reword
  <2> HIDE DEF was
  <2>3. c \in Commits /\ c.id = was.id
    BY <2>1 DEF Commits
  <2> HIDE DEF c
  <2>4. c.id = w.line[w.head][k].id
    BY <2>3 DEF was
  <2> QED
    BY <2>2, <2>3, <2>4, RewriteSound, VerbStep
<1>6. ASSUME NEW k \in DOMAIN w.line[w.head], Amend(k) PROVE StepSound
  <2> DEFINE was == w.line[w.head][k]
             c == [was EXCEPT !.text = @ + 1]
  <2>1. was \in Commits
    BY <1>4
  <2>2. Rewrite(k, c)
    BY <1>6 DEF Amend
  <2> HIDE DEF was
  <2>3. c \in Commits /\ c.id = was.id
    BY <2>1 DEF Commits
  <2> HIDE DEF c
  <2>4. c.id = w.line[w.head][k].id
    BY <2>3 DEF was
  <2> QED
    BY <2>2, <2>3, <2>4, RewriteSound, VerbStep
<1>7. ASSUME NEW b, Restack(b) PROVE StepSound
  <2>1. RestackOnto(b, Base(w, b), FALSE) /\ FALSE \in BOOLEAN
    BY <1>7 DEF Restack
  <2>2. made' = made /\ \E r : Verb(r) /\ Sound(r, made)
    BY <2>1, RestackSound, Zenon
  <2> QED
    BY <2>2, VerbStep
<1>8. ASSUME NEW b, NEW base, RestackAimed(b, base) PROVE StepSound
  <2>1. RestackOnto(b, base, TRUE) /\ TRUE \in BOOLEAN
    BY <1>8 DEF RestackAimed
  <2>2. made' = made /\ \E r : Verb(r) /\ Sound(r, made)
    BY <2>1, RestackSound, Zenon
  <2> QED
    BY <2>2, VerbStep
<1>9. ASSUME NEW b, Resolve(b) PROVE StepSound
  BY <1>1, <1>9, ResolveSound, VerbStep, QuietStep
<1>10. ASSUME NEW target, Fold(target) \/ FoldStay(target) PROVE StepSound
  BY <1>10, FoldVerbSound, VerbStep
<1>11. CASE Undo
  <2>1. made' = made
    BY <1>11 DEF Undo
  <2> QED
    BY <1>1, <1>11, <2>1, UndoKeeps, QuietStep
<1>12. CASE PruneGone
  BY <1>12, PruneSound, VerbStep DEF PruneGone
<1> QED
  BY <1>2, <1>3, <1>5, <1>6, <1>7, <1>8, <1>9, <1>10, <1>11, <1>12 DEF Typed

-----------------------------------------------------------------------------
(***************************************************************************)
(* A pull: who it visits, and the two phases.                              *)
(***************************************************************************)

(* What is beneath a branch, base after base.                              *)
IsBeneath(f, r, b, n) ==
  f = [i \in 0..n |-> IF i = 0 THEN {b} ELSE OneBeneath(r, f[i - 1])]

LEMMA BeneathExists ==
  ASSUME NEW r, NEW b, NEW n \in Nat
  PROVE  \E f : IsBeneath(f, r, b, n)
<1> DEFINE T == {m \in 0..n : \E f : IsBeneath(f, r, b, m)}
<1>1. ASSUME NEW m \in 0..n, \A k \in 0..n : k < m => k \in T
      PROVE  m \in T
  <2>1. CASE m = 0
    <3> DEFINE f == [i \in 0..0 |-> {b}]
    <3>1. \A i \in 0..0 : i = 0
      OBVIOUS
    <3>2. f = [i \in 0..0 |-> IF i = 0 THEN {b} ELSE OneBeneath(r, f[i - 1])]
      BY <3>1, Zenon
    <3>3. IsBeneath(f, r, b, 0)
      BY <3>2 DEF IsBeneath
    <3> QED
      BY <2>1, <3>3
  <2>2. CASE m # 0
    <3>1. m - 1 \in 0..n /\ m - 1 < m /\ m \in 1..n
      BY <2>2
    <3>2. PICK f : IsBeneath(f, r, b, m - 1)
      BY <1>1, <3>1
    <3> DEFINE last == OneBeneath(r, f[m - 1])
               g == [i \in 0..m |-> IF i = m THEN last ELSE f[i]]
    <3>3. \A i \in 0..(m - 1) : f[i] = IF i = 0 THEN {b} ELSE OneBeneath(r, f[i - 1])
      BY <3>2, Zenon DEF IsBeneath
    <3>4. \A i \in 1..m : i - 1 \in 0..m /\ i - 1 # m /\ g[i - 1] = f[i - 1]
      <4> HIDE DEF last
      <4> QED
        BY <3>1
    <3>5. ASSUME NEW i \in 0..m
          PROVE  g[i] = IF i = 0 THEN {b} ELSE OneBeneath(r, g[i - 1])
      <4>1. CASE i = m
        <5>1. g[m] = last /\ g[m - 1] = f[m - 1]
          <6> HIDE DEF last
          <6> QED
            BY <3>1, <3>4
        <5> HIDE DEF g
        <5> QED
          BY <2>2, <4>1, <5>1
      <4>2. CASE i # m
        <5>1. i \in 0..(m - 1) /\ (i # 0 => i \in 1..m) /\ g[i] = f[i]
          <6> HIDE DEF last
          <6> QED
            BY <4>2
        <5> HIDE DEF g
        <5> QED
          BY <3>3, <3>4, <5>1
      <4> QED
        BY <4>1, <4>2
    <3>6. g = [i \in 0..m |-> IF i = 0 THEN {b} ELSE OneBeneath(r, g[i - 1])]
      <4>1. g = [i \in 0..m |-> g[i]]
        <5> HIDE DEF last
        <5> QED
          OBVIOUS
      <4> HIDE DEF g
      <4> QED
        BY <3>5, <4>1, Zenon
    <3>7. IsBeneath(g, r, b, m)
      <4> HIDE DEF g
      <4> QED
        BY <3>6, Zenon DEF IsBeneath
    <3> QED
      BY <3>7
  <2> QED
    BY <2>1, <2>2
<1>2. 0..n \subseteq T
  <2> HIDE DEF T
  <2> QED
    BY <1>1, AllNumbers
<1> QED
  BY <1>2

Found(f, r, b) ==
  /\ Beneath(r, b) = f[Cardinality(Branches)]
  /\ f[0] = {b}
  /\ \A i \in 1..Cardinality(Branches) : f[i] = OneBeneath(r, f[i - 1])

LEMMA BeneathDef ==
  ASSUME NEW r, NEW b
  PROVE  \E f : Found(f, r, b)
<1> DEFINE f == CHOOSE g : IsBeneath(g, r, b, Cardinality(Branches))
<1>1. Cardinality(Branches) \in Nat
  BY BranchesAssumption, FS_CardinalityType
<1>2. IsBeneath(f, r, b, Cardinality(Branches))
  BY <1>1, BeneathExists
<1>3. Beneath(r, b) = f[Cardinality(Branches)]
  BY Zenon DEF Beneath, IsBeneath
<1>4. 0 \in 0..Cardinality(Branches) /\ \A i \in 1..Cardinality(Branches) : i \in 0..Cardinality(Branches) /\ i # 0
  BY <1>1
<1>5. \A i \in 0..Cardinality(Branches) : f[i] = IF i = 0 THEN {b} ELSE OneBeneath(r, f[i - 1])
  <2> HIDE DEF f
  <2> QED
    BY <1>2, Zenon DEF IsBeneath
<1>6. f[0] = {b} /\ \A i \in 1..Cardinality(Branches) : f[i] = OneBeneath(r, f[i - 1])
  <2> HIDE DEF f
  <2> QED
    BY <1>4, <1>5, Zenon
<1> HIDE DEF f
<1> QED
  BY <1>3, <1>6 DEF Found

(* The remote phase, branch after branch.                                  *)
IsCopies(f, visited, at, n) ==
  f = [i \in 0..n |-> IF i = 0 THEN [run |-> Unplanned, todo |-> visited] ELSE TakeCopy(f[i - 1], at)]

LEMMA CopiesExists ==
  ASSUME NEW visited, NEW at, NEW n \in Nat
  PROVE  \E f : IsCopies(f, visited, at, n)
<1> DEFINE T == {m \in 0..n : \E f : IsCopies(f, visited, at, m)}
<1>1. ASSUME NEW m \in 0..n, \A k \in 0..n : k < m => k \in T
      PROVE  m \in T
  <2>1. CASE m = 0
    <3> DEFINE f == [i \in 0..0 |-> [run |-> Unplanned, todo |-> visited]]
    <3>1. \A i \in 0..0 : i = 0
      OBVIOUS
    <3>2. f = [i \in 0..0 |-> IF i = 0 THEN [run |-> Unplanned, todo |-> visited] ELSE TakeCopy(f[i - 1], at)]
      BY <3>1, Zenon
    <3>3. IsCopies(f, visited, at, 0)
      BY <3>2 DEF IsCopies
    <3> QED
      BY <2>1, <3>3
  <2>2. CASE m # 0
    <3>1. m - 1 \in 0..n /\ m - 1 < m /\ m \in 1..n
      BY <2>2
    <3>2. PICK f : IsCopies(f, visited, at, m - 1)
      BY <1>1, <3>1
    <3> DEFINE last == TakeCopy(f[m - 1], at)
               g == [i \in 0..m |-> IF i = m THEN last ELSE f[i]]
    <3>3. \A i \in 0..(m - 1) : f[i] = IF i = 0 THEN [run |-> Unplanned, todo |-> visited] ELSE TakeCopy(f[i - 1], at)
      BY <3>2, Zenon DEF IsCopies
    <3>4. \A i \in 1..m : i - 1 \in 0..m /\ i - 1 # m /\ g[i - 1] = f[i - 1]
      <4> HIDE DEF last
      <4> QED
        BY <3>1
    <3>5. ASSUME NEW i \in 0..m
          PROVE  g[i] = IF i = 0 THEN [run |-> Unplanned, todo |-> visited] ELSE TakeCopy(g[i - 1], at)
      <4>1. CASE i = m
        <5>1. g[m] = last /\ g[m - 1] = f[m - 1]
          <6> HIDE DEF last
          <6> QED
            BY <3>1, <3>4
        <5> HIDE DEF g
        <5> QED
          BY <2>2, <4>1, <5>1
      <4>2. CASE i # m
        <5>1. i \in 0..(m - 1) /\ (i # 0 => i \in 1..m) /\ g[i] = f[i]
          <6> HIDE DEF last
          <6> QED
            BY <4>2
        <5> HIDE DEF g
        <5> QED
          BY <3>3, <3>4, <5>1
      <4> QED
        BY <4>1, <4>2
    <3>6. g = [i \in 0..m |-> IF i = 0 THEN [run |-> Unplanned, todo |-> visited] ELSE TakeCopy(g[i - 1], at)]
      <4>1. g = [i \in 0..m |-> g[i]]
        <5> HIDE DEF last
        <5> QED
          OBVIOUS
      <4> HIDE DEF g
      <4> QED
        BY <3>5, <4>1, Zenon
    <3>7. IsCopies(g, visited, at, m)
      <4> HIDE DEF g
      <4> QED
        BY <3>6, Zenon DEF IsCopies
    <3> QED
      BY <3>7
  <2> QED
    BY <2>1, <2>2
<1>2. 0..n \subseteq T
  <2> HIDE DEF T
  <2> QED
    BY <1>1, AllNumbers
<1> QED
  BY <1>2

LEMMA CopiesDef ==
  ASSUME NEW visited, NEW at, Cardinality(visited) \in Nat
  PROVE  \E f : /\ Copies(visited, at) = f[Cardinality(visited)].run
                /\ f[0] = [run |-> Unplanned, todo |-> visited]
                /\ \A i \in 1..Cardinality(visited) : f[i] = TakeCopy(f[i - 1], at)
<1> DEFINE f == CHOOSE g : IsCopies(g, visited, at, Cardinality(visited))
<1>1. Cardinality(visited) \in Nat
  OBVIOUS
<1>2. IsCopies(f, visited, at, Cardinality(visited))
  BY <1>1, CopiesExists
<1>3. Copies(visited, at) = f[Cardinality(visited)].run
  BY Zenon DEF Copies, IsCopies
<1>4. 0 \in 0..Cardinality(visited) /\ \A i \in 1..Cardinality(visited) : i \in 0..Cardinality(visited) /\ i # 0
  BY <1>1
<1>5. \A i \in 0..Cardinality(visited) : f[i] = IF i = 0 THEN [run |-> Unplanned, todo |-> visited] ELSE TakeCopy(f[i - 1], at)
  <2> HIDE DEF f
  <2> QED
    BY <1>2, Zenon DEF IsCopies
<1>6. f[0] = [run |-> Unplanned, todo |-> visited] /\ \A i \in 1..Cardinality(visited) : f[i] = TakeCopy(f[i - 1], at)
  <2> HIDE DEF f
  <2> QED
    BY <1>4, <1>5, Zenon
<1> HIDE DEF f
<1> QED
  BY <1>3, <1>6

(* The base phase, branch after branch.                                    *)
IsBases(f, visited, parents, copies, n) ==
  f = [i \in 0..n |-> IF i = 0 THEN [run |-> copies, todo |-> visited] ELSE FollowBase(f[i - 1], parents)]

LEMMA BasesExists ==
  ASSUME NEW visited, NEW parents, NEW copies, NEW n \in Nat
  PROVE  \E f : IsBases(f, visited, parents, copies, n)
<1> DEFINE T == {m \in 0..n : \E f : IsBases(f, visited, parents, copies, m)}
<1>1. ASSUME NEW m \in 0..n, \A k \in 0..n : k < m => k \in T
      PROVE  m \in T
  <2>1. CASE m = 0
    <3> DEFINE f == [i \in 0..0 |-> [run |-> copies, todo |-> visited]]
    <3>1. \A i \in 0..0 : i = 0
      OBVIOUS
    <3>2. f = [i \in 0..0 |-> IF i = 0 THEN [run |-> copies, todo |-> visited] ELSE FollowBase(f[i - 1], parents)]
      BY <3>1, Zenon
    <3>3. IsBases(f, visited, parents, copies, 0)
      BY <3>2 DEF IsBases
    <3> QED
      BY <2>1, <3>3
  <2>2. CASE m # 0
    <3>1. m - 1 \in 0..n /\ m - 1 < m /\ m \in 1..n
      BY <2>2
    <3>2. PICK f : IsBases(f, visited, parents, copies, m - 1)
      BY <1>1, <3>1
    <3> DEFINE last == FollowBase(f[m - 1], parents)
               g == [i \in 0..m |-> IF i = m THEN last ELSE f[i]]
    <3>3. \A i \in 0..(m - 1) : f[i] = IF i = 0 THEN [run |-> copies, todo |-> visited] ELSE FollowBase(f[i - 1], parents)
      BY <3>2, Zenon DEF IsBases
    <3>4. \A i \in 1..m : i - 1 \in 0..m /\ i - 1 # m /\ g[i - 1] = f[i - 1]
      <4> HIDE DEF last
      <4> QED
        BY <3>1
    <3>5. ASSUME NEW i \in 0..m
          PROVE  g[i] = IF i = 0 THEN [run |-> copies, todo |-> visited] ELSE FollowBase(g[i - 1], parents)
      <4>1. CASE i = m
        <5>1. g[m] = last /\ g[m - 1] = f[m - 1]
          <6> HIDE DEF last
          <6> QED
            BY <3>1, <3>4
        <5> HIDE DEF g
        <5> QED
          BY <2>2, <4>1, <5>1
      <4>2. CASE i # m
        <5>1. i \in 0..(m - 1) /\ (i # 0 => i \in 1..m) /\ g[i] = f[i]
          <6> HIDE DEF last
          <6> QED
            BY <4>2
        <5> HIDE DEF g
        <5> QED
          BY <3>3, <3>4, <5>1
      <4> QED
        BY <4>1, <4>2
    <3>6. g = [i \in 0..m |-> IF i = 0 THEN [run |-> copies, todo |-> visited] ELSE FollowBase(g[i - 1], parents)]
      <4>1. g = [i \in 0..m |-> g[i]]
        <5> HIDE DEF last
        <5> QED
          OBVIOUS
      <4> HIDE DEF g
      <4> QED
        BY <3>5, <4>1, Zenon
    <3>7. IsBases(g, visited, parents, copies, m)
      <4> HIDE DEF g
      <4> QED
        BY <3>6, Zenon DEF IsBases
    <3> QED
      BY <3>7
  <2> QED
    BY <2>1, <2>2
<1>2. 0..n \subseteq T
  <2> HIDE DEF T
  <2> QED
    BY <1>1, AllNumbers
<1> QED
  BY <1>2

LEMMA BasesDef ==
  ASSUME NEW visited, NEW parents, NEW copies, Cardinality(visited) \in Nat
  PROVE  \E f : /\ Bases(visited, parents, copies) = f[Cardinality(visited)].run
                /\ f[0] = [run |-> copies, todo |-> visited]
                /\ \A i \in 1..Cardinality(visited) : f[i] = FollowBase(f[i - 1], parents)
<1> DEFINE f == CHOOSE g : IsBases(g, visited, parents, copies, Cardinality(visited))
<1>1. Cardinality(visited) \in Nat
  OBVIOUS
<1>2. IsBases(f, visited, parents, copies, Cardinality(visited))
  BY <1>1, BasesExists
<1>3. Bases(visited, parents, copies) = f[Cardinality(visited)].run
  BY Zenon DEF Bases, IsBases
<1>4. 0 \in 0..Cardinality(visited) /\ \A i \in 1..Cardinality(visited) : i \in 0..Cardinality(visited) /\ i # 0
  BY <1>1
<1>5. \A i \in 0..Cardinality(visited) : f[i] = IF i = 0 THEN [run |-> copies, todo |-> visited] ELSE FollowBase(f[i - 1], parents)
  <2> HIDE DEF f
  <2> QED
    BY <1>2, Zenon DEF IsBases
<1>6. f[0] = [run |-> copies, todo |-> visited] /\ \A i \in 1..Cardinality(visited) : f[i] = FollowBase(f[i - 1], parents)
  <2> HIDE DEF f
  <2> QED
    BY <1>4, <1>5, Zenon
<1> HIDE DEF f
<1> QED
  BY <1>3, <1>6

LEMMA BeneathLive ==
  ASSUME NEW r, NEW b \in Live(r)
  PROVE  Beneath(r, b) \subseteq Live(r)
<1> DEFINE n == Cardinality(Branches)
<1>1. n \in Nat
  BY BranchesAssumption, FS_CardinalityType
<1>2. PICK f : /\ Beneath(r, b) = f[n]
               /\ f[0] = {b}
               /\ \A i \in 1..n : f[i] = OneBeneath(r, f[i - 1])
  <2>1. \E f : Found(f, r, b)
    BY BeneathDef
  <2> QED
    BY <2>1 DEF Found
<1> HIDE DEF n
<1> DEFINE T == {i \in 0..n : f[i] \subseteq Live(r)}
<1>3. ASSUME NEW i \in 0..n, \A k \in 0..n : k < i => k \in T
      PROVE  i \in T
  <2>1. CASE i = 0
    BY <1>2, <2>1
  <2>2. CASE i # 0
    <3>1. i - 1 \in 0..n /\ i - 1 < i /\ i \in 1..n
      BY <1>1, <2>2
    <3>2. f[i - 1] \subseteq Live(r)
      BY <1>3, <3>1
    <3>3. \A c : Base(r, c) = None \/ Base(r, c) \in Live(r)
      BY BaseLive
    <3>4. OneBeneath(r, f[i - 1]) \subseteq Live(r)
      BY <3>2, <3>3 DEF OneBeneath
    <3> QED
      BY <1>2, <3>1, <3>4
  <2> QED
    BY <2>1, <2>2
<1>4. 0..n \subseteq T
  <2> HIDE DEF T
  <2> QED
    BY <1>1, <1>3, AllNumbers
<1> QED
  BY <1>1, <1>2, <1>4

LEMMA ScopesLive == ASSUME NEW scope \in Scopes PROVE scope \subseteq Live(w)
<1>1. PICK seeds \in (SUBSET Live(w)) \ {{}} : scope = Chosen(seeds)
  BY DEF Scopes
<1>2. \A b \in seeds : Beneath(w, b) \subseteq Live(w)
  BY BeneathLive
<1>3. scope = UNION {Beneath(w, b) : b \in seeds}
  BY <1>1 DEF Chosen
<1> QED
  BY <1>2, <1>3

(* Of what is left to visit, one has the fewest beneath it.                *)
LEMMA BaseOrderIs ==
  ASSUME NEW todo, todo \subseteq Live(w), todo # {}
  PROVE  BaseOrder(todo) \in todo
<1> DEFINE size(b) == Cardinality(Beneath(w, b))
           S == {size(b) : b \in todo}
<1>1. \A b \in todo : size(b) \in Nat
  <2> TAKE b \in todo
  <2>1. Beneath(w, b) \subseteq Branches
    BY BeneathLive DEF Live
  <2> QED
    BY <2>1, BranchesAssumption, FS_Subset, FS_CardinalityType
<1> HIDE DEF size
<1>2. S \subseteq Nat /\ S # {}
  BY <1>1
<1>3. PICK m \in S : \A k \in S : m <= k
  <2> HIDE DEF S
  <2> QED
    BY <1>2, LeastNumber
<1>4. PICK b \in todo : m = size(b)
  BY <1>3
<1>5. \A c \in todo : size(b) <= size(c)
  BY <1>3, <1>4
<1>6. \E d \in todo : \A c \in todo : Cardinality(Beneath(w, d)) <= Cardinality(Beneath(w, c))
  BY <1>5 DEF size
<1> QED
  BY <1>6, Zenon DEF BaseOrder

LEMMA HereFirstIs ==
  ASSUME NEW todo, todo \subseteq Live(w), todo # {}
  PROVE  HereFirst(todo) \in todo
<1> DEFINE S == {NameOrder[b] : b \in todo}
<1>1. \A b \in todo : NameOrder[b] \in Nat
  BY NameOrderAssumption DEF Live
<1>2. S \subseteq Nat /\ S # {}
  BY <1>1
<1>3. PICK m \in S : \A k \in S : m <= k
  <2> HIDE DEF S
  <2> QED
    BY <1>2, LeastNumber
<1>4. PICK b \in todo : m = NameOrder[b]
  BY <1>3
<1>5. \A c \in todo : NameOrder[b] <= NameOrder[c]
  BY <1>3, <1>4
<1>6. FirstNamed(todo) \in todo
  BY <1>5, Zenon DEF FirstNamed
<1> QED
  BY <1>6 DEF HereFirst

(* What is planned so far is a repository of the same branches, with HEAD  *)
(* where it was.                                                           *)
PlannedOn(r) == RepoKnown(r, made) /\ Live(r) = Live(w) /\ r.head = w.head
RunOK(run) == DOMAIN run = {"r", "read", "failed"} /\ PlannedOn(run.r)

LEMMA RunWith ==
  ASSUME NEW run, RunOK(run), NEW r, PlannedOn(r)
  PROVE  RunOK([run EXCEPT !.r = r])
  BY DEF RunOK

LEMMA LandsOn ==
  ASSUME NEW r, PlannedOn(r), NEW b \in Live(w), NEW new, Known(new, made)
  PROVE  PlannedOn(Landed(r, b, new))
<1>1. /\ RepoKnown(Landed(r, b, new), made) /\ Live(Landed(r, b, new)) = Live(r) /\ SameBut(r, Landed(r, b, new))
  BY LandedIs DEF PlannedOn
<1> QED
  BY <1>1 DEF PlannedOn, SameBut

LEMMA RestacksKeeps ==
  ASSUME NEW run, RunOK(run), NEW b \in Live(w), NEW onto, NEW line, Known(line, made),
         NEW stands, \A l \in stands : IsLine(l)
  PROVE  RunOK(Restacks(run, b, onto, line, stands))
<1> DEFINE tip == run.r.line[b]
           from == ForkedFrom(tip, line, stands)
           done == Replay(tip, from, line, FALSE)
           s == [run.r EXCEPT !.old = @ \cup Above(tip, from)]
           h == [run.r EXCEPT !.held[b] = onto]
<1>1. PlannedOn(run.r) /\ RepoKnown(run.r, made)
  BY DEF RunOK, PlannedOn
<1>2. /\ DOMAIN run.r = {"head", "line", "parent", "held", "stays", "old"}
      /\ DOMAIN run.r.line = Branches /\ DOMAIN run.r.parent = Branches /\ DOMAIN run.r.held = Branches
      /\ \A c \in Live(run.r) : Known(run.r.line[c], made)
      /\ run.r.head \in Live(run.r)
  BY <1>1, RepoIs
<1>3. Known(tip, made) /\ IsLine(tip) /\ IsLine(line)
  BY <1>1, <1>2 DEF PlannedOn, Known
<1>4. from \in 0..Len(tip)
  BY <1>3, ForkedFromIs
<1>5. /\ DOMAIN s = DOMAIN run.r /\ s.line = run.r.line /\ s.parent = run.r.parent /\ s.held = run.r.held
      /\ s.head = run.r.head
  BY <1>2
<1>6. /\ DOMAIN h = DOMAIN run.r /\ h.line = run.r.line /\ h.parent = run.r.parent /\ DOMAIN h.held = Branches
      /\ h.head = run.r.head
  BY <1>2
<1>7. FALSE \in BOOLEAN
  OBVIOUS
<1> HIDE DEF tip, from, s, h
<1>8. IsLine(done.line) /\ Ids(done.line) \subseteq Ids(line) \cup Ids(tip)
  BY <1>3, <1>4, <1>7, ReplayIs, Zenon
<1>9. Known(done.line, made)
  BY <1>3, <1>8 DEF Known
<1> HIDE DEF done
<1>10. Live(s) = Live(w) /\ Live(h) = Live(w)
  BY <1>1, <1>5, <1>6 DEF PlannedOn, Live
<1>11. PlannedOn(s) /\ PlannedOn(h)
  <2>1. \A c \in Live(w) : Known(run.r.line[c], made)
    BY <1>1, <1>2 DEF PlannedOn
  <2> QED
    BY <1>1, <1>2, <1>5, <1>6, <1>10, <2>1, RepoMade DEF PlannedOn
<1>12. PlannedOn(Landed(run.r, b, line)) /\ PlannedOn(Landed(s, b, done.line))
  BY <1>1, <1>9, <1>11, LandsOn
<1>13. RunOK([run EXCEPT !.failed = TRUE])
  BY DEF RunOK
<1>14. /\ RunOK([run EXCEPT !.r = Landed(run.r, b, line)])
       /\ RunOK([run EXCEPT !.r = Landed(s, b, done.line)])
       /\ RunOK([run EXCEPT !.r = h])
  BY <1>11, <1>12, RunWith
<1>15. [run EXCEPT !.r.held[b] = onto] = [run EXCEPT !.r = h]
  BY DEF h
<1>16. RunOK(Holds(run, b, onto))
  BY <1>13, <1>14, <1>15 DEF Holds, Stopped
<1>17. Restacks(run, b, onto, line, stands) \in
         {run, [run EXCEPT !.r = Landed(run.r, b, line)], [run EXCEPT !.failed = TRUE],
          [run EXCEPT !.r = Landed(s, b, done.line)], Holds(run, b, onto)}
  BY DEF Restacks, Stopped, tip, from, done, s
<1> QED
  BY <1>13, <1>14, <1>16, <1>17

(* What a fetch made of the tracking refs.                                 *)
AtOK(at) ==
  /\ \A b \in Branches : at.after[b] # None => Known(at.after[b], made)
  /\ \A b \in Branches : \A l \in at.stood[b] : IsLine(l)

LEMMA AtIs ==
  ASSUME RemoteInv, NEW fetched \in BOOLEAN
  PROVE  /\ AtOK(At(fetched)) /\ RefsKnown(At(fetched).after, made) /\ AllLines(At(fetched).stood)
<1> DEFINE after == IF fetched THEN copy ELSE tracking
           met == [b \in Branches |-> IF copy[b] = None THEN {} ELSE stood[b] \cup {copy[b]}]
           places == IF fetched THEN met ELSE stood
<1>1. At(fetched).after = after /\ At(fetched).stood = places
  BY DEF At
<1>2. RefsKnown(after, made) /\ RefsKnown(copy, made) /\ AllLines(stood)
  BY DEF RemoteInv
<1>3. AllLines(met)
  <2>1. ASSUME NEW b \in Branches, NEW l \in met[b] PROVE IsLine(l)
    <3>1. copy[b] # None /\ (l \in stood[b] \/ l = copy[b])
      BY <2>1
    <3>2. l = copy[b] => IsLine(l)
      BY <1>2, <3>1 DEF RefsKnown, Known
    <3>3. l \in stood[b] => IsLine(l)
      BY <1>2 DEF AllLines
    <3> QED
      BY <3>1, <3>2, <3>3
  <2>2. DOMAIN met = Branches
    OBVIOUS
  <2> HIDE DEF met
  <2> QED
    BY <2>1, <2>2 DEF AllLines
<1> HIDE DEF met
<1>4. AllLines(places)
  BY <1>2, <1>3
<1> HIDE DEF after, places
<1> QED
  BY <1>1, <1>2, <1>4 DEF AtOK, RefsKnown, AllLines

LEMMA RemoteAxisKeeps ==
  ASSUME NEW run, RunOK(run), NEW b \in Live(w), NEW at, AtOK(at)
  PROVE  RunOK(RemoteAxis(run, b, at))
<1>1. b \in Branches
  BY DEF Live
<1>2. \A l \in at.stood[b] : IsLine(l)
  BY <1>1 DEF AtOK
<1> DEFINE marked == Marked(run, b)
<1>0. RunOK(marked)
  <2>1. DOMAIN marked = DOMAIN run /\ marked.r = run.r
    BY DEF Marked, RunOK
  <2> QED
    BY <2>1 DEF RunOK
<1> HIDE DEF marked
<1>3. CASE ~Reads(run, b, at)
  <2>1. RemoteAxis(run, b, at) = run
    BY <1>3 DEF RemoteAxis
  <2> QED
    BY <2>1
<1>4. CASE at.after[b] # None
  <2> DEFINE copied == [marked.r EXCEPT !.line[b] = at.after[b]]
  <2>1. Known(at.after[b], made)
    BY <1>1, <1>4 DEF AtOK
  <2>2. RunOK(Restacks(marked, b, b, at.after[b], at.stood[b]))
    BY <1>0, <1>2, <2>1, RestacksKeeps
  <2>3. /\ DOMAIN marked.r = {"head", "line", "parent", "held", "stays", "old"}
        /\ DOMAIN marked.r.line = Branches /\ DOMAIN marked.r.parent = Branches /\ DOMAIN marked.r.held = Branches
        /\ \A c \in Live(w) : Known(marked.r.line[c], made)
        /\ marked.r.head = w.head /\ w.head \in Live(w) /\ Live(marked.r) = Live(w)
    BY <1>0, RepoIs DEF RunOK, PlannedOn
  <2>4. /\ DOMAIN copied = DOMAIN marked.r /\ copied.parent = marked.r.parent /\ copied.held = marked.r.held
        /\ copied.head = marked.r.head /\ DOMAIN copied.line = Branches /\ copied.line[b] = at.after[b]
        /\ \A c \in Branches \ {b} : copied.line[c] = marked.r.line[c]
    BY <1>1, <2>3
  <2> HIDE DEF copied
  <2>5. Live(copied) = Live(w)
    <3>1. \A c \in Branches : copied.line[c] # None <=> marked.r.line[c] # None
      BY <1>4, <2>3, <2>4 DEF Live
    <3> QED
      BY <2>3, <3>1 DEF Live
  <2>6. PlannedOn(copied)
    <3>1. \A c \in Live(copied) : Known(copied.line[c], made)
      BY <2>1, <2>3, <2>4, <2>5 DEF Live
    <3> QED
      BY <2>3, <2>4, <2>5, <3>1, RepoMade DEF PlannedOn
  <2>7. RunOK([marked EXCEPT !.r = copied])
    BY <2>6, <1>0, RunWith
  <2>8. [marked EXCEPT !.r.line[b] = at.after[b]] = [marked EXCEPT !.r = copied]
    BY DEF copied
  <2>9. RemoteAxis(run, b, at) \in {run, marked, Restacks(marked, b, b, at.after[b], at.stood[b]), [marked EXCEPT !.r = copied]}
    <3>1. RemoteHere(marked, b, at) \in {marked, Restacks(marked, b, b, at.after[b], at.stood[b])}
      BY DEF RemoteHere
    <3>2. RemoteThere(marked, b, at) \in {marked, Restacks(marked, b, b, at.after[b], at.stood[b]), [marked EXCEPT !.r = copied]}
      BY <2>8 DEF RemoteThere
    <3> QED
      BY <3>1, <3>2 DEF RemoteAxis, marked
  <2> QED
    BY <1>0, <2>2, <2>7, <2>9
<1> QED
  BY <1>3, <1>4 DEF Reads

LEMMA BaseAxisKeeps ==
  ASSUME StackInv, NEW run, RunOK(run), NEW b \in Live(w), NEW parents
  PROVE  RunOK(BaseAxis(run, b, parents))
<1> DEFINE q == [run.r EXCEPT !.parent = parents]
           base == Base(q, b)
<1>1. /\ DOMAIN run.r = {"head", "line", "parent", "held", "stays", "old"}
      /\ \A c \in Live(w) : Known(run.r.line[c], made)
      /\ Live(run.r) = Live(w)
  BY RepoIs DEF RunOK, PlannedOn
<1>2. Live(q) = Live(w)
  <2>1. q.line = run.r.line
    BY <1>1
  <2> QED
    BY <1>1, <2>1 DEF Live
<1>3. base = None \/ base \in Live(w)
  <2> HIDE DEF q
  <2> QED
    BY <1>2, BaseLive
<1>4. CASE base = None
  <2>1. BaseAxis(run, b, parents) = run
    BY <1>4 DEF BaseAxis
  <2> QED
    BY <2>1
<1>5. CASE base # None
  <2>1. BaseAxis(run, b, parents) \in {run, Restacks(run, b, base, run.r.line[base], been[base])}
    BY DEF BaseAxis
  <2> HIDE DEF base, q
  <2>2. Known(run.r.line[base], made) /\ base \in Branches
    BY <1>1, <1>3, <1>5 DEF Live
  <2>3. \A l \in been[base] : IsLine(l)
    BY <2>2 DEF StackInv, AllLines
  <2>4. RunOK(Restacks(run, b, base, run.r.line[base], been[base]))
    BY <2>2, <2>3, RestacksKeeps
  <2> QED
    BY <2>1, <2>4
<1> QED
  BY <1>4, <1>5

(* A phase part way: a plan, and who is left to visit.                     *)
PhaseOK(step, visited, k) ==
  /\ RunOK(step.run)
  /\ step.todo \subseteq visited /\ Cardinality(step.todo) = Cardinality(visited) - k

LEMMA PhaseStep ==
  ASSUME NEW visited, visited \subseteq Live(w), NEW k \in 1..Cardinality(visited), NEW todo,
         todo \subseteq visited, Cardinality(todo) = Cardinality(visited) - (k - 1)
  PROVE  /\ todo \subseteq Live(w) /\ todo # {}
         /\ \A b \in todo : todo \ {b} \subseteq visited /\ Cardinality(todo \ {b}) = Cardinality(visited) - k
<1>1. IsFiniteSet(visited) /\ IsFiniteSet(todo)
  <2>1. visited \subseteq Branches
    BY DEF Live
  <2> QED
    BY <2>1, BranchesAssumption, FS_Subset
<1>2. Cardinality(visited) \in Nat
  BY <1>1, FS_CardinalityType
<1>3. todo # {}
  <2>1. Cardinality({}) = 0
    BY FS_EmptySet
  <2> QED
    BY <1>2, <2>1
<1>4. ASSUME NEW b \in todo PROVE Cardinality(todo \ {b}) = Cardinality(visited) - k
  <2>1. Cardinality(todo \ {b}) = Cardinality(todo) - 1
    BY <1>1, FS_RemoveElement
  <2> QED
    BY <1>2, <2>1
<1> QED
  BY <1>3, <1>4

LEMMA CopiesKeeps ==
  ASSUME StackInv, NEW visited, visited \subseteq Live(w), NEW at, AtOK(at)
  PROVE  RunOK(Copies(visited, at))
<1> DEFINE n == Cardinality(visited)
<1>1. n \in Nat
  <2>1. visited \subseteq Branches
    BY DEF Live
  <2> QED
    BY <2>1, BranchesAssumption, FS_Subset, FS_CardinalityType
<1>2. PICK f : /\ Copies(visited, at) = f[n].run
               /\ f[0] = [run |-> Unplanned, todo |-> visited]
               /\ \A i \in 1..n : f[i] = TakeCopy(f[i - 1], at)
  BY <1>1, CopiesDef
<1>3. RunOK(Unplanned)
  BY DEF RunOK, PlannedOn, Unplanned, StackInv, Stands
<1> DEFINE T == {i \in 0..n : PhaseOK(f[i], visited, i)}
<1>4. ASSUME NEW i \in 0..n, \A k \in 0..n : k < i => k \in T
      PROVE  i \in T
  <2>1. CASE i = 0
    <3>1. f[0].todo = visited /\ RunOK(f[0].run) /\ n - 0 = n
      BY <1>1, <1>2, <1>3
    <3> QED
      BY <2>1, <3>1 DEF PhaseOK
  <2>2. CASE i # 0
    <3> DEFINE step == f[i - 1]
               b == HereFirst(step.todo)
    <3>1. i - 1 \in 0..n /\ i - 1 < i /\ i \in 1..n
      BY <1>1, <2>2
    <3>2. PhaseOK(step, visited, i - 1)
      BY <1>4, <3>1
    <3>3. f[i] = TakeCopy(step, at)
      BY <1>2, <3>1
    <3> HIDE DEF step
    <3>4. /\ step.todo \subseteq Live(w) /\ step.todo # {}
          /\ \A c \in step.todo : /\ step.todo \ {c} \subseteq visited
                                  /\ Cardinality(step.todo \ {c}) = Cardinality(visited) - i
      BY <3>1, <3>2, PhaseStep DEF PhaseOK, n
    <3>5. b \in step.todo
      BY <3>4, HereFirstIs
    <3>6. RunOK(RemoteAxis(step.run, b, at))
      BY <3>2, <3>4, <3>5, RemoteAxisKeeps DEF PhaseOK
    <3>7. f[i].run = RemoteAxis(step.run, b, at) /\ f[i].todo = step.todo \ {b}
      BY <3>3 DEF TakeCopy
    <3> HIDE DEF b
    <3>8. PhaseOK(f[i], visited, i)
      BY <3>4, <3>5, <3>6, <3>7 DEF PhaseOK
    <3> QED
      BY <3>8
  <2> QED
    BY <2>1, <2>2
<1>5. 0..n \subseteq T
  <2> HIDE DEF T, n
  <2> QED
    BY <1>1, <1>4, AllNumbers
<1>6. PhaseOK(f[n], visited, n)
  BY <1>1, <1>5
<1> QED
  BY <1>2, <1>6 DEF PhaseOK

LEMMA BasesKeeps ==
  ASSUME StackInv, NEW visited, visited \subseteq Live(w), NEW parents, NEW copies, RunOK(copies)
  PROVE  RunOK(Bases(visited, parents, copies))
<1> DEFINE n == Cardinality(visited)
<1>1. n \in Nat
  <2>1. visited \subseteq Branches
    BY DEF Live
  <2> QED
    BY <2>1, BranchesAssumption, FS_Subset, FS_CardinalityType
<1>2. PICK f : /\ Bases(visited, parents, copies) = f[n].run
               /\ f[0] = [run |-> copies, todo |-> visited]
               /\ \A i \in 1..n : f[i] = FollowBase(f[i - 1], parents)
  BY <1>1, BasesDef
<1>3. RunOK(copies)
  OBVIOUS
<1> DEFINE T == {i \in 0..n : PhaseOK(f[i], visited, i)}
<1>4. ASSUME NEW i \in 0..n, \A k \in 0..n : k < i => k \in T
      PROVE  i \in T
  <2>1. CASE i = 0
    <3>1. f[0].todo = visited /\ RunOK(f[0].run) /\ n - 0 = n
      BY <1>1, <1>2, <1>3
    <3> QED
      BY <2>1, <3>1 DEF PhaseOK
  <2>2. CASE i # 0
    <3> DEFINE step == f[i - 1]
               b == BaseOrder(step.todo)
    <3>1. i - 1 \in 0..n /\ i - 1 < i /\ i \in 1..n
      BY <1>1, <2>2
    <3>2. PhaseOK(step, visited, i - 1)
      BY <1>4, <3>1
    <3>3. f[i] = FollowBase(step, parents)
      BY <1>2, <3>1
    <3> HIDE DEF step
    <3>4. /\ step.todo \subseteq Live(w) /\ step.todo # {}
          /\ \A c \in step.todo : /\ step.todo \ {c} \subseteq visited
                                  /\ Cardinality(step.todo \ {c}) = Cardinality(visited) - i
      BY <3>1, <3>2, PhaseStep DEF PhaseOK, n
    <3>5. b \in step.todo
      BY <3>4, BaseOrderIs
    <3>6. RunOK(BaseAxis(step.run, b, parents))
      BY <3>2, <3>4, <3>5, BaseAxisKeeps DEF PhaseOK
    <3>7. f[i].run = BaseAxis(step.run, b, parents) /\ f[i].todo = step.todo \ {b}
      BY <3>3 DEF FollowBase
    <3> HIDE DEF b
    <3>8. PhaseOK(f[i], visited, i)
      BY <3>4, <3>5, <3>6, <3>7 DEF PhaseOK
    <3> QED
      BY <3>8
  <2> QED
    BY <2>1, <2>2
<1>5. 0..n \subseteq T
  <2> HIDE DEF T, n
  <2> QED
    BY <1>1, <1>4, AllNumbers
<1>6. PhaseOK(f[n], visited, n)
  BY <1>1, <1>5
<1> QED
  BY <1>2, <1>6 DEF PhaseOK

(* What a run over its scope plans stands as the repository did.           *)
LEMMA PlannedStands ==
  ASSUME StackInv, RemoteInv, NEW scope \in Scopes, NEW fetched \in BOOLEAN, NEW prune \in BOOLEAN
  PROVE  Stands(Planned(scope, fetched, prune).r, made, other)
<1> DEFINE at == At(fetched)
           deletes == IF prune THEN Prunable(Vanished(at), Record) ELSE {}
           parents == IF prune THEN Parents(deletes) ELSE w.parent
           visited == scope \ deletes
           run == Bases(visited, parents, Copies(visited, at))
           q == [run.r EXCEPT !.parent = parents]
           e == Deleted(q, deletes)
           r == [e EXCEPT !.held = run.r.held]
<1>1. RepoKnown(w, made) /\ w.head # other /\ DOMAIN w.parent = Branches
  BY RepoIs DEF StackInv, Stands
<1>2. AtOK(at)
  BY AtIs
<1>3. visited \subseteq Live(w)
  BY ScopesLive
<1>4. w.head \notin deletes
  BY DEF Prunable
<1>5. DOMAIN parents = Branches
  BY <1>1 DEF Parents
<1>6. Planned(scope, fetched, prune).r = IF run.failed THEN w ELSE r
  BY DEF Planned, Outcome, Written
<1> HIDE DEF at, deletes, parents, visited
<1>7. RunOK(run)
  BY <1>2, <1>3, CopiesKeeps, BasesKeeps
<1> HIDE DEF run
<1>8. /\ DOMAIN run.r = {"head", "line", "parent", "held", "stays", "old"}
      /\ DOMAIN run.r.line = Branches /\ DOMAIN run.r.held = Branches
      /\ \A c \in Live(w) : Known(run.r.line[c], made)
      /\ run.r.head = w.head /\ w.head \in Live(w) /\ Live(run.r) = Live(w)
  BY <1>7, RepoIs DEF RunOK, PlannedOn
<1>9. /\ DOMAIN q = DOMAIN run.r /\ q.line = run.r.line /\ q.held = run.r.held /\ q.head = w.head
      /\ q.parent = parents
  BY <1>8
<1> HIDE DEF q
<1>10. Live(q) = Live(w)
  BY <1>8, <1>9 DEF Live
<1>11. RepoKnown(q, made)
  BY <1>5, <1>8, <1>9, <1>10, RepoMade
<1>12. RepoKnown(e, made) /\ e.head = w.head
  BY <1>4, <1>9, <1>11, DeletedIs
<1> HIDE DEF e
<1>13. /\ DOMAIN e = {"head", "line", "parent", "held", "stays", "old"}
       /\ DOMAIN e.line = Branches /\ DOMAIN e.parent = Branches
       /\ \A c \in Live(e) : Known(e.line[c], made)
       /\ e.head \in Live(e)
  BY <1>12, RepoIs
<1>14. /\ DOMAIN r = DOMAIN e /\ r.line = e.line /\ r.parent = e.parent /\ r.head = w.head
       /\ r.held = run.r.held
  BY <1>12, <1>13
<1> HIDE DEF r
<1>15. Live(r) = Live(e)
  BY <1>14 DEF Live
<1>16. RepoKnown(r, made)
  BY <1>8, <1>12, <1>13, <1>14, <1>15, RepoMade
<1> QED
  BY <1>1, <1>6, <1>14, <1>16 DEF Stands

-----------------------------------------------------------------------------
(***************************************************************************)
(* Every step.                                                             *)
(***************************************************************************)

LEMMA RemoteLater ==
  ASSUME LineupInv, StepSound, UNCHANGED remote
  PROVE  LineupInv'
<1>1. made \in Nat /\ made' \in Nat /\ made <= made' /\ StackInv'
  BY DEF StepSound, LineupInv, StackInv
<1>2. RefsKnown(copy, made') /\ RefsKnown(tracking, made')
  BY <1>1, KnownLater DEF LineupInv, RemoteInv
<1>3. copy' = copy /\ tracking' = tracking /\ stood' = stood
  BY DEF remote
<1> QED
  BY <1>1, <1>2, <1>3 DEF LineupInv, RemoteInv

LEMMA FetchKeeps ==
  ASSUME LineupInv, Fetch
  PROVE  LineupInv' /\ ~IsVerb
<1>1. /\ tracking' = At(TRUE).after /\ stood' = At(TRUE).stood
      /\ UNCHANGED vars /\ copy' = copy
  BY DEF Fetch, Fetched
<1>2. TRUE \in BOOLEAN /\ RemoteInv
  BY DEF LineupInv
<1>3. RefsKnown(At(TRUE).after, made) /\ AllLines(At(TRUE).stood)
  BY <1>2, AtIs, Zenon
<1>4. /\ w' = w /\ been' = been /\ other' = other /\ made' = made /\ before' = before /\ left' = left
  BY <1>1 DEF vars
<1> QED
  BY <1>1, <1>2, <1>3, <1>4 DEF LineupInv, StackInv, RemoteInv, IsVerb

LEMMA PullKeeps ==
  ASSUME LineupInv, NEW scope \in Scopes, NEW fetched \in BOOLEAN, NEW prune \in BOOLEAN,
         Pull(scope, fetched, prune)
  PROVE  LineupInv' /\ ~IsVerb
<1> DEFINE plan == Planned(scope, fetched, prune)
           at == At(fetched)
<1>1. /\ tracking' = at.after /\ stood' = at.stood /\ copy' = copy
      /\ other' = other /\ made' = made /\ left' = left
      /\ w' = plan.r
      /\ IF plan.r = w THEN UNCHANGED <<been, before>> ELSE been' = Logged(plan.r) /\ before' = w
  BY DEF Pull, Fetched, Carries
<1>2. StackInv /\ RemoteInv
  BY DEF LineupInv
<1>3. Stands(plan.r, made, other)
  BY <1>2, PlannedStands
<1>4. RefsKnown(at.after, made) /\ AllLines(at.stood)
  BY <1>2, AtIs
<1> HIDE DEF plan, at
<1>5. StackInv'
  <2>1. CASE plan.r = w
    BY <1>1, <1>2, <2>1 DEF StackInv
  <2>2. CASE plan.r # w
    <3>1. made \in Nat /\ made <= made
      BY <1>2 DEF StackInv
    <3> QED
      BY <1>1, <1>2, <1>3, <2>2, <3>1, WroteKeeps
  <2> QED
    BY <2>1, <2>2
<1>6. RemoteInv'
  BY <1>1, <1>2, <1>4 DEF RemoteInv
<1> QED
  BY <1>1, <1>5, <1>6 DEF LineupInv, IsVerb

LEMMA SendKeeps ==
  ASSUME LineupInv, NEW b, Send(b)
  PROVE  LineupInv' /\ ~IsVerb
<1>1. StackInv' /\ ~IsVerb
  BY PushKeeps DEF Send, LineupInv
<1>2. /\ b \in Live(w) /\ made' = made
      /\ copy' = [copy EXCEPT ![b] = w.line[b]]
      /\ tracking' = [tracking EXCEPT ![b] = w.line[b]]
      /\ stood' = [stood EXCEPT ![b] = @ \cup {w.line[b]}]
  BY DEF Send, Push
<1>3. Known(w.line[b], made) /\ IsLine(w.line[b]) /\ b \in Branches
  BY <1>2, RepoIs DEF LineupInv, StackInv, Stands
<1>4. RefsKnown(copy', made) /\ RefsKnown(tracking', made)
  BY <1>2, <1>3 DEF LineupInv, RemoteInv, RefsKnown
<1>5. AllLines(stood')
  <2>1. AllLines(stood)
    BY DEF LineupInv, RemoteInv
  <2>2. ASSUME NEW c \in Branches, NEW l \in stood'[c] PROVE IsLine(l)
    <3>1. stood'[c] = IF c = b THEN stood[c] \cup {w.line[b]} ELSE stood[c]
      BY <1>2, <2>1 DEF AllLines
    <3>2. l \in stood[c] \/ l = w.line[b]
      BY <2>2, <3>1
    <3> QED
      BY <1>3, <2>1, <3>2 DEF AllLines
  <2>3. DOMAIN stood' = Branches
    BY <1>2, <2>1 DEF AllLines
  <2> QED
    BY <2>2, <2>3 DEF AllLines
<1> QED
  BY <1>1, <1>2, <1>4, <1>5 DEF LineupInv, RemoteInv

(* A commit of a line with another text.                                   *)
LEMMA TextChanged ==
  ASSUME NEW l, NEW m, Known(l, m), NEW k \in DOMAIN l
  PROVE  Known([l EXCEPT ![k].text = @ + 1], m)
<1> DEFINE c == [l[k] EXCEPT !.text = @ + 1]
           j == [l EXCEPT ![k] = c]
<1>1. l \in Seq(Commits) /\ DOMAIN l = 1..Len(l) /\ Len(l) \in Nat /\ l[k] \in Commits
      /\ \A i, n \in 1..Len(l) : l[i].id = l[n].id => i = n
  BY LineIs DEF Known
<1>2. c \in Commits /\ c.id = l[k].id
  <2>1. \A x \in Commits : [x EXCEPT !.text = @ + 1] \in Commits /\ [x EXCEPT !.text = @ + 1].id = x.id
    BY DEF Commits
  <2> QED
    BY <1>1, <2>1, Zenon
<1>3. [l EXCEPT ![k].text = @ + 1] = j
  BY DEF c
<1> HIDE DEF c
<1>4. j \in Seq(Commits) /\ DOMAIN j = 1..Len(l)
  <2>1. l \in [1..Len(l) -> Commits]
    BY <1>1, LenProperties
  <2>2. j \in [1..Len(l) -> Commits]
    BY <1>2, <2>1
  <2> QED
    BY <1>1, <2>2, SeqDef
<1>5. \A i \in 1..Len(l) : j[i].id = l[i].id
  BY <1>1, <1>2
<1> HIDE DEF j
<1>6. IsLine(j)
  BY <1>1, <1>4, <1>5 DEF IsLine
<1>7. Ids(j) = Ids(l)
  BY <1>1, <1>4, <1>5 DEF Ids
<1> QED
  BY <1>3, <1>6, <1>7 DEF Known

LEMMA OthersKeep ==
  ASSUME LineupInv, NEW b \in Branches, Others(b)
  PROVE  LineupInv' /\ ~IsVerb
<1>1. /\ copy[b] # None
      /\ w' = w /\ been' = been /\ other' = other /\ before' = before /\ left' = left
      /\ tracking' = tracking /\ stood' = stood
      /\ \/ \E path \in Paths : /\ made' = made + 1
                                /\ copy' = [copy EXCEPT ![b] = Append(@, Commit(made', path))]
         \/ \E k \in DOMAIN copy[b] : copy' = [copy EXCEPT ![b][k].text = @ + 1] /\ made' = made
         \/ copy' = [copy EXCEPT ![b] = None] /\ made' = made
  BY DEF Others
<1>2. made \in Nat /\ made' \in Nat /\ made <= made'
  BY <1>1 DEF LineupInv, StackInv
<1>3. StackInv'
  <2>1. Stands(w, made', other) /\ (before # None => Stands(before, made', other))
    BY <1>2, KnownLater DEF LineupInv, StackInv, Stands
  <2> QED
    BY <1>1, <1>2, <2>1 DEF LineupInv, StackInv
<1>4. RefsKnown(copy, made') /\ RefsKnown(tracking, made') /\ RefsKnown(copy, made)
  BY <1>2, KnownLater DEF LineupInv, RemoteInv
<1>5. Known(copy[b], made) /\ Known(copy[b], made') /\ IsLine(copy[b]) /\ DOMAIN copy = Branches
  BY <1>1, <1>4 DEF RefsKnown, Known
<1>6. ASSUME NEW l, copy' = [copy EXCEPT ![b] = l], l = None \/ Known(l, made')
      PROVE  RefsKnown(copy', made')
  BY <1>4, <1>6 DEF RefsKnown
<1>7. ASSUME \E path \in Paths : /\ made' = made + 1
                                 /\ copy' = [copy EXCEPT ![b] = Append(@, Commit(made', path))]
      PROVE  RefsKnown(copy', made')
  <2>1. PICK path \in Paths : /\ made' = made + 1
                              /\ copy' = [copy EXCEPT ![b] = Append(@, Commit(made', path))]
    BY <1>7
  <2> DEFINE c == Commit(made', path)
             l == Append(copy[b], c)
  <2>2. c \in Commits /\ c.id = made + 1
    BY <1>2, <2>1 DEF Commits, Commit
  <2>3. \A id \in Ids(copy[b]) : id \in Nat /\ id <= made
    BY <1>5, LineIs DEF Known, Ids
  <2>4. c.id \notin Ids(copy[b])
    BY <1>2, <2>2, <2>3
  <2>5. IsLine(l) /\ Ids(l) = Ids(copy[b]) \cup {c.id}
    BY <1>5, <2>2, <2>4, LineAppend
  <2>6. Known(l, made')
    BY <1>2, <2>1, <2>2, <2>3, <2>5 DEF Known
  <2>7. copy' = [copy EXCEPT ![b] = l]
    BY <2>1
  <2> HIDE DEF l
  <2> QED
    BY <1>6, <2>6, <2>7
<1>8. ASSUME \E k \in DOMAIN copy[b] : copy' = [copy EXCEPT ![b][k].text = @ + 1] /\ made' = made
      PROVE  RefsKnown(copy', made')
  <2>1. PICK k \in DOMAIN copy[b] : copy' = [copy EXCEPT ![b][k].text = @ + 1] /\ made' = made
    BY <1>8
  <2> DEFINE l == [copy[b] EXCEPT ![k].text = @ + 1]
  <2>2. Known(l, made)
    BY <1>5, <2>1, TextChanged
  <2>3. copy' = [copy EXCEPT ![b] = l]
    BY <2>1
  <2> HIDE DEF l
  <2> QED
    BY <1>6, <2>1, <2>2, <2>3
<1>9. ASSUME copy' = [copy EXCEPT ![b] = None], made' = made
      PROVE  RefsKnown(copy', made')
  BY <1>6, <1>9
<1>10. RefsKnown(copy', made')
  BY <1>1, <1>7, <1>8, <1>9
<1>11. RemoteInv'
  BY <1>1, <1>4, <1>10 DEF LineupInv, RemoteInv
<1> QED
  BY <1>1, <1>3, <1>11 DEF LineupInv, IsVerb


LEMMA LineupStep ==
  ASSUME LineupInv, [LineupNext]_allVars
  PROVE  /\ LineupInv'
         /\ IsVerb => \A b \in Branches : Taken(b) /\ (Carried(Base(w, b)) \/ Follows(b))
<1>1. CASE Here
  <2>1. StepSound
    BY <1>1, TypedSound DEF Here, LineupInv
  <2> QED
    BY <1>1, <2>1, RemoteLater DEF Here, StepSound
<1>2. CASE Fetch
  BY <1>2, FetchKeeps
<1>3. ASSUME NEW b \in Branches, Others(b)
      PROVE  LineupInv' /\ ~IsVerb
  BY <1>3, OthersKeep
<1>4. ASSUME NEW b \in Branches, Send(b)
      PROVE  LineupInv' /\ ~IsVerb
  BY <1>4, SendKeeps
<1>5. ASSUME NEW scope \in Scopes, NEW fetched \in BOOLEAN, NEW prune \in BOOLEAN,
             Pull(scope, fetched, prune)
      PROVE  LineupInv' /\ ~IsVerb
  BY <1>5, PullKeeps
<1>6. CASE UNCHANGED allVars
  BY <1>6 DEF allVars, vars, remote, LineupInv, StackInv, RemoteInv, IsVerb
<1> QED
  BY <1>1, <1>2, <1>3, <1>4, <1>5, <1>6 DEF LineupNext

LEMMA LineupStart ==
  ASSUME LineupInit
  PROVE  LineupInv
<1>1. PICK start \in Starts : InitFrom(start)
  BY DEF LineupInit
<1>2. /\ start.made \in Nat /\ start.left \in [{"verbs", "hops", "undos"} -> Nat]
      /\ IsRepo(start.repo) /\ start.repo.head # start.other
      /\ \A b \in Live(start.repo) : \A id \in Ids(start.repo.line[b]) : id <= start.made
  BY StartsAssumption
<1>3. /\ w = start.repo /\ other = start.other /\ left = start.left
      /\ been = [b \in Branches |-> {w.line[b]} \ {None}]
      /\ made = start.made /\ before = None
  BY <1>1 DEF InitFrom
<1>4. copy = w.line /\ tracking = w.line /\ stood = been
  BY DEF LineupInit
<1>5. Stands(w, made, other)
  BY <1>2, <1>3 DEF Stands, RepoKnown, IsRepo, Known, Live
<1>6. /\ DOMAIN w.line = Branches
      /\ \A b \in Live(w) : b \in Branches /\ w.line[b] # None /\ Known(w.line[b], made) /\ IsLine(w.line[b])
      /\ \A b \in Branches : b \notin Live(w) => w.line[b] = None
  BY <1>5, RepoIs DEF Stands
<1>7. AllLines(been) /\ Recorded(w, been)
  BY <1>3, <1>6 DEF AllLines, Recorded
<1>8. RefsKnown(w.line, made)
  BY <1>6 DEF RefsKnown
<1> QED
  BY <1>2, <1>3, <1>4, <1>5, <1>7, <1>8 DEF LineupInv, StackInv, RemoteInv

(* A line that holds no change twice holds as many as it is long.          *)
LEMMA OneIdEach ==
  ASSUME NEW l, IsLine(l)
  PROVE  Cardinality(Ids(l)) = Len(l)
<1>1. DOMAIN l = 1..Len(l) /\ Len(l) \in Nat /\ \A j, k \in 1..Len(l) : l[j].id = l[k].id => j = k
  BY LineIs
<1> DEFINE g == [k \in 1..Len(l) |-> l[k].id]
<1>2. g \in [1..Len(l) -> Ids(l)]
  BY <1>1 DEF Ids
<1>3. \A j, k \in 1..Len(l) : g[j] = g[k] => j = k
  BY <1>1
<1>4. \A id \in Ids(l) : \E k \in 1..Len(l) : g[k] = id
  BY <1>1 DEF Ids
<1> HIDE DEF g
<1>5. g \in Bijection(1..Len(l), Ids(l))
  BY <1>2, <1>3, <1>4 DEF Bijection, Injection, Surjection, IsInjective
<1>6. ExistsBijection(1..Len(l), Ids(l))
  BY <1>5 DEF ExistsBijection
<1> QED
  BY <1>1, <1>6, FS_CountingElements

-----------------------------------------------------------------------------
(***************************************************************************)
(* The theorems.                                                           *)
(***************************************************************************)

(* Every branch always stands on a line of changes that were given out, and*)
(* so does what an undo would make of it, its copy and its tracking ref:   *)
(* the invariant every close, rewrite, restack, fold, prune, undo, push and*)
(* pull keeps (append.rs, cascade.rs, pull.rs commit), whoever else pushes.*)
THEOREM LinesStand == LineupSpec => []LineupInv
<1>1. LineupInit => LineupInv
  BY LineupStart
<1>2. LineupInv /\ [LineupNext]_allVars => LineupInv'
  BY LineupStep
<1> QED
  BY <1>1, <1>2, PTL DEF LineupSpec

(* However branches are rewritten, restacked, folded, pulled and undone    *)
(* beneath one another, none ends up holding a change twice, for every     *)
(* stack and every length of it (rewrite/replay.rs superseded_by,          *)
(* cascade.rs and restack.rs boundaries).                                  *)
THEOREM EachChangeOnce == LineupSpec => []NoChangeTwice
<1>1. LineupInv => NoChangeTwice
  <2>1. ASSUME LineupInv, NEW b \in Live(w) PROVE IsLine(w.line[b])
    BY <2>1, RepoIs DEF LineupInv, StackInv, Stands
  <2> QED
    BY <2>1, OneIdEach DEF NoChangeTwice
<1> QED
  BY <1>1, LinesStand, PTL

(* No verb takes a change off a branch but one the branch's base has held: *)
(* work is dropped only where it stands already (restack.rs range_boundary,*)
(* cascade.rs plan_over).                                                  *)
THEOREM OnlyTheBasesAreTaken == LineupSpec => TakesOnlyTheBases
<1>1. LineupInv /\ [LineupNext]_allVars =>
        [\A b \in Branches : Moved(b) /\ IsVerb =>
           \A id \in Ids(w.line[b]) \ Ids(w'.line[b]) :
             \E l \in been'[Base(w', b)] : l # None /\ id \in Ids(l)]_vars
  BY LineupStep DEF Taken
<1> QED
  BY <1>1, LinesStand, PTL DEF LineupSpec, TakesOnlyTheBases

(* A branch that stood on the tip of its base is on the tip again once the *)
(* base was replayed, wherever in the stack the replay began, but for those*)
(* that are told to stay, hold a rewrite, are checked out elsewhere or had *)
(* nothing of their own (cascade.rs plan_over, fold.rs, restack.rs).       *)
THEOREM BranchesAreBroughtAlong == LineupSpec => BranchesFollow
<1>1. LineupInv /\ [LineupNext]_allVars =>
        [IsVerb => \A c \in Branches : Carried(Base(w, c)) \/ Follows(c)]_vars
  BY LineupStep
<1> QED
  BY <1>1, LinesStand, PTL DEF LineupSpec, BranchesFollow
=============================================================================
