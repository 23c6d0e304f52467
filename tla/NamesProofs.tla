----------------------------- MODULE NamesProofs -----------------------------
(***************************************************************************)
(* Theorems about Names, for every set of names and every budget: that a   *)
(* rename, a claim, a close or any other verb but an undo leaves a branch  *)
(* what it had, wherever it is killed.                                     *)
(***************************************************************************)
EXTENDS Names, Walks

-----------------------------------------------------------------------------
(***************************************************************************)
(* Types.                                                                  *)
(***************************************************************************)

Token == Nat \cup {None}
Commits == [id : Token, work : Token]
Lines == [line : Nat, has : Seq(Commits)]
Opens == [work : Token, id : Token] \cup {None}
Pointers == [op : Nat, tree : Token, open : Opens, root : Nat]

Repos ==
  [head : Names, wt : Token, ref : [Names -> Lines], open : [Names -> Opens],
   meta : [Names -> Token], upstream : [Names -> Token],
   point : [Names -> Pointers \cup {None}], trash : [Names -> Pointers \cup {None}]]

Turns == [b : Names, old : Token, new : Token]

Verbs == {"note", "foreign", "capture", "rename", "close", "switch", "start", "create", "delete"}

Ops ==
  [kind : Verbs, on : Names, ref : [Names -> Lines], head : Names, tree : Token,
   turn : Turns \cup {None}, moved : [b : Names, point : Pointers] \cup {None},
   off : Names \cup {None}, was : Pointers \cup {None}]

Logs ==
  {l \in [w : Repos, log : Seq(Ops), at : Nat, fresh : Nat] : l.at \in 1 .. Len(l.log)}

(* The repository, the log and the next token are what they are said to be.*)
NamesTypeOK == L \in Logs

LEMMA NoneIsNoName == None \notin Names
  BY NamesAssumption

LEMMA RepoFields ==
  ASSUME NEW s \in Repos
  PROVE  /\ s.head \in Names /\ s.wt \in Token
         /\ s.ref \in [Names -> Lines] /\ s.open \in [Names -> Opens]
         /\ s.meta \in [Names -> Token] /\ s.upstream \in [Names -> Token]
         /\ s.point \in [Names -> Pointers \cup {None}] /\ s.trash \in [Names -> Pointers \cup {None}]
  BY DEF Repos

LEMMA LogFields ==
  ASSUME NEW l \in Logs
  PROVE  /\ l.w \in Repos /\ l.log \in Seq(Ops) /\ l.at \in Nat /\ l.fresh \in Nat
         /\ l.at \in 1 .. Len(l.log) /\ l.log[l.at] \in Ops
  BY DEF Logs

LEMMA OpFields ==
  ASSUME NEW d \in Ops
  PROVE  /\ d.on \in Names /\ d.ref \in [Names -> Lines] /\ d.head \in Names
         /\ d.tree \in Token /\ d.turn \in Turns \cup {None}
         /\ d.moved \in [b : Names, point : Pointers] \cup {None}
         /\ d.off \in Names \cup {None} /\ d.was \in Pointers \cup {None}
  BY DEF Ops

LEMMA OpenOfType ==
  ASSUME NEW tree \in Token, NEW id \in Token
  PROVE  OpenOf(tree, id) \in Opens
  BY DEF OpenOf, Opens

LEMMA DraftType ==
  ASSUME NEW kind \in Verbs, NEW on \in Names, NEW ref \in [Names -> Lines], NEW head \in Names,
         NEW tree \in Token
  PROVE  /\ Draft(kind, on, ref, head, tree) \in Ops
         /\ Draft(kind, on, ref, head, tree).on = on
         /\ Draft(kind, on, ref, head, tree).tree = tree
         /\ Draft(kind, on, ref, head, tree).turn = None
  BY DEF Draft, Ops

(* An operation appended: the repository but for what the operation says of*)
(* its own branch.                                                         *)
LEMMA PushIs ==
  ASSUME NEW l \in Logs, NEW d \in Ops
  PROVE  LET s == Push(l, d).w
         IN /\ Push(l, d) \in Logs
            /\ s \in Repos
            /\ s.head = l.w.head /\ s.wt = l.w.wt /\ s.ref = l.w.ref /\ s.upstream = l.w.upstream
            /\ \A n \in Names : /\ n # d.on => s.open[n] = l.w.open[n]
                                /\ l.w.meta[n] # None => s.meta[n] = l.w.meta[n]
                                /\ d.tree = None => s.meta[n] = l.w.meta[n]
<1> DEFINE own == d.turn # None /\ d.turn.b = d.on
           minted == l.fresh + 1
           mints == d.tree # None /\ ~own /\ l.w.meta[d.on] = None
           id == IF own THEN d.turn.new ELSE IF mints THEN minted ELSE l.w.meta[d.on]
           open == OpenOf(d.tree, id)
           was == l.w.point[d.on]
           now == [op |-> l.fresh, tree |-> d.tree, open |-> open,
                   root |-> IF was = None THEN l.fresh ELSE was.root]
           meta == IF mints THEN minted ELSE l.w.meta[d.on]
           s == [l.w EXCEPT !.open[d.on] = open, !.point[d.on] = now, !.meta[d.on] = meta]
           longer == Append(SubSeq(l.log, 1, l.at), [d EXCEPT !.was = was])
<1>1. Push(l, d) = [w |-> s, log |-> longer, at |-> l.at + 1, fresh |-> l.fresh + 2]
  BY DEF Push
<1>2. /\ l.w \in Repos /\ l.log \in Seq(Ops) /\ l.at \in Nat /\ l.fresh \in Nat /\ l.at \in 1 .. Len(l.log)
  BY LogFields
<1>3. /\ d.on \in Names /\ d.tree \in Token /\ d.turn \in Turns \cup {None}
  BY OpFields
<1>4. own => d.turn.new \in Token
  BY <1>3 DEF Turns
<1>5. minted \in Token /\ l.w.meta[d.on] \in Token /\ was \in Pointers \cup {None}
  BY <1>2, <1>3, RepoFields DEF Token
<1>6. id \in Token /\ meta \in Token
  BY <1>4, <1>5
<1>7. open \in Opens
  <2> HIDE DEF id
  <2> QED
    BY <1>3, <1>6, OpenOfType
<1>8. now \in Pointers
  <2>1. was # None => was.root \in Nat
    BY <1>5 DEF Pointers
  <2> HIDE DEF open, was
  <2> QED
    BY <1>2, <1>3, <1>7, <2>1 DEF Pointers
<1>9. mints => l.w.meta[d.on] = None /\ d.tree # None
  OBVIOUS
<1> HIDE DEF own, id, open, was, now, mints, minted
<1>10. l.w.meta[d.on] # None => meta = l.w.meta[d.on]
  BY <1>9
<1>11. d.tree = None => meta = l.w.meta[d.on]
  BY <1>9
<1> HIDE DEF meta
<1>12. /\ s \in Repos
       /\ s.head = l.w.head /\ s.wt = l.w.wt /\ s.ref = l.w.ref /\ s.upstream = l.w.upstream
       /\ s.open = [l.w.open EXCEPT ![d.on] = open]
       /\ s.meta = [l.w.meta EXCEPT ![d.on] = meta]
  BY <1>2, <1>3, <1>6, <1>7, <1>8 DEF Repos
<1>13. longer \in Seq(Ops) /\ Len(longer) = l.at + 1
  <2>1. SubSeq(l.log, 1, l.at) \in Seq(Ops) /\ Len(SubSeq(l.log, 1, l.at)) = l.at
    BY <1>2
  <2>2. [d EXCEPT !.was = was] \in Ops
    BY <1>5 DEF Ops
  <2> QED
    BY <2>1, <2>2
<1> HIDE DEF s, longer
<1>14. Push(l, d) \in Logs
  BY <1>1, <1>2, <1>12, <1>13 DEF Logs
<1>15. \A n \in Names : /\ n # d.on => s.open[n] = l.w.open[n]
                        /\ l.w.meta[n] # None => s.meta[n] = l.w.meta[n]
                        /\ d.tree = None => s.meta[n] = l.w.meta[n]
  BY <1>2, <1>3, <1>10, <1>11, <1>12, RepoFields
<1>16. Push(l, d).w = s
  BY <1>1
<1> QED
  BY <1>12, <1>14, <1>15, <1>16

(* What the preamble of a verb leaves: the refs, HEAD, the tree and the    *)
(* upstreams, the open changes of the other branches, and the ids.         *)
Prepared(l, k) ==
  /\ k \in Logs
  /\ k.w.head = l.w.head /\ k.w.wt = l.w.wt /\ k.w.ref = l.w.ref /\ k.w.upstream = l.w.upstream
  /\ \A n \in Names : /\ n # l.w.head => k.w.open[n] = l.w.open[n]
                      /\ l.w.wt = None => k.w.meta[n] = l.w.meta[n]

LEMMA ReconciledIs ==
  ASSUME NEW l \in Logs
  PROVE  Prepared(l, Reconciled(l))
<1>1. CASE Reconciled(l) = l
  BY <1>1 DEF Prepared
<1>2. CASE Reconciled(l) # l
  <2> DEFINE d == Draft("foreign", l.w.head, l.w.ref, l.w.head, l.w.wt)
  <2>1. Reconciled(l) = Push(l, d)
    BY <1>2 DEF Reconciled
  <2>2. d \in Ops /\ d.on = l.w.head /\ d.tree = l.w.wt
    <3>1. l.w.head \in Names /\ l.w.ref \in [Names -> Lines] /\ l.w.wt \in Token
      BY LogFields, RepoFields
    <3>2. "foreign" \in Verbs
      BY DEF Verbs
    <3> QED
      BY <3>1, <3>2, DraftType
  <2> HIDE DEF d
  <2> QED
    BY <2>1, <2>2, PushIs DEF Prepared
<1> QED
  BY <1>1, <1>2

LEMMA CapturedIs ==
  ASSUME NEW l \in Logs
  PROVE  Prepared(l, Captured(l))
<1> DEFINE b == l.w.head
           d == Draft("capture", b, l.log[l.at].ref, l.log[l.at].head, l.w.wt)
           o == [l EXCEPT !.w.open[b] = None]
<1>1. Captured(l) = Push(l, d) \/ Captured(l) = o \/ Captured(l) = l
  BY DEF Captured
<1>2. l.w \in Repos /\ l.log[l.at] \in Ops /\ b \in Names
  BY LogFields, RepoFields
<1>3. d \in Ops /\ d.on = b /\ d.tree = l.w.wt
  <2>1. l.log[l.at].ref \in [Names -> Lines] /\ l.log[l.at].head \in Names /\ l.w.wt \in Token
    BY <1>2, OpFields, RepoFields
  <2>2. "capture" \in Verbs
    BY DEF Verbs
  <2> QED
    BY <1>2, <2>1, <2>2, DraftType
<1>4. o \in Logs /\ o.w = [l.w EXCEPT !.open[b] = None]
  <2>1. [l.w EXCEPT !.open[b] = None] \in Repos
    <3>1. None \in Opens
      BY DEF Opens
    <3> QED
      BY <1>2, <3>1 DEF Repos
  <2> QED
    BY <2>1 DEF Logs
<1>5. Prepared(l, o)
  BY <1>2, <1>4, RepoFields DEF Prepared, Repos
<1>6. Prepared(l, Push(l, d))
  <2> HIDE DEF d, o
  <2> QED
    BY <1>3, PushIs DEF Prepared
<1>7. Prepared(l, l)
  BY DEF Prepared
<1> HIDE DEF d, o
<1> QED
  BY <1>1, <1>5, <1>6, <1>7

LEMMA BegunIs ==
  ASSUME NamesTypeOK
  PROVE  Prepared(L, Begun)
<1>1. Prepared(L, Reconciled(L))
  BY ReconciledIs DEF NamesTypeOK
<1>2. Prepared(Reconciled(L), Captured(Reconciled(L)))
  BY <1>1, CapturedIs DEF Prepared
<1> HIDE DEF L
<1> QED
  BY <1>1, <1>2 DEF Prepared, Begun

-----------------------------------------------------------------------------
(***************************************************************************)
(* The writes of a verb, the first few or all of them.                     *)
(***************************************************************************)

Writes ==
  [f : {"head", "wt", "ref", "open", "meta", "upstream", "point", "trash"}, b : Names \cup {None},
   v : Names \cup Token \cup Lines \cup Opens \cup Pointers \cup [Names -> Token]]

IsWritten(f, s, do) == f = [i \in 0 .. Len(do) |-> IF i = 0 THEN s ELSE Write(f[i - 1], do[i])]

LEMMA WrittenExists ==
  ASSUME NEW s, NEW do \in Seq(Writes)
  PROVE  \E f : IsWritten(f, s, do)
<1> DEFINE n == Len(do)
           Upto(f, m) == f = [i \in 0 .. m |-> IF i = 0 THEN s ELSE Write(f[i - 1], do[i])]
           T == {m \in 0 .. n : \E f : Upto(f, m)}
<1>0. n \in Nat
  OBVIOUS
<1> HIDE DEF n
<1>1. ASSUME NEW m \in 0 .. n, \A k \in 0 .. n : k < m => k \in T
      PROVE  m \in T
  <2>1. CASE m = 0
    <3> DEFINE f == [i \in 0 .. 0 |-> s]
    <3>1. Upto(f, 0)
      OBVIOUS
    <3> HIDE DEF f
    <3> QED
      BY <2>1, <3>1
  <2>2. CASE m # 0
    <3>1. m - 1 \in 0 .. n /\ m - 1 < m /\ m \in Nat
      BY <1>0, <2>2
    <3>2. PICK f : Upto(f, m - 1)
      BY <1>1, <3>1
    <3> DEFINE g == [i \in 0 .. m |-> IF i = m THEN Write(f[m - 1], do[m]) ELSE f[i]]
    <3>3. \A i \in 0 .. m : g[i] = IF i = 0 THEN s ELSE Write(g[i - 1], do[i])
      <4> TAKE i \in 0 .. m
      <4>1. CASE i = m
        BY <2>2, <3>1, <4>1
      <4>2. CASE i # m
        <5>1. i \in 0 .. m - 1 /\ (i # 0 => i - 1 \in 0 .. m /\ i - 1 # m)
          BY <3>1, <4>2
        <5> QED
          BY <3>2, <4>2, <5>1
      <4> QED
        BY <4>1, <4>2
    <3>4. Upto(g, m)
      BY <3>3
    <3> HIDE DEF g, Upto
    <3> QED
      BY <3>4
  <2> QED
    BY <2>1, <2>2
<1> HIDE DEF T
<1>2. 0 .. n \subseteq T
  BY <1>0, <1>1, AllNumbers
<1>3. n \in T
  BY <1>0, <1>2
<1> QED
  BY <1>3 DEF T, n, IsWritten

LEMMA WrittenDef ==
  ASSUME NEW s, NEW do \in Seq(Writes)
  PROVE  /\ Written(s, do, 0) = s
         /\ \A i \in 1 .. Len(do) : Written(s, do, i) = Write(Written(s, do, i - 1), do[i])
<1> DEFINE after[i \in 0 .. Len(do)] == IF i = 0 THEN s ELSE Write(after[i - 1], do[i])
<1>1. IsWritten(after, s, do)
  BY WrittenExists DEF IsWritten
<1>2. \A i : Written(s, do, i) = after[i]
  BY DEF Written
<1> HIDE DEF after
<1>3. \A i \in 0 .. Len(do) : after[i] = IF i = 0 THEN s ELSE Write(after[i - 1], do[i])
  BY <1>1 DEF IsWritten
<1>4. Len(do) \in Nat
  OBVIOUS
<1>5. \A i \in 1 .. Len(do) : i \in 0 .. Len(do) /\ i # 0
  BY <1>4
<1>6. 0 \in 0 .. Len(do)
  BY <1>4
<1> QED
  BY <1>2, <1>3, <1>5, <1>6

(* From a state of P, the writes stay in M and end in Q.                   *)
Leads(P, do, M, Q) ==
  /\ do \in Seq(Writes)
  /\ \A s \in P : /\ \A i \in 0 .. Len(do) : Written(s, do, i) \in M
                  /\ Written(s, do, Len(do)) \in Q

LEMMA LeadsNone ==
  ASSUME NEW P, NEW M, NEW Q, P \subseteq M, P \subseteq Q
  PROVE  Leads(P, << >>, M, Q)
<1>1. << >> \in Seq(Writes) /\ Len(<< >>) = 0
  OBVIOUS
<1>2. \A s \in P : Written(s, << >>, 0) = s
  BY <1>1, WrittenDef
<1> QED
  BY <1>1, <1>2 DEF Leads

LEMMA LeadsOne ==
  ASSUME NEW P, NEW x \in Writes, NEW M, NEW Q, P \subseteq M, Q \subseteq M,
         \A s \in P : Write(s, x) \in Q
  PROVE  Leads(P, <<x>>, M, Q)
<1>1. <<x>> \in Seq(Writes) /\ Len(<<x>>) = 1 /\ <<x>>[1] = x
  OBVIOUS
<1> DEFINE do == <<x>>
<1> HIDE DEF do
<1>2. \A s \in P : Written(s, do, 0) = s /\ Written(s, do, 1) = Write(s, x)
  <2> TAKE s \in P
  <2>1. do \in Seq(Writes) /\ 1 \in 1 .. Len(do) /\ do[1] = x /\ 1 - 1 = 0
    BY <1>1 DEF do
  <2>2. Written(s, do, 0) = s /\ Written(s, do, 1) = Write(Written(s, do, 1 - 1), do[1])
    BY <2>1, WrittenDef
  <2> QED
    BY <2>1, <2>2
<1> QED
  BY <1>1, <1>2 DEF Leads, do

LEMMA LeadsThen ==
  ASSUME NEW P, NEW a, NEW M, NEW Q, NEW b, NEW R, Leads(P, a, M, Q), Leads(Q, b, M, R)
  PROVE  Leads(P, a \o b, M, R)
<1> DEFINE c == a \o b
           m == Len(a)
           n == Len(b)
<1>1. /\ a \in Seq(Writes) /\ b \in Seq(Writes) /\ c \in Seq(Writes)
      /\ m \in Nat /\ n \in Nat /\ Len(c) = m + n
      /\ \A i \in 1 .. m : c[i] = a[i]
      /\ \A i \in 1 .. n : c[m + i] = b[i]
  BY DEF Leads
<1> HIDE DEF c
<1> SUFFICES ASSUME NEW s \in P
             PROVE  /\ \A i \in 0 .. m + n : Written(s, c, i) \in M
                    /\ Written(s, c, m + n) \in R
  BY <1>1 DEF Leads, c
<1>2. \A i \in 0 .. m : Written(s, c, i) = Written(s, a, i)
  <2> DEFINE T == {i \in 0 .. m : Written(s, c, i) = Written(s, a, i)}
  <2>1. ASSUME NEW i \in 0 .. m, \A k \in 0 .. m : k < i => k \in T
        PROVE  i \in T
    <3>1. CASE i = 0
      BY <1>1, <3>1, WrittenDef
    <3>2. CASE i # 0
      <4>1. i - 1 \in 0 .. m /\ i - 1 < i /\ i \in 1 .. m /\ i \in 1 .. m + n
        BY <1>1, <3>2
      <4>2. Written(s, c, i - 1) = Written(s, a, i - 1)
        BY <2>1, <4>1
      <4>3. Written(s, c, i) = Write(Written(s, c, i - 1), c[i])
        <5>1. i \in 1 .. Len(c)
          BY <1>1, <4>1
        <5> QED
          BY <1>1, <5>1, WrittenDef
      <4>4. Written(s, a, i) = Write(Written(s, a, i - 1), a[i])
        BY <1>1, <4>1, WrittenDef
      <4> QED
        BY <1>1, <4>1, <4>2, <4>3, <4>4
    <3> QED
      BY <3>1, <3>2
  <2> HIDE DEF T
  <2>2. 0 .. m \subseteq T
    BY <1>1, <2>1, AllNumbers
  <2> QED
    BY <2>2 DEF T
<1> DEFINE t == Written(s, a, m)
<1>3. t \in Q /\ \A i \in 0 .. m : Written(s, a, i) \in M
  BY DEF Leads
<1>4. \A i \in 0 .. n : Written(s, c, m + i) = Written(t, b, i)
  <2> DEFINE T == {i \in 0 .. n : Written(s, c, m + i) = Written(t, b, i)}
  <2>1. ASSUME NEW i \in 0 .. n, \A k \in 0 .. n : k < i => k \in T
        PROVE  i \in T
    <3>1. CASE i = 0
      <4>1. m + 0 = m /\ m \in 0 .. m
        BY <1>1
      <4> QED
        BY <1>1, <1>2, <3>1, <4>1, WrittenDef
    <3>2. CASE i # 0
      <4>1. i - 1 \in 0 .. n /\ i - 1 < i /\ i \in 1 .. n /\ m + i \in 1 .. m + n /\ (m + i) - 1 = m + (i - 1)
        BY <1>1, <3>2
      <4>2. Written(s, c, m + (i - 1)) = Written(t, b, i - 1)
        BY <2>1, <4>1
      <4>3. Written(s, c, m + i) = Write(Written(s, c, m + (i - 1)), c[m + i])
        <5> DEFINE j == m + i
        <5>1. j \in 1 .. Len(c) /\ j - 1 = m + (i - 1)
          BY <1>1, <4>1
        <5> HIDE DEF j
        <5>2. Written(s, c, j) = Write(Written(s, c, j - 1), c[j])
          BY <1>1, <5>1, WrittenDef
        <5> QED
          BY <5>1, <5>2 DEF j
      <4>4. Written(t, b, i) = Write(Written(t, b, i - 1), b[i])
        BY <1>1, <4>1, WrittenDef
      <4> QED
        BY <1>1, <4>1, <4>2, <4>3, <4>4
    <3> QED
      BY <3>1, <3>2
  <2> HIDE DEF T
  <2>2. 0 .. n \subseteq T
    BY <1>1, <2>1, AllNumbers
  <2> QED
    BY <2>2 DEF T
<1> HIDE DEF t
<1>5. /\ \A i \in 0 .. n : Written(t, b, i) \in M
      /\ Written(t, b, n) \in R
  BY <1>3 DEF Leads
<1>6. \A i \in 0 .. m + n : i \in 0 .. m \/ (i - m \in 0 .. n /\ i = m + (i - m))
  BY <1>1
<1>7. \A i \in 0 .. m + n : Written(s, c, i) \in M
  <2> TAKE i \in 0 .. m + n
  <2>1. CASE i \in 0 .. m
    BY <1>2, <1>3, <2>1
  <2>2. CASE i - m \in 0 .. n /\ i = m + (i - m)
    BY <1>4, <1>5, <2>2
  <2> QED
    BY <1>6, <2>1, <2>2
<1>8. n \in 0 .. n
  BY <1>1
<1> QED
  BY <1>4, <1>5, <1>7, <1>8

LEMMA PairIs ==
  ASSUME NEW x \in Writes, NEW y \in Writes
  PROVE  <<x>> \o <<y>> = <<x, y>>
<1> DEFINE c == <<x>> \o <<y>>
           e == <<x, y>>
<1>1. /\ c \in Seq(Writes) /\ Len(c) = 2 /\ c[1] = x /\ c[2] = y
      /\ e \in Seq(Writes) /\ Len(e) = 2 /\ e[1] = x /\ e[2] = y
  OBVIOUS
<1> HIDE DEF c, e
<1>2. \A i \in 1 .. 2 : c[i] = e[i]
  BY <1>1
<1>3. c = e
  BY <1>1, <1>2, SeqEqual
<1> QED
  BY <1>3 DEF c, e

LEMMA LeadsTwo ==
  ASSUME NEW P, NEW x \in Writes, NEW y \in Writes, NEW M, NEW Q, NEW R,
         P \subseteq M, Q \subseteq M, R \subseteq M,
         \A s \in P : Write(s, x) \in Q, \A s \in Q : Write(s, y) \in R
  PROVE  Leads(P, <<x, y>>, M, R)
<1>1. Leads(P, <<x>>, M, Q) /\ Leads(Q, <<y>>, M, R)
  BY LeadsOne
<1>2. <<x>> \o <<y>> = <<x, y>>
  BY PairIs
<1> QED
  BY <1>1, <1>2, LeadsThen

LEMMA LeadsOn ==
  ASSUME NEW P, NEW do, NEW M, NEW Q, NEW R, Leads(P, do, M, Q), Q \subseteq R
  PROVE  Leads(P, do, M, R)
  BY DEF Leads

LEMMA LeadsFrom ==
  ASSUME NEW P, NEW O, NEW do, NEW M, NEW Q, Leads(P, do, M, Q), O \subseteq P
  PROVE  Leads(O, do, M, Q)
  BY DEF Leads

(* One write, to each field.                                               *)
LEMMA WriteRef ==
  ASSUME NEW s \in Repos, NEW n \in Names, NEW v \in Lines
  PROVE  LET t == Write(s, Put("ref", n, v))
         IN /\ Put("ref", n, v) \in Writes /\ t \in Repos
            /\ t.ref = [s.ref EXCEPT ![n] = v]
            /\ t.head = s.head /\ t.wt = s.wt /\ t.open = s.open /\ t.meta = s.meta /\ t.upstream = s.upstream
<1>1. n # None
  BY NoneIsNoName
<1>2. Put("ref", n, v) \in Writes
  BY DEF Writes, Put, Opens, Token
<1>3. Write(s, Put("ref", n, v)) = [s EXCEPT !.ref[n] = v]
  BY <1>1 DEF Write, Put, Repos
<1>4. [s EXCEPT !.ref[n] = v] \in Repos
  BY DEF Repos
<1> QED
  BY <1>2, <1>3, <1>4 DEF Repos

LEMMA WriteOpen ==
  ASSUME NEW s \in Repos, NEW n \in Names, NEW v \in Opens
  PROVE  LET t == Write(s, Put("open", n, v))
         IN /\ Put("open", n, v) \in Writes /\ t \in Repos
            /\ t.open = [s.open EXCEPT ![n] = v]
            /\ t.head = s.head /\ t.wt = s.wt /\ t.ref = s.ref /\ t.meta = s.meta /\ t.upstream = s.upstream
<1>1. n # None
  BY NoneIsNoName
<1>2. Put("open", n, v) \in Writes
  BY DEF Writes, Put, Opens, Token
<1>3. Write(s, Put("open", n, v)) = [s EXCEPT !.open[n] = v]
  BY <1>1 DEF Write, Put, Repos
<1>4. [s EXCEPT !.open[n] = v] \in Repos
  BY DEF Repos
<1> QED
  BY <1>2, <1>3, <1>4 DEF Repos

LEMMA WriteMeta ==
  ASSUME NEW s \in Repos, NEW n \in Names, NEW v \in Token
  PROVE  LET t == Write(s, Put("meta", n, v))
         IN /\ Put("meta", n, v) \in Writes /\ t \in Repos
            /\ t.meta = [s.meta EXCEPT ![n] = v]
            /\ t.head = s.head /\ t.wt = s.wt /\ t.ref = s.ref /\ t.open = s.open /\ t.upstream = s.upstream
<1>1. n # None
  BY NoneIsNoName
<1>2. Put("meta", n, v) \in Writes
  BY DEF Writes, Put, Opens, Token
<1>3. Write(s, Put("meta", n, v)) = [s EXCEPT !.meta[n] = v]
  BY <1>1 DEF Write, Put, Repos
<1>4. [s EXCEPT !.meta[n] = v] \in Repos
  BY DEF Repos
<1> QED
  BY <1>2, <1>3, <1>4 DEF Repos

LEMMA WritePoint ==
  ASSUME NEW s \in Repos, NEW n \in Names, NEW v \in Pointers \cup {None}
  PROVE  LET t == Write(s, Put("point", n, v))
         IN /\ Put("point", n, v) \in Writes /\ t \in Repos
            /\ t.head = s.head /\ t.wt = s.wt /\ t.ref = s.ref /\ t.open = s.open /\ t.meta = s.meta /\ t.upstream = s.upstream
<1>1. n # None
  BY NoneIsNoName
<1>2. Put("point", n, v) \in Writes
  BY DEF Writes, Put, Opens, Token
<1>3. Write(s, Put("point", n, v)) = [s EXCEPT !.point[n] = v]
  BY <1>1 DEF Write, Put, Repos
<1>4. [s EXCEPT !.point[n] = v] \in Repos
  BY DEF Repos
<1> QED
  BY <1>2, <1>3, <1>4 DEF Repos

LEMMA WriteTrash ==
  ASSUME NEW s \in Repos, NEW n \in Names, NEW v \in Pointers \cup {None}
  PROVE  LET t == Write(s, Put("trash", n, v))
         IN /\ Put("trash", n, v) \in Writes /\ t \in Repos
            /\ t.head = s.head /\ t.wt = s.wt /\ t.ref = s.ref /\ t.open = s.open /\ t.meta = s.meta /\ t.upstream = s.upstream
<1>1. n # None
  BY NoneIsNoName
<1>2. Put("trash", n, v) \in Writes
  BY DEF Writes, Put, Opens, Token
<1>3. Write(s, Put("trash", n, v)) = [s EXCEPT !.trash[n] = v]
  BY <1>1 DEF Write, Put, Repos
<1>4. [s EXCEPT !.trash[n] = v] \in Repos
  BY DEF Repos
<1> QED
  BY <1>2, <1>3, <1>4 DEF Repos

LEMMA WriteHead ==
  ASSUME NEW s \in Repos, NEW v \in Names
  PROVE  LET t == Write(s, Set("head", v))
         IN /\ Set("head", v) \in Writes /\ t \in Repos
            /\ t.head = v
            /\ t.wt = s.wt /\ t.ref = s.ref /\ t.open = s.open /\ t.meta = s.meta /\ t.upstream = s.upstream
<1>1. Set("head", v) \in Writes
  BY DEF Writes, Set
<1>2. Write(s, Set("head", v)) = [s EXCEPT !.head = v]
  BY DEF Write, Set, Repos
<1>3. [s EXCEPT !.head = v] \in Repos
  BY DEF Repos
<1> QED
  BY <1>1, <1>2, <1>3 DEF Repos

LEMMA WriteWt ==
  ASSUME NEW s \in Repos, NEW v \in Token
  PROVE  LET t == Write(s, Set("wt", v))
         IN /\ Set("wt", v) \in Writes /\ t \in Repos
            /\ t.wt = v
            /\ t.head = s.head /\ t.ref = s.ref /\ t.open = s.open /\ t.meta = s.meta /\ t.upstream = s.upstream
<1>1. Set("wt", v) \in Writes
  BY DEF Writes, Set
<1>2. Write(s, Set("wt", v)) = [s EXCEPT !.wt = v]
  BY DEF Write, Set, Repos
<1>3. [s EXCEPT !.wt = v] \in Repos
  BY DEF Repos
<1> QED
  BY <1>1, <1>2, <1>3 DEF Repos

LEMMA WriteUpstream ==
  ASSUME NEW s \in Repos, NEW v \in [Names -> Token]
  PROVE  LET t == Write(s, Set("upstream", v))
         IN /\ Set("upstream", v) \in Writes /\ t \in Repos
            /\ t.upstream = v
            /\ t.head = s.head /\ t.wt = s.wt /\ t.ref = s.ref /\ t.open = s.open /\ t.meta = s.meta
<1>1. Set("upstream", v) \in Writes
  BY DEF Writes, Set
<1>2. Write(s, Set("upstream", v)) = [s EXCEPT !.upstream = v]
  BY DEF Write, Set, Repos
<1>3. [s EXCEPT !.upstream = v] \in Repos
  BY DEF Repos
<1> QED
  BY <1>1, <1>2, <1>3 DEF Repos

-----------------------------------------------------------------------------
(***************************************************************************)
(* What a verb that begins on k has to leave.                              *)
(***************************************************************************)

Alive(k) == Names \ Free(k)

(* Nothing of branch n has moved; what is open underfoot is in the tree.   *)
Stays(k, t, n) ==
  /\ t.ref[n] = k.ref[n]
  /\ k.meta[n] # None => t.meta[n] = k.meta[n]
  /\ k.upstream[n] # None => t.upstream[n] = k.upstream[n]
  /\ n # k.head => t.open[n] = k.open[n]

Others(k, t, old) == \A n \in Alive(k) \ {old} : Stays(k, t, n)

Keeps(k, gone) == {t \in Repos : \A n \in Alive(k) \ gone : Kept(k, t, n)}

LEMMA AliveIsNamed == ASSUME NEW k, NEW n \in Alive(k) PROVE n \in Names
  BY DEF Alive

LEMMA StaysKept ==
  ASSUME NEW k \in Repos, NEW t \in Repos, NEW n \in Names, Stays(k, t, n),
         n = k.head => k.wt = None \/ (t.head = k.head /\ t.wt = k.wt)
  PROVE  Kept(k, t, n)
<1> DEFINE of == {m \in Names : t.ref[m].line = k.ref[n].line}
<1>1. n \in of
  BY DEF Stays
<1>2. of # {}
  BY <1>1
<1>3. k.meta[n] # None => t.meta[n] = k.meta[n]
  BY DEF Stays
<1>4. k.upstream[n] # None => t.upstream[n] = k.upstream[n]
  BY DEF Stays
<1> HIDE DEF of
<1>5. OpenWork(k, n) # None => HeldBy(t, of, OpenWork(k, n))
  <2>1. CASE n = k.head
    BY <1>1, <2>1 DEF OpenWork, HeldBy
  <2>2. CASE n # k.head
    <3>1. t.open[n] = k.open[n]
      BY <2>2 DEF Stays
    <3> QED
      BY <1>1, <2>2, <3>1 DEF OpenWork, HeldBy
  <2> QED
    BY <2>1, <2>2
<1> QED
  BY <1>1, <1>2, <1>3, <1>4, <1>5 DEF Kept, of

(* A branch under another name of its line, where the tree is.             *)
LEMMA MovedKept ==
  ASSUME NEW k \in Repos, NEW t \in Repos, NEW n \in Names, n = k.head,
         NEW of, of = {m \in Names : t.ref[m].line = k.ref[n].line},
         t.head \in of, t.wt = k.wt,
         k.meta[n] # None => \E m \in of : t.meta[m] = k.meta[n],
         k.upstream[n] # None => \E m \in of : t.upstream[m] = k.upstream[n]
  PROVE  Kept(k, t, n)
<1>1. of # {}
  OBVIOUS
<1>2. OpenWork(k, n) # None => HeldBy(t, of, OpenWork(k, n))
  BY DEF OpenWork, HeldBy
<1> QED
  BY <1>1, <1>2 DEF Kept

-----------------------------------------------------------------------------
(***************************************************************************)
(* A rename: what it has come to after each of its steps.                  *)
(***************************************************************************)

Untouched(k) == {t \in Repos : (\A n \in Alive(k) : Stays(k, t, n)) /\ t.head = k.head /\ t.wt = k.wt}

BothNames(k, new) ==
  {t \in Repos : /\ \A n \in Alive(k) : Stays(k, t, n)
                 /\ t.ref[new] = k.ref[k.head] /\ t.wt = k.wt /\ t.head \in {k.head, new}}

OnNew(k, new) == {t \in BothNames(k, new) : t.head = new}

IdOn(k, t, new) == k.meta[k.head] # None => t.meta[new] = k.meta[k.head]

IdOnBoth(k, new) == {t \in OnNew(k, new) : IdOn(k, t, new)}

IdMoved(k, new) ==
  {t \in Repos : /\ Others(k, t, k.head) /\ IdOn(k, t, new)
                 /\ t.ref[new] = k.ref[k.head] /\ t.wt = k.wt /\ t.head = new
                 /\ t.ref[k.head] = k.ref[k.head]
                 /\ k.upstream[k.head] # None => t.upstream[k.head] = k.upstream[k.head]}

AllMoved(k, new) ==
  {t \in Repos : /\ Others(k, t, k.head) /\ IdOn(k, t, new)
                 /\ t.ref[new] = k.ref[k.head] /\ t.wt = k.wt /\ t.head = new
                 /\ k.upstream[k.head] # None => t.upstream[new] = k.upstream[k.head]}

LEMMA UntouchedKeeps ==
  ASSUME NEW k \in Repos
  PROVE  Untouched(k) \subseteq Keeps(k, {})
<1> SUFFICES ASSUME NEW t \in Untouched(k), NEW n \in Alive(k) PROVE Kept(k, t, n)
  BY DEF Keeps, Untouched
<1>1. n \in Names
  BY AliveIsNamed
<1> QED
  BY <1>1, StaysKept DEF Untouched

LEMMA OthersKept ==
  ASSUME NEW k \in Repos, NEW t \in Repos, Others(k, t, k.head), k.head \in Alive(k) => Kept(k, t, k.head)
  PROVE  t \in Keeps(k, {})
<1> SUFFICES ASSUME NEW n \in Alive(k), n # k.head PROVE Kept(k, t, n)
  BY DEF Keeps
<1>1. n \in Names /\ Stays(k, t, n)
  BY AliveIsNamed DEF Others
<1> QED
  BY <1>1, StaysKept

LEMMA RenamedKeeps ==
  ASSUME NEW k \in Repos, NEW new \in Names, k.head \in Alive(k)
  PROVE  /\ OnNew(k, new) \subseteq BothNames(k, new)
         /\ IdOnBoth(k, new) \subseteq OnNew(k, new)
         /\ BothNames(k, new) \subseteq Keeps(k, {})
         /\ IdMoved(k, new) \subseteq Keeps(k, {})
         /\ AllMoved(k, new) \subseteq Keeps(k, {})
<1> DEFINE old == k.head
           of(t) == {m \in Names : t.ref[m].line = k.ref[old].line}
<1>0. old \in Names
  BY AliveIsNamed
<1>1. ASSUME NEW t \in BothNames(k, new) PROVE t \in Keeps(k, {})
  <2>1. t \in Repos /\ Others(k, t, old) /\ Stays(k, t, old) /\ t.ref[new] = k.ref[old] /\ t.wt = k.wt
        /\ t.head \in {old, new}
    BY <1>1 DEF BothNames, Others
  <2>2. old \in of(t) /\ new \in of(t) /\ t.head \in of(t)
    BY <1>0, <2>1 DEF Stays
  <2>3. /\ k.meta[old] # None => t.meta[old] = k.meta[old]
        /\ k.upstream[old] # None => t.upstream[old] = k.upstream[old]
    BY <2>1 DEF Stays
  <2> HIDE DEF of
  <2>4. Kept(k, t, old)
    BY <1>0, <2>1, <2>2, <2>3, MovedKept DEF of
  <2> QED
    BY <2>1, <2>4, OthersKept
<1>2. ASSUME NEW t \in IdMoved(k, new) PROVE t \in Keeps(k, {})
  <2>1. t \in Repos /\ Others(k, t, old) /\ IdOn(k, t, new) /\ t.ref[new] = k.ref[old] /\ t.wt = k.wt
        /\ t.head = new /\ t.ref[old] = k.ref[old]
        /\ (k.upstream[old] # None => t.upstream[old] = k.upstream[old])
    BY <1>2 DEF IdMoved
  <2>2. old \in of(t) /\ new \in of(t) /\ t.head \in of(t)
    BY <1>0, <2>1
  <2>3. k.meta[old] # None => t.meta[new] = k.meta[old]
    BY <2>1 DEF IdOn
  <2> HIDE DEF of
  <2>4. Kept(k, t, old)
    BY <1>0, <2>1, <2>2, <2>3, MovedKept DEF of
  <2> QED
    BY <2>1, <2>4, OthersKept
<1>3. ASSUME NEW t \in AllMoved(k, new) PROVE t \in Keeps(k, {})
  <2>1. t \in Repos /\ Others(k, t, old) /\ IdOn(k, t, new) /\ t.ref[new] = k.ref[old] /\ t.wt = k.wt
        /\ t.head = new
        /\ (k.upstream[old] # None => t.upstream[new] = k.upstream[old])
    BY <1>3 DEF AllMoved
  <2>2. new \in of(t) /\ t.head \in of(t)
    BY <1>0, <2>1
  <2>3. k.meta[old] # None => t.meta[new] = k.meta[old]
    BY <2>1 DEF IdOn
  <2> HIDE DEF of
  <2>4. Kept(k, t, old)
    BY <1>0, <2>1, <2>2, <2>3, MovedKept DEF of
  <2> QED
    BY <2>1, <2>4, OthersKept
<1> QED
  BY <1>1, <1>2, <1>3 DEF OnNew, IdOnBoth

LEMMA FreeIsNotAlive ==
  ASSUME NEW k, NEW new \in Free(k)
  PROVE  new \in Names /\ new \notin Alive(k) /\ \A n \in Alive(k) : n # new
  BY DEF Alive, Free

LEMMA RenameStartsLead ==
  ASSUME NEW k \in Repos, k.head \in Alive(k), NEW new \in Free(k),
         NEW s \in Repos, s.ref = k.ref, s.head = k.head
  PROVE  Leads(Untouched(k), RenameStarts(s, k.head, new), Keeps(k, {}), OnNew(k, new))
<1> DEFINE old == k.head
<1>1. /\ new \in Names /\ \A n \in Alive(k) : n # new
      /\ old \in Names /\ k.ref \in [Names -> Lines] /\ k.ref[old] \in Lines
  BY FreeIsNotAlive, AliveIsNamed, RepoFields
<1>2. \A t \in Untouched(k) : Write(t, Put("ref", new, s.ref[old])) \in BothNames(k, new)
  <2> SUFFICES ASSUME NEW t \in Untouched(k) PROVE Write(t, Put("ref", new, s.ref[old])) \in BothNames(k, new)
    OBVIOUS
  <2>1. t \in Repos /\ t.head = old /\ t.wt = k.wt /\ \A n \in Alive(k) : Stays(k, t, n)
    BY DEF Untouched
  <2> DEFINE u == Write(t, Put("ref", new, s.ref[old]))
  <2>2. /\ u \in Repos /\ u.ref = [t.ref EXCEPT ![new] = k.ref[old]] /\ u.head = t.head /\ u.wt = t.wt
        /\ u.open = t.open /\ u.meta = t.meta /\ u.upstream = t.upstream
    BY <1>1, <2>1, WriteRef
  <2>3. t.ref \in [Names -> Lines]
    BY <2>1, RepoFields
  <2> HIDE DEF u
  <2>4. u.ref[new] = k.ref[old]
    BY <1>1, <2>2, <2>3
  <2>5. \A n \in Alive(k) : Stays(k, u, n)
    BY <1>1, <2>1, <2>2, <2>3 DEF Stays
  <2> QED
    BY <2>1, <2>2, <2>4, <2>5 DEF BothNames, u
<1>3. \A t \in BothNames(k, new) : Write(t, Set("head", new)) \in OnNew(k, new)
  <2> SUFFICES ASSUME NEW t \in BothNames(k, new) PROVE Write(t, Set("head", new)) \in OnNew(k, new)
    OBVIOUS
  <2>1. t \in Repos /\ t.ref[new] = k.ref[old] /\ t.wt = k.wt /\ \A n \in Alive(k) : Stays(k, t, n)
    BY DEF BothNames
  <2> DEFINE u == Write(t, Set("head", new))
  <2>2. /\ u \in Repos /\ u.ref = t.ref /\ u.head = new /\ u.wt = t.wt
        /\ u.open = t.open /\ u.meta = t.meta /\ u.upstream = t.upstream
    BY <1>1, <2>1, WriteHead
  <2> HIDE DEF u
  <2>3. \A n \in Alive(k) : Stays(k, u, n)
    BY <2>1, <2>2 DEF Stays
  <2> QED
    BY <2>1, <2>2, <2>3 DEF BothNames, OnNew, u
<1>4. Put("ref", new, s.ref[old]) \in Writes /\ Set("head", new) \in Writes
  BY <1>1, WriteRef, WriteHead
<1>5. Leads(Untouched(k), <<Put("ref", new, s.ref[old])>>, Keeps(k, {}), BothNames(k, new))
  BY <1>1, <1>2, <1>4, UntouchedKeeps, RenamedKeeps, LeadsOne
<1>6. Leads(BothNames(k, new), <<Set("head", new)>>, Keeps(k, {}), OnNew(k, new))
  BY <1>1, <1>3, <1>4, RenamedKeeps, LeadsOne
<1>7. RenameStarts(s, old, new) = <<Put("ref", new, s.ref[old])>> \o <<Set("head", new)>>
  BY DEF RenameStarts
<1> QED
  BY <1>5, <1>6, <1>7, LeadsThen

LEMMA RenameEndsLead ==
  ASSUME NEW k \in Repos, k.head \in Alive(k), NEW new \in Free(k),
         NEW s \in Repos, s.upstream = k.upstream, k.meta[k.head] # None => s.meta[k.head] = k.meta[k.head]
  PROVE  Leads(OnNew(k, new), RenameEnds(s, k.head, new), Keeps(k, {}), AllMoved(k, new))
<1> DEFINE old == k.head
           points == IF s.point[old] = None THEN << >> ELSE <<Put("point", new, s.point[old]), Put("point", old, None)>>
           opens == IF s.open[old] = None THEN << >> ELSE <<Put("open", new, s.open[old]), Put("open", old, None)>>
           metas == <<Put("meta", new, s.meta[old]), Put("meta", old, None)>>
           moved == [s.upstream EXCEPT ![new] = s.upstream[old], ![old] = None]
           ups == IF s.upstream[old] = None THEN << >> ELSE <<Set("upstream", moved)>>
           refs == <<Put("ref", old, Absent)>>
           M == Keeps(k, {})
           On == OnNew(k, new)
<1>1. /\ new \in Names /\ \A n \in Alive(k) : n # new
      /\ old \in Names /\ new # old
  BY FreeIsNotAlive, AliveIsNamed
<1>2. /\ s.point[old] \in Pointers \cup {None} /\ s.open[old] \in Opens /\ s.meta[old] \in Token
      /\ s.upstream \in [Names -> Token] /\ moved \in [Names -> Token]
      /\ None \in Pointers \cup {None} /\ None \in Opens /\ None \in Token /\ Absent \in Lines
  <2>1. None \in Opens /\ None \in Token
    BY DEF Opens, Token
  <2>2. Absent \in Lines
    BY DEF Absent, Lines
  <2> QED
    BY <1>1, <2>1, <2>2, RepoFields
<1>3. /\ On \subseteq M /\ IdOnBoth(k, new) \subseteq M /\ IdMoved(k, new) \subseteq M /\ AllMoved(k, new) \subseteq M
  BY <1>1, RenamedKeeps
<1>4. \A t \in On : /\ t \in Repos /\ t.ref[new] = k.ref[old] /\ t.wt = k.wt /\ t.head = new
                    /\ \A n \in Alive(k) : Stays(k, t, n)
  BY DEF OnNew, BothNames
<1>5. ASSUME NEW u \in Repos, u.ref[new] = k.ref[old], u.wt = k.wt, u.head = new, \A n \in Alive(k) : Stays(k, u, n)
      PROVE  u \in On
  BY <1>5 DEF OnNew, BothNames
<1> HIDE DEF On
<1>6. Leads(On, points, M, On)
  <2>1. ASSUME NEW t \in On, NEW n \in {old, new}, NEW v \in Pointers \cup {None}
        PROVE  Write(t, Put("point", n, v)) \in On
    <3> DEFINE u == Write(t, Put("point", n, v))
    <3>1. t \in Repos /\ t.ref[new] = k.ref[old] /\ t.wt = k.wt /\ t.head = new /\ \A m \in Alive(k) : Stays(k, t, m)
      BY <1>4
    <3>2. /\ u \in Repos /\ u.ref = t.ref /\ u.head = t.head /\ u.wt = t.wt
          /\ u.open = t.open /\ u.meta = t.meta /\ u.upstream = t.upstream
      BY <1>1, <3>1, WritePoint
    <3>3. t.open \in [Names -> Opens]
      BY <3>1, RepoFields
    <3> HIDE DEF u
    <3>4. \A m \in Alive(k) : Stays(k, u, m)
      <4> SUFFICES ASSUME NEW m \in Alive(k) PROVE Stays(k, u, m)
        OBVIOUS
      <4>1. m \in Names /\ m # new /\ (m # old => u.open[m] = t.open[m])
        BY <1>1, <3>2, <3>3, AliveIsNamed
      <4> QED
        BY <3>1, <3>2, <4>1 DEF Stays
    <3>5. u \in On
      BY <1>5, <3>1, <3>2, <3>4
    <3> QED
      BY <3>5 DEF u
  <2>2. Put("point", new, s.point[old]) \in Writes /\ Put("point", old, None) \in Writes
    BY <1>1, <1>2, WritePoint
  <2>3. \A t \in On : Write(t, Put("point", new, s.point[old])) \in On
    BY <1>2, <2>1
  <2>4. \A t \in On : Write(t, Put("point", old, None)) \in On
    BY <1>2, <2>1
  <2>5. Leads(On, <<Put("point", new, s.point[old]), Put("point", old, None)>>, M, On)
    BY <1>3, <2>2, <2>3, <2>4, LeadsTwo
  <2> QED
    BY <1>3, <2>5, LeadsNone

<1>7. Leads(On, opens, M, On)
  <2>1. ASSUME NEW t \in On, NEW n \in {old, new}, NEW v \in Opens
        PROVE  Write(t, Put("open", n, v)) \in On
    <3> DEFINE u == Write(t, Put("open", n, v))
    <3>1. t \in Repos /\ t.ref[new] = k.ref[old] /\ t.wt = k.wt /\ t.head = new /\ \A m \in Alive(k) : Stays(k, t, m)
      BY <1>4
    <3>2. /\ u \in Repos /\ u.ref = t.ref /\ u.head = t.head /\ u.wt = t.wt
          /\ u.open = [t.open EXCEPT ![n] = v] /\ u.meta = t.meta /\ u.upstream = t.upstream
      BY <1>1, <3>1, WriteOpen
    <3>3. t.open \in [Names -> Opens]
      BY <3>1, RepoFields
    <3> HIDE DEF u
    <3>4. \A m \in Alive(k) : Stays(k, u, m)
      <4> SUFFICES ASSUME NEW m \in Alive(k) PROVE Stays(k, u, m)
        OBVIOUS
      <4>1. m \in Names /\ m # new /\ (m # old => u.open[m] = t.open[m])
        BY <1>1, <3>2, <3>3, AliveIsNamed
      <4> QED
        BY <3>1, <3>2, <4>1 DEF Stays
    <3>5. u \in On
      BY <1>5, <3>1, <3>2, <3>4
    <3> QED
      BY <3>5 DEF u
  <2>2. Put("open", new, s.open[old]) \in Writes /\ Put("open", old, None) \in Writes
    BY <1>1, <1>2, WriteOpen
  <2>3. \A t \in On : Write(t, Put("open", new, s.open[old])) \in On
    BY <1>2, <2>1
  <2>4. \A t \in On : Write(t, Put("open", old, None)) \in On
    BY <1>2, <2>1
  <2>5. Leads(On, <<Put("open", new, s.open[old]), Put("open", old, None)>>, M, On)
    BY <1>3, <2>2, <2>3, <2>4, LeadsTwo
  <2> QED
    BY <1>3, <2>5, LeadsNone

<1>8. Leads(On, metas, M, IdMoved(k, new))
  <2>1. ASSUME NEW t \in On
        PROVE  Write(t, Put("meta", new, s.meta[old])) \in IdOnBoth(k, new)
    <3> DEFINE u == Write(t, Put("meta", new, s.meta[old]))
    <3>1. t \in Repos /\ t.ref[new] = k.ref[old] /\ t.wt = k.wt /\ t.head = new /\ \A m \in Alive(k) : Stays(k, t, m)
      BY <1>4
    <3>2. /\ u \in Repos /\ u.ref = t.ref /\ u.head = t.head /\ u.wt = t.wt /\ u.open = t.open
          /\ u.meta = [t.meta EXCEPT ![new] = s.meta[old]] /\ u.upstream = t.upstream
      BY <1>1, <1>2, <3>1, WriteMeta
    <3>3. t.meta \in [Names -> Token]
      BY <3>1, RepoFields
    <3> HIDE DEF u
    <3>4. \A m \in Alive(k) : Stays(k, u, m)
      <4> SUFFICES ASSUME NEW m \in Alive(k) PROVE Stays(k, u, m)
        OBVIOUS
      <4>1. m \in Names /\ m # new /\ u.meta[m] = t.meta[m]
        BY <1>1, <3>2, <3>3, AliveIsNamed
      <4> QED
        BY <3>1, <3>2, <4>1 DEF Stays
    <3>5. u \in On
      BY <1>5, <3>1, <3>2, <3>4
    <3>6. u.meta[new] = s.meta[old]
      BY <1>1, <3>2, <3>3
    <3>7. u \in IdOnBoth(k, new)
      BY <3>5, <3>6 DEF IdOnBoth, IdOn, On
    <3> QED
      BY <3>7 DEF u
  <2>2. ASSUME NEW t \in IdOnBoth(k, new)
        PROVE  Write(t, Put("meta", old, None)) \in IdMoved(k, new)
    <3> DEFINE u == Write(t, Put("meta", old, None))
    <3>1. t \in On /\ IdOn(k, t, new)
      BY <2>2 DEF IdOnBoth, On
    <3>2. t \in Repos /\ t.ref[new] = k.ref[old] /\ t.wt = k.wt /\ t.head = new /\ \A m \in Alive(k) : Stays(k, t, m)
      BY <1>4, <3>1
    <3>3. /\ u \in Repos /\ u.ref = t.ref /\ u.head = t.head /\ u.wt = t.wt /\ u.open = t.open
          /\ u.meta = [t.meta EXCEPT ![old] = None] /\ u.upstream = t.upstream
      BY <1>1, <1>2, <3>2, WriteMeta
    <3>4. t.meta \in [Names -> Token]
      BY <3>2, RepoFields
    <3> HIDE DEF u
    <3>5. Others(k, u, old)
      <4> SUFFICES ASSUME NEW m \in Alive(k), m # old PROVE Stays(k, u, m)
        BY DEF Others
      <4>1. m \in Names /\ u.meta[m] = t.meta[m]
        BY <3>3, <3>4, AliveIsNamed
      <4> QED
        BY <3>2, <3>3, <4>1 DEF Stays
    <3>6. u.meta[new] = t.meta[new]
      BY <1>1, <3>3, <3>4
    <3>7. IdOn(k, u, new)
      BY <3>1, <3>6 DEF IdOn
    <3>8. u.ref[old] = k.ref[old] /\ (k.upstream[old] # None => u.upstream[old] = k.upstream[old])
      BY <3>2, <3>3 DEF Stays
    <3>9. u \in IdMoved(k, new)
      BY <3>2, <3>3, <3>5, <3>7, <3>8 DEF IdMoved
    <3> QED
      BY <3>9 DEF u
  <2>3. Put("meta", new, s.meta[old]) \in Writes /\ Put("meta", old, None) \in Writes
    BY <1>1, <1>2, WriteMeta
  <2> QED
    BY <1>3, <2>1, <2>2, <2>3, LeadsTwo
<1>9. Leads(IdMoved(k, new), ups, M, AllMoved(k, new))
  <2>1. ASSUME NEW t \in IdMoved(k, new)
        PROVE  /\ t \in Repos /\ Others(k, t, old) /\ IdOn(k, t, new)
               /\ t.ref[new] = k.ref[old] /\ t.wt = k.wt /\ t.head = new
    BY <2>1 DEF IdMoved
  <2>2. CASE s.upstream[old] = None
    <3>1. IdMoved(k, new) \subseteq AllMoved(k, new)
      BY <2>1, <2>2 DEF AllMoved
    <3>2. ups = << >>
      BY <2>2
    <3> HIDE DEF ups
    <3> QED
      BY <1>3, <3>1, <3>2, LeadsNone
  <2>3. CASE s.upstream[old] # None
    <3>1. ASSUME NEW t \in IdMoved(k, new)
          PROVE  Write(t, Set("upstream", moved)) \in AllMoved(k, new)
      <4> DEFINE u == Write(t, Set("upstream", moved))
      <4>1. /\ t \in Repos /\ Others(k, t, old) /\ IdOn(k, t, new)
            /\ t.ref[new] = k.ref[old] /\ t.wt = k.wt /\ t.head = new
        BY <2>1, <3>1
      <4>2. /\ u \in Repos /\ u.ref = t.ref /\ u.head = t.head /\ u.wt = t.wt /\ u.open = t.open
            /\ u.meta = t.meta /\ u.upstream = moved
        BY <1>2, <4>1, WriteUpstream
      <4> HIDE DEF u
      <4>3. moved[new] = k.upstream[old] /\ \A m \in Names : m # old /\ m # new => moved[m] = k.upstream[m]
        BY <1>1, <1>2
      <4> HIDE DEF moved
      <4>4. Others(k, u, old)
        <5> SUFFICES ASSUME NEW m \in Alive(k), m # old PROVE Stays(k, u, m)
          BY DEF Others
        <5>1. m \in Names /\ m # new /\ Stays(k, t, m)
          BY <1>1, <4>1, AliveIsNamed DEF Others
        <5>2. u.upstream[m] = k.upstream[m]
          BY <4>2, <4>3, <5>1
        <5> QED
          BY <4>2, <5>1, <5>2 DEF Stays
      <4>5. IdOn(k, u, new)
        BY <4>1, <4>2 DEF IdOn
      <4>6. u.upstream[new] = k.upstream[old]
        BY <4>2, <4>3
      <4>7. u \in AllMoved(k, new)
        BY <4>1, <4>2, <4>4, <4>5, <4>6 DEF AllMoved
      <4> QED
        BY <4>7 DEF u
    <3>2. Set("upstream", moved) \in Writes
      BY <1>2 DEF Writes, Set
    <3>3. Leads(IdMoved(k, new), <<Set("upstream", moved)>>, M, AllMoved(k, new))
      BY <1>3, <3>1, <3>2, LeadsOne
    <3> QED
      BY <2>3, <3>3
  <2> QED
    BY <2>2, <2>3
<1>10. Leads(AllMoved(k, new), refs, M, AllMoved(k, new))
  <2>1. ASSUME NEW t \in AllMoved(k, new)
        PROVE  Write(t, Put("ref", old, Absent)) \in AllMoved(k, new)
    <3> DEFINE u == Write(t, Put("ref", old, Absent))
    <3>1. /\ t \in Repos /\ Others(k, t, old) /\ IdOn(k, t, new)
          /\ t.ref[new] = k.ref[old] /\ t.wt = k.wt /\ t.head = new
          /\ (k.upstream[old] # None => t.upstream[new] = k.upstream[old])
      BY <2>1 DEF AllMoved
    <3>2. /\ u \in Repos /\ u.ref = [t.ref EXCEPT ![old] = Absent] /\ u.head = t.head /\ u.wt = t.wt
          /\ u.open = t.open /\ u.meta = t.meta /\ u.upstream = t.upstream
      BY <1>1, <1>2, <3>1, WriteRef
    <3>3. t.ref \in [Names -> Lines]
      BY <3>1, RepoFields
    <3> HIDE DEF u
    <3>4. \A m \in Names : m # old => u.ref[m] = t.ref[m]
      BY <1>1, <3>2, <3>3
    <3>5. Others(k, u, old)
      <4> SUFFICES ASSUME NEW m \in Alive(k), m # old PROVE Stays(k, u, m)
        BY DEF Others
      <4>1. m \in Names /\ Stays(k, t, m)
        BY <3>1, AliveIsNamed DEF Others
      <4>2. u.ref[m] = t.ref[m]
        BY <3>4, <4>1
      <4> QED
        BY <3>2, <4>1, <4>2 DEF Stays
    <3>6. IdOn(k, u, new)
      BY <3>1, <3>2 DEF IdOn
    <3>7. u.ref[new] = k.ref[old]
      BY <1>1, <3>1, <3>4
    <3>8. u \in AllMoved(k, new)
      BY <3>1, <3>2, <3>5, <3>6, <3>7 DEF AllMoved
    <3> QED
      BY <3>8 DEF u
  <2>2. Put("ref", old, Absent) \in Writes
    BY <1>1, <1>2 DEF Writes, Put
  <2> QED
    BY <1>3, <2>1, <2>2, LeadsOne
<1>11. RenameEnds(s, old, new) = (((points \o opens) \o metas) \o ups) \o refs
  BY DEF RenameEnds, MetaMoves
<1> HIDE DEF points, opens, metas, ups, refs, M
<1>12. Leads(On, points \o opens, M, On)
  BY <1>6, <1>7, LeadsThen
<1>13. Leads(On, (points \o opens) \o metas, M, IdMoved(k, new))
  BY <1>8, <1>12, LeadsThen
<1>14. Leads(On, ((points \o opens) \o metas) \o ups, M, AllMoved(k, new))
  BY <1>9, <1>13, LeadsThen
<1>15. Leads(On, (((points \o opens) \o metas) \o ups) \o refs, M, AllMoved(k, new))
  BY <1>10, <1>14, LeadsThen
<1> QED
  BY <1>11, <1>15 DEF On, M

LEMMA RenameLeads ==
  ASSUME NEW k \in Repos, k.head \in Alive(k), NEW new \in Free(k),
         NEW s \in Repos, s.ref = k.ref, s.head = k.head, s.upstream = k.upstream,
         k.meta[k.head] # None => s.meta[k.head] = k.meta[k.head]
  PROVE  /\ Leads(Untouched(k), RenameSteps(s, k.head, new), Keeps(k, {}), Keeps(k, {}))
         /\ ~Collides(s, k.head, new) =>
              Leads(Untouched(k), RenameSteps(s, k.head, new), Keeps(k, {}), AllMoved(k, new))
<1> DEFINE starts == RenameStarts(s, k.head, new)
           ends == RenameEnds(s, k.head, new)
<1>1. Leads(Untouched(k), starts, Keeps(k, {}), OnNew(k, new))
  BY RenameStartsLead
<1>2. Leads(OnNew(k, new), ends, Keeps(k, {}), AllMoved(k, new))
  BY RenameEndsLead
<1>3. new \in Names /\ OnNew(k, new) \subseteq Keeps(k, {}) /\ AllMoved(k, new) \subseteq Keeps(k, {})
  BY FreeIsNotAlive, RenamedKeeps
<1>4. Leads(Untouched(k), starts \o ends, Keeps(k, {}), AllMoved(k, new))
  BY <1>1, <1>2, LeadsThen
<1>5. Leads(Untouched(k), starts \o << >>, Keeps(k, {}), Keeps(k, {}))
  BY <1>1, <1>3, LeadsNone, LeadsThen
<1>6. Leads(Untouched(k), starts \o ends, Keeps(k, {}), Keeps(k, {}))
  BY <1>3, <1>4, LeadsOn
<1>7. RenameSteps(s, k.head, new) = starts \o (IF Collides(s, k.head, new) THEN << >> ELSE ends)
  BY DEF RenameSteps
<1> HIDE DEF starts, ends
<1> QED
  BY <1>4, <1>5, <1>6, <1>7

-----------------------------------------------------------------------------
(***************************************************************************)
(* A close: the open change becomes a commit of the branch, under its name *)
(* or another.                                                             *)
(***************************************************************************)

(* An operation is recorded on HEAD's branch or on a name no branch has.   *)
LEMMA PushUntouched ==
  ASSUME NEW l \in Logs, NEW d \in Ops, d.on = l.w.head \/ d.on \in Free(l.w)
  PROVE  Push(l, d).w \in Untouched(l.w)
<1> DEFINE k == l.w
           s == Push(l, d).w
<1>1. /\ s \in Repos /\ s.head = k.head /\ s.wt = k.wt /\ s.ref = k.ref /\ s.upstream = k.upstream
      /\ \A n \in Names : /\ n # d.on => s.open[n] = k.open[n]
                          /\ k.meta[n] # None => s.meta[n] = k.meta[n]
  BY PushIs
<1>2. \A n \in Alive(k) : n \in Names /\ (n # k.head => n # d.on)
  BY FreeIsNotAlive, AliveIsNamed
<1> HIDE DEF s, k
<1>3. \A n \in Alive(k) : Stays(k, s, n)
  BY <1>1, <1>2 DEF Stays
<1>4. s \in Untouched(k)
  BY <1>1, <1>3 DEF Untouched
<1> QED
  BY <1>4 DEF s, k

UpstreamUnder(k, t, to) ==
  k.upstream[k.head] # None =>
    \E m \in {k.head, to} : t.ref[m].line = k.ref[k.head].line /\ t.upstream[m] = k.upstream[k.head]

(* Just before the branch moves to its commit, and ever after.             *)
Landing(k, to) == {t \in Keeps(k, {}) : Others(k, t, k.head) /\ UpstreamUnder(k, t, to)}

Landed(k, to, landed) ==
  {t \in Repos : Others(k, t, k.head) /\ UpstreamUnder(k, t, to) /\ t.ref[to] = landed}

LandedOf(k, x) == [k.ref[k.head] EXCEPT !.has = Append(@, [id |-> x, work |-> k.wt])]

(* The id of the change underfoot, or the one the close mints for it.      *)
IdOf(l) == IF l.w.meta[l.w.head] = None THEN l.fresh + 1 ELSE l.w.meta[l.w.head]

LEMMA IdOfIs ==
  ASSUME NEW l \in Logs
  PROVE  IdOf(l) \in Token /\ (l.w.meta[l.w.head] # None => IdOf(l) = l.w.meta[l.w.head])
<1>1. l.fresh \in Nat /\ l.w.meta[l.w.head] \in Token
  BY LogFields, RepoFields
<1> QED
  BY <1>1 DEF IdOf, Token

LEMMA LandedOfIs ==
  ASSUME NEW k \in Repos, NEW x \in Token
  PROVE  /\ LandedOf(k, x) \in Lines /\ LandedOf(k, x).line = k.ref[k.head].line
         /\ \E i \in DOMAIN LandedOf(k, x).has : /\ LandedOf(k, x).has[i].id = x
                                                 /\ LandedOf(k, x).has[i].work = k.wt
<1> DEFINE c == [id |-> x, work |-> k.wt]
           b == k.ref[k.head]
           s == Append(b.has, c)
<1>1. k.head \in Names /\ k.wt \in Token /\ b \in Lines
  BY RepoFields
<1>2. c \in Commits /\ c.id = x /\ c.work = k.wt
  BY <1>1 DEF Commits
<1>3. b.has \in Seq(Commits) /\ b.line \in Nat
  BY <1>1 DEF Lines
<1> HIDE DEF c, b
<1>4. s \in Seq(Commits) /\ Len(b.has) + 1 \in DOMAIN s /\ s[Len(b.has) + 1] = c
  BY <1>2, <1>3
<1> HIDE DEF s
<1>5. LandedOf(k, x) = [b EXCEPT !.has = s]
  BY DEF LandedOf, s, b, c
<1>6. [b EXCEPT !.has = s] \in Lines /\ [b EXCEPT !.has = s].line = b.line /\ [b EXCEPT !.has = s].has = s
  BY <1>1, <1>4 DEF Lines
<1> QED
  BY <1>2, <1>4, <1>5, <1>6 DEF b

LEMMA LandedKeeps ==
  ASSUME NEW k \in Repos, NEW to \in Names, NEW x \in Token, k.meta[k.head] # None => x = k.meta[k.head]
  PROVE  Landed(k, to, LandedOf(k, x)) \subseteq Keeps(k, {})
<1> DEFINE old == k.head
           landed == LandedOf(k, x)
<1> SUFFICES ASSUME NEW t \in Landed(k, to, landed) PROVE t \in Keeps(k, {})
  OBVIOUS
<1> DEFINE of == {m \in Names : t.ref[m].line = k.ref[old].line}
<1>1. t \in Repos /\ Others(k, t, old) /\ UpstreamUnder(k, t, to) /\ t.ref[to] = landed
  BY DEF Landed
<1>2. /\ landed.line = k.ref[old].line
      /\ \E i \in DOMAIN landed.has : landed.has[i].id = x /\ landed.has[i].work = k.wt
  BY LandedOfIs
<1>3. old \in Names
  BY RepoFields
<1>4. to \in of
  BY <1>1, <1>2
<1>5. k.upstream[old] # None => \E m \in of : t.upstream[m] = k.upstream[old]
  BY <1>1, <1>3 DEF UpstreamUnder
<1> HIDE DEF of, landed
<1>6. k.meta[old] # None =>
        \E m \in of : t.meta[m] = k.meta[old] \/ \E i \in DOMAIN t.ref[m].has : t.ref[m].has[i].id = k.meta[old]
  BY <1>1, <1>2, <1>4
<1>7. HeldBy(t, of, k.wt)
  BY <1>1, <1>2, <1>4 DEF HeldBy
<1>8. OpenWork(k, old) = k.wt
  BY DEF OpenWork
<1>9. Kept(k, t, old)
  BY <1>4, <1>5, <1>6, <1>7, <1>8 DEF Kept, of
<1> QED
  BY <1>1, <1>9, OthersKept

LEMMA LandingLeads ==
  ASSUME NEW k \in Repos, NEW to \in Free(k) \cup {k.head}, NEW x \in Token,
         k.meta[k.head] # None => x = k.meta[k.head]
  PROVE  Leads(Landing(k, to),
               <<Put("ref", to, LandedOf(k, x)), Set("wt", None)>> \o Consumes(k.head, to),
               Keeps(k, {}), Keeps(k, {}))
<1> DEFINE old == k.head
           landed == LandedOf(k, x)
           M == Keeps(k, {})
           From == Landing(k, to)
           Into == Landed(k, to, landed)
<1>1. /\ to \in Names /\ old \in Names /\ None \in Token
      /\ \A m \in Alive(k) : m \in Names /\ (m # old => m # to)
  BY FreeIsNotAlive, AliveIsNamed, RepoFields DEF Token
<1>2. landed \in Lines /\ landed.line = k.ref[old].line
  BY LandedOfIs
<1>3. From \subseteq M /\ Into \subseteq M
  BY <1>1, LandedKeeps DEF Landing
<1> HIDE DEF landed
<1>4. \A t \in From : Write(t, Put("ref", to, landed)) \in Into
  <2> SUFFICES ASSUME NEW t \in From PROVE Write(t, Put("ref", to, landed)) \in Into
    OBVIOUS
  <2> DEFINE u == Write(t, Put("ref", to, landed))
  <2>1. t \in Repos /\ Others(k, t, old) /\ UpstreamUnder(k, t, to)
    BY DEF Landing, Keeps
  <2>2. /\ u \in Repos /\ u.ref = [t.ref EXCEPT ![to] = landed] /\ u.head = t.head /\ u.wt = t.wt
        /\ u.open = t.open /\ u.meta = t.meta /\ u.upstream = t.upstream
    BY <1>1, <1>2, <2>1, WriteRef
  <2>3. t.ref \in [Names -> Lines]
    BY <2>1, RepoFields
  <2> HIDE DEF u
  <2>4. u.ref[to] = landed /\ \A m \in Names : m # to => u.ref[m] = t.ref[m]
    BY <1>1, <2>2, <2>3
  <2>5. Others(k, u, old)
    <3> SUFFICES ASSUME NEW m \in Alive(k), m # old PROVE Stays(k, u, m)
      BY DEF Others
    <3>1. m \in Names /\ m # to /\ Stays(k, t, m)
      BY <1>1, <2>1 DEF Others
    <3>2. u.ref[m] = t.ref[m]
      BY <2>4, <3>1
    <3> QED
      BY <2>2, <3>1, <3>2 DEF Stays
  <2>6. UpstreamUnder(k, u, to)
    <3> SUFFICES ASSUME k.upstream[old] # None
                 PROVE  \E m \in {old, to} : u.ref[m].line = k.ref[old].line /\ u.upstream[m] = k.upstream[old]
      BY DEF UpstreamUnder
    <3>1. PICK m \in {old, to} : t.ref[m].line = k.ref[old].line /\ t.upstream[m] = k.upstream[old]
      BY <2>1 DEF UpstreamUnder
    <3>2. u.ref[m].line = k.ref[old].line
      BY <1>1, <1>2, <2>4, <3>1
    <3> QED
      BY <2>2, <3>1, <3>2
  <2>7. u \in Into
    BY <2>2, <2>4, <2>5, <2>6 DEF Landed
  <2> QED
    BY <2>7 DEF u
<1>5. \A t \in Into : Write(t, Set("wt", None)) \in Into
  <2> SUFFICES ASSUME NEW t \in Into PROVE Write(t, Set("wt", None)) \in Into
    OBVIOUS
  <2> DEFINE u == Write(t, Set("wt", None))
  <2>1. t \in Repos /\ Others(k, t, old) /\ UpstreamUnder(k, t, to) /\ t.ref[to] = landed
    BY DEF Landed
  <2>2. /\ u \in Repos /\ u.ref = t.ref /\ u.open = t.open /\ u.meta = t.meta /\ u.upstream = t.upstream
    BY <1>1, <2>1, WriteWt
  <2> HIDE DEF u
  <2>3. Others(k, u, old) /\ UpstreamUnder(k, u, to)
    BY <2>1, <2>2 DEF Others, Stays, UpstreamUnder
  <2>4. u \in Into
    BY <2>1, <2>2, <2>3 DEF Landed
  <2> QED
    BY <2>4 DEF u
<1>6. ASSUME NEW n \in {old, to}, NEW t \in Into PROVE Write(t, Put("meta", n, None)) \in Into
  <2> DEFINE u == Write(t, Put("meta", n, None))
  <2>1. t \in Repos /\ Others(k, t, old) /\ UpstreamUnder(k, t, to) /\ t.ref[to] = landed
    BY DEF Landed
  <2>2. /\ u \in Repos /\ u.ref = t.ref /\ u.open = t.open /\ u.upstream = t.upstream
        /\ u.meta = [t.meta EXCEPT ![n] = None]
    BY <1>1, <2>1, WriteMeta
  <2>3. t.meta \in [Names -> Token]
    BY <2>1, RepoFields
  <2> HIDE DEF u
  <2>4. Others(k, u, old)
    <3> SUFFICES ASSUME NEW m \in Alive(k), m # old PROVE Stays(k, u, m)
      BY DEF Others
    <3>1. m \in Names /\ m # n /\ Stays(k, t, m)
      BY <1>1, <2>1 DEF Others
    <3>2. u.meta[m] = t.meta[m]
      BY <2>2, <2>3, <3>1
    <3> QED
      BY <2>2, <3>1, <3>2 DEF Stays
  <2>5. UpstreamUnder(k, u, to)
    BY <2>1, <2>2 DEF UpstreamUnder
  <2>6. u \in Into
    BY <2>1, <2>2, <2>4, <2>5 DEF Landed
  <2> QED
    BY <2>6 DEF u
<1>7. /\ Put("ref", to, landed) \in Writes /\ Set("wt", None) \in Writes
      /\ Put("meta", to, None) \in Writes /\ Put("meta", old, None) \in Writes
  BY <1>1, <1>2 DEF Writes, Put, Set
<1> HIDE DEF From, Into, M
<1>8. Leads(From, <<Put("ref", to, landed), Set("wt", None)>>, M, Into)
  BY <1>3, <1>4, <1>5, <1>7, LeadsTwo
<1>9. Leads(Into, Consumes(old, to), M, Into)
  <2>1. CASE old = to
    <3>1. Leads(Into, <<Put("meta", to, None)>>, M, Into)
      BY <1>3, <1>6, <1>7, LeadsOne
    <3> QED
      BY <2>1, <3>1 DEF Consumes
  <2>2. CASE old # to
    <3>1. Leads(Into, <<Put("meta", to, None), Put("meta", old, None)>>, M, Into)
      BY <1>3, <1>6, <1>7, LeadsTwo
    <3> QED
      BY <2>2, <3>1 DEF Consumes
  <2> QED
    BY <2>1, <2>2
<1>10. Leads(From, <<Put("ref", to, landed), Set("wt", None)>> \o Consumes(old, to), M, Into)
  BY <1>8, <1>9, LeadsThen
<1>11. Leads(From, <<Put("ref", to, landed), Set("wt", None)>> \o Consumes(old, to), M, M)
  BY <1>3, <1>10, LeadsOn
<1> QED
  BY <1>11 DEF From, M, landed

(* What stands before the commit, on each of the three ways to it.         *)
LEMMA BeforeLanding ==
  ASSUME NEW k \in Repos, k.head \in Alive(k), NEW to \in Free(k)
  PROVE  /\ Untouched(k) \subseteq Landing(k, k.head)
         /\ OnNew(k, to) \subseteq Landing(k, to)
         /\ AllMoved(k, to) \subseteq Landing(k, to)
<1> DEFINE old == k.head
<1>1. to \in Names /\ old \in Names
  BY FreeIsNotAlive, AliveIsNamed
<1>2. /\ Untouched(k) \subseteq Keeps(k, {}) /\ OnNew(k, to) \subseteq Keeps(k, {})
      /\ AllMoved(k, to) \subseteq Keeps(k, {})
  BY <1>1, UntouchedKeeps, RenamedKeeps
<1>3. ASSUME NEW t \in Untouched(k) PROVE t \in Landing(k, old)
  <2>1. Others(k, t, old) /\ Stays(k, t, old)
    BY <1>3 DEF Untouched, Others
  <2>2. UpstreamUnder(k, t, old)
    BY <2>1 DEF UpstreamUnder, Stays
  <2> QED
    BY <1>2, <1>3, <2>1, <2>2 DEF Landing
<1>4. ASSUME NEW t \in OnNew(k, to) PROVE t \in Landing(k, to)
  <2>1. Others(k, t, old) /\ Stays(k, t, old)
    BY <1>4 DEF OnNew, BothNames, Others
  <2>2. UpstreamUnder(k, t, to)
    BY <2>1 DEF UpstreamUnder, Stays
  <2> QED
    BY <1>2, <1>4, <2>1, <2>2 DEF Landing
<1>5. ASSUME NEW t \in AllMoved(k, to) PROVE t \in Landing(k, to)
  <2>1. Others(k, t, old) /\ t.ref[to] = k.ref[old] /\ (k.upstream[old] # None => t.upstream[to] = k.upstream[old])
    BY <1>5 DEF AllMoved
  <2>2. UpstreamUnder(k, t, to)
    BY <2>1 DEF UpstreamUnder
  <2> QED
    BY <1>2, <1>5, <2>1, <2>2 DEF Landing
<1> QED
  BY <1>3, <1>4, <1>5

LEMMA OpenCleared ==
  ASSUME NEW k \in Repos, k.head \in Names
  PROVE  Leads(Untouched(k), <<Put("open", k.head, None)>>, Keeps(k, {}), Untouched(k))
<1> DEFINE old == k.head
<1>1. None \in Opens
  BY DEF Opens
<1>2. \A t \in Untouched(k) : Write(t, Put("open", old, None)) \in Untouched(k)
  <2> SUFFICES ASSUME NEW t \in Untouched(k) PROVE Write(t, Put("open", old, None)) \in Untouched(k)
    OBVIOUS
  <2> DEFINE u == Write(t, Put("open", old, None))
  <2>1. t \in Repos /\ t.head = old /\ t.wt = k.wt /\ \A n \in Alive(k) : Stays(k, t, n)
    BY DEF Untouched
  <2>2. /\ u \in Repos /\ u.ref = t.ref /\ u.head = t.head /\ u.wt = t.wt
        /\ u.open = [t.open EXCEPT ![old] = None] /\ u.meta = t.meta /\ u.upstream = t.upstream
    BY <1>1, <2>1, WriteOpen
  <2>3. t.open \in [Names -> Opens]
    BY <2>1, RepoFields
  <2> HIDE DEF u
  <2>4. \A n \in Alive(k) : Stays(k, u, n)
    <3> SUFFICES ASSUME NEW n \in Alive(k) PROVE Stays(k, u, n)
      OBVIOUS
    <3>1. n \in Names /\ (n # old => u.open[n] = t.open[n])
      BY <2>2, <2>3, AliveIsNamed
    <3> QED
      BY <2>1, <2>2, <3>1 DEF Stays
  <2>5. u \in Untouched(k)
    BY <2>1, <2>2, <2>4 DEF Untouched
  <2> QED
    BY <2>5 DEF u
<1>3. Put("open", old, None) \in Writes
  BY <1>1 DEF Writes, Put
<1> QED
  BY <1>2, <1>3, UntouchedKeeps, LeadsOne

CloseDraft(l, from, to) ==
  [Draft("close", IF from # to /\ from \in Anonymous THEN from ELSE to,
         [(IF from # to /\ from \in Anonymous THEN [l.w.ref EXCEPT ![from] = Absent] ELSE l.w.ref)
            EXCEPT ![to] = LandedOf(l.w, IdOf(l))], to, None)
     EXCEPT !.turn = [b |-> from, old |-> l.w.meta[from], new |-> None], !.off = from]

LEMMA CloseDraftIs ==
  ASSUME NEW l \in Logs, NEW to \in Names
  PROVE  /\ CloseDraft(l, l.w.head, to) \in Ops
         /\ CloseDraft(l, l.w.head, to).on \in {l.w.head, to}
<1> DEFINE from == l.w.head
           claim == from # to /\ from \in Anonymous
           on == IF claim THEN from ELSE to
           refs == IF claim THEN [l.w.ref EXCEPT ![from] = Absent] ELSE l.w.ref
           ref == [refs EXCEPT ![to] = LandedOf(l.w, IdOf(l))]
           turn == [b |-> from, old |-> l.w.meta[from], new |-> None]
           d == Draft("close", on, ref, to, None)
<1>1. l.w \in Repos /\ from \in Names /\ l.w.ref \in [Names -> Lines] /\ l.w.meta[from] \in Token
  BY LogFields, RepoFields
<1>2. LandedOf(l.w, IdOf(l)) \in Lines /\ Absent \in Lines /\ None \in Token
  <2>1. LandedOf(l.w, IdOf(l)) \in Lines
    BY <1>1, IdOfIs, LandedOfIs
  <2>2. << >> \in Seq(Commits) /\ 0 \in Nat
    OBVIOUS
  <2>3. Absent \in Lines
    BY <2>2 DEF Absent, Lines
  <2> QED
    BY <2>1, <2>3 DEF Token
<1>3. refs \in [Names -> Lines]
  BY <1>1, <1>2
<1> HIDE DEF refs
<1>4. ref \in [Names -> Lines] /\ on \in Names /\ turn \in Turns /\ "close" \in Verbs
  BY <1>1, <1>2, <1>3 DEF Turns, Verbs
<1> HIDE DEF ref, turn
<1>5. d \in Ops /\ d.on = on
  <2> HIDE DEF on
  <2> QED
    BY <1>2, <1>4, DraftType
<1>6. [d EXCEPT !.turn = turn, !.off = from] \in Ops /\ [d EXCEPT !.turn = turn, !.off = from].on = on
  <2> HIDE DEF d
  <2> QED
    BY <1>1, <1>4, <1>5 DEF Ops
<1>7. CloseDraft(l, from, to) = [d EXCEPT !.turn = turn, !.off = from]
  BY DEF CloseDraft, turn, ref, refs
<1> QED
  BY <1>6, <1>7

LEMMA CloseLeads ==
  ASSUME NEW l \in Logs, l.w.head \in Alive(l.w), NEW to \in Free(l.w) \cup {l.w.head}
  PROVE  LET p == ClosePlan(l, l.w.head, to)
         IN /\ p.d \in Ops /\ p.from = l.w.head
            /\ Leads({Push(l, p.d).w}, p.do, Keeps(l.w, {}), Keeps(l.w, {}))
<1> DEFINE k == l.w
           from == k.head
           here == from = to
           claim == ~here /\ from \in Anonymous
           landed == LandedOf(k, IdOf(l))
           d == CloseDraft(l, from, to)
           s == [Push(l, d).w EXCEPT !.open[from] = None]
           axis == CASE here -> << >>
                     [] claim -> RenameSteps(s, from, to)
                     [] OTHER -> <<Put("ref", to, k.ref[from]), Set("head", to)>>
           ends == <<Put("ref", to, landed), Set("wt", None)>> \o Consumes(from, to)
           refused == claim /\ Collides(s, from, to)
           first == IF here THEN << >> ELSE <<Put("open", from, None)>>
           do == (first \o axis) \o (IF refused THEN << >> ELSE ends)
           M == Keeps(k, {})
<1>1. /\ ClosePlan(l, from, to).d = d /\ ClosePlan(l, from, to).from = from
      /\ ClosePlan(l, from, to).do = do
  BY DEF ClosePlan, Plan, CloseDraft, LandedOf, IdOf
<1>2. /\ k \in Repos /\ from \in Names /\ to \in Names /\ (to # from => to \in Free(k))
      /\ k.ref[from] \in Lines
  BY LogFields, RepoFields, FreeIsNotAlive
<1>3. d \in Ops /\ d.on \in {from, to}
  BY <1>2, CloseDraftIs
<1> HIDE DEF d
<1>4. Push(l, d).w \in Untouched(k)
  BY <1>2, <1>3, PushUntouched
<1>5. /\ s \in Repos /\ s.ref = k.ref /\ s.head = from /\ s.upstream = k.upstream
      /\ k.meta[from] # None => s.meta[from] = k.meta[from]
  <2> DEFINE q == Push(l, d).w
  <2>1. /\ q \in Repos /\ q.head = k.head /\ q.ref = k.ref /\ q.upstream = k.upstream
        /\ \A n \in Names : k.meta[n] # None => q.meta[n] = k.meta[n]
    BY <1>3, PushIs
  <2> HIDE DEF q
  <2>2. None \in Opens
    BY DEF Opens
  <2>3. [q EXCEPT !.open[from] = None] \in Repos
    BY <1>2, <2>1, <2>2 DEF Repos
  <2>4. s = [q EXCEPT !.open[from] = None]
    BY DEF q
  <2> QED
    BY <1>2, <2>1, <2>3, <2>4 DEF Repos
<1> HIDE DEF s, landed
<1>6. Leads(Landing(k, to), ends, M, M)
  BY <1>2, IdOfIs, LandingLeads DEF landed
<1>7. Leads(M, << >>, M, M)
  BY LeadsNone
<1> HIDE DEF M, ends
<1>8. CASE here
  <2>1. Leads(Untouched(k), first \o axis, M, Landing(k, to))
    <3>1. first = << >> /\ axis = << >>
      BY <1>8
    <3>2. Untouched(k) \subseteq Landing(k, to) /\ Untouched(k) \subseteq M
      <4>1. Untouched(k) \subseteq M
        BY <1>2, UntouchedKeeps DEF M
      <4>2. ASSUME NEW t \in Untouched(k) PROVE t \in Landing(k, from)
        <5>1. Others(k, t, from) /\ Stays(k, t, from)
          BY DEF Untouched, Others
        <5>2. UpstreamUnder(k, t, from)
          BY <5>1 DEF UpstreamUnder, Stays
        <5> QED
          BY <4>1, <5>1, <5>2 DEF Landing, M
      <4> QED
        BY <1>8, <4>1, <4>2
    <3>3. Leads(Untouched(k), << >>, M, Untouched(k)) /\ Leads(Untouched(k), << >>, M, Landing(k, to))
      BY <3>2, LeadsNone
    <3> QED
      BY <3>1, <3>3, LeadsThen
  <2>2. do = (first \o axis) \o ends
    BY <1>8
  <2> HIDE DEF first, axis, do
  <2>3. Leads(Untouched(k), do, M, M)
    BY <1>6, <2>1, <2>2, LeadsThen
  <2> QED
    BY <1>1, <1>3, <1>4, <2>3, LeadsFrom DEF M
<1>9. CASE ~here
  <2>1. to \in Free(k) /\ first = <<Put("open", from, None)>>
    BY <1>2, <1>9
  <2>2. Leads(Untouched(k), first, M, Untouched(k))
    BY <1>2, <2>1, OpenCleared DEF M
  <2> HIDE DEF first
  <2>3. CASE ~claim
    <3>1. axis = <<Put("ref", to, k.ref[from]), Set("head", to)>>
      BY <1>9, <2>3
    <3>2. Put("ref", to, k.ref[from]) \in Writes /\ Set("head", to) \in Writes
      BY <1>2 DEF Writes, Put, Set
    <3>3. axis = RenameStarts(k, from, to)
      <4>1. RenameStarts(k, from, to) = <<Put("ref", to, k.ref[from])>> \o <<Set("head", to)>>
        BY DEF RenameStarts
      <4> QED
        BY <3>1, <3>2, <4>1, PairIs
    <3>4. Leads(Untouched(k), axis, M, OnNew(k, to))
      BY <1>2, <2>1, <3>3, RenameStartsLead DEF M
    <3>5. OnNew(k, to) \subseteq Landing(k, to)
      BY <1>2, <2>1, BeforeLanding
    <3>6. do = (first \o axis) \o ends
      BY <2>3
    <3> HIDE DEF axis, do
    <3>7. Leads(Untouched(k), first \o axis, M, Landing(k, to))
      BY <2>2, <3>4, <3>5, LeadsThen, LeadsOn
    <3>8. Leads(Untouched(k), do, M, M)
      BY <1>6, <3>6, <3>7, LeadsThen
    <3> QED
      BY <1>1, <1>3, <1>4, <3>8, LeadsFrom DEF M
  <2>4. CASE claim
    <3>1. axis = RenameSteps(s, from, to)
      BY <1>9, <2>4
    <3>2. /\ Leads(Untouched(k), axis, M, M)
          /\ ~Collides(s, from, to) => Leads(Untouched(k), axis, M, AllMoved(k, to))
      BY <1>2, <1>5, <2>1, <3>1, RenameLeads DEF M
    <3>3. AllMoved(k, to) \subseteq Landing(k, to)
      BY <1>2, <2>1, BeforeLanding
    <3>4. do = (first \o axis) \o (IF Collides(s, from, to) THEN << >> ELSE ends)
      BY <2>4
    <3> HIDE DEF axis, do
    <3>5. CASE Collides(s, from, to)
      <4>1. Leads(Untouched(k), first \o axis, M, M)
        BY <2>2, <3>2, LeadsThen
      <4>2. Leads(Untouched(k), do, M, M)
        BY <1>7, <3>4, <3>5, <4>1, LeadsThen
      <4> QED
        BY <1>1, <1>3, <1>4, <4>2, LeadsFrom DEF M
    <3>6. CASE ~Collides(s, from, to)
      <4>1. Leads(Untouched(k), first \o axis, M, Landing(k, to))
        BY <2>2, <3>2, <3>3, <3>6, LeadsThen, LeadsOn
      <4>2. Leads(Untouched(k), do, M, M)
        BY <1>6, <3>4, <3>6, <4>1, LeadsThen
      <4> QED
        BY <1>1, <1>3, <1>4, <4>2, LeadsFrom DEF M
    <3> QED
      BY <3>5, <3>6
  <2> QED
    BY <2>3, <2>4
<1> QED
  BY <1>8, <1>9

LEMMA RenamePlanLeads ==
  ASSUME NEW l \in Logs, l.w.head \in Alive(l.w), NEW new \in Free(l.w)
  PROVE  LET p == RenamePlan(l, l.w.head, new)
         IN /\ p.d \in Ops /\ p.from = l.w.head
            /\ Leads({Push(l, p.d).w}, p.do, Keeps(l.w, {}), Keeps(l.w, {}))
<1> DEFINE k == l.w
           old == k.head
           ref == [k.ref EXCEPT ![new] = k.ref[old], ![old] = Absent]
           d0 == Draft("rename", old, ref, new, k.wt)
           d == [d0 EXCEPT !.off = old]
           s == Push(l, d).w
<1>1. /\ RenamePlan(l, old, new).d = d /\ RenamePlan(l, old, new).from = old
      /\ RenamePlan(l, old, new).do = RenameSteps(s, old, new)
  BY DEF RenamePlan, Plan
<1>2. /\ k \in Repos /\ old \in Names /\ new \in Names /\ k.ref \in [Names -> Lines] /\ k.wt \in Token
      /\ Absent \in Lines /\ "rename" \in Verbs
  <2>1. k \in Repos /\ new \in Names
    BY LogFields, FreeIsNotAlive
  <2> QED
    BY <2>1, RepoFields DEF Absent, Lines, Verbs
<1>3. ref \in [Names -> Lines]
  BY <1>2
<1> HIDE DEF ref
<1>4. d0 \in Ops /\ d0.on = old
  BY <1>2, <1>3, DraftType
<1> HIDE DEF d0
<1>5. d \in Ops /\ d.on = old
  BY <1>2, <1>4 DEF Ops
<1> HIDE DEF d
<1>6. s \in Untouched(k)
  BY <1>2, <1>5, PushUntouched
<1>7. s \in Repos /\ s.ref = k.ref /\ s.head = old /\ s.upstream = k.upstream
      /\ (k.meta[old] # None => s.meta[old] = k.meta[old])
  BY <1>2, <1>5, PushIs
<1> HIDE DEF s
<1>8. Leads(Untouched(k), RenameSteps(s, old, new), Keeps(k, {}), Keeps(k, {}))
  BY <1>2, <1>7, RenameLeads
<1>9. Leads({s}, RenameSteps(s, old, new), Keeps(k, {}), Keeps(k, {}))
  BY <1>6, <1>8, LeadsFrom
<1> QED
  BY <1>1, <1>5, <1>9 DEF s

-----------------------------------------------------------------------------
(***************************************************************************)
(* A delete: nothing but the branch it names.                              *)
(***************************************************************************)

AllBut(k, n) ==
  {t \in Repos : (\A m \in Alive(k) \ {n} : Stays(k, t, m)) /\ t.head = k.head /\ t.wt = k.wt}

LEMMA AllButKeeps ==
  ASSUME NEW k \in Repos, NEW n
  PROVE  AllBut(k, n) \subseteq Keeps(k, {n})
<1> SUFFICES ASSUME NEW t \in AllBut(k, n), NEW m \in Alive(k) \ {n} PROVE Kept(k, t, m)
  BY DEF Keeps, AllBut
<1>1. m \in Names
  BY AliveIsNamed
<1> QED
  BY <1>1, StaysKept DEF AllBut

(* A write under the name of the branch, in whatever is kept under it.     *)
LEMMA WriteUnder ==
  ASSUME NEW k \in Repos, NEW n \in Names, NEW t \in AllBut(k, n), NEW u \in Repos,
         u.head = t.head, u.wt = t.wt, u.upstream = t.upstream,
         \A m \in Names : m # n => u.ref[m] = t.ref[m] /\ u.open[m] = t.open[m] /\ u.meta[m] = t.meta[m]
  PROVE  u \in AllBut(k, n)
<1>1. t.head = k.head /\ t.wt = k.wt /\ \A m \in Alive(k) \ {n} : Stays(k, t, m)
  BY DEF AllBut
<1>2. \A m \in Alive(k) \ {n} : Stays(k, u, m)
  <2> SUFFICES ASSUME NEW m \in Alive(k), m # n PROVE Stays(k, u, m)
    OBVIOUS
  <2>1. m \in Names
    BY AliveIsNamed
  <2> QED
    BY <1>1, <2>1 DEF Stays
<1> QED
  BY <1>1, <1>2 DEF AllBut

LEMMA DeleteLeads ==
  ASSUME NEW l \in Logs, NEW n \in Names, n # l.w.head
  PROVE  LET p == DeletePlan(l, n)
         IN /\ p.d \in Ops /\ p.from = n
            /\ Leads({Push(l, p.d).w}, p.do, Keeps(l.w, {n}), Keeps(l.w, {n}))
<1> DEFINE k == l.w
           point == k.point[n]
           ref == [k.ref EXCEPT ![n] = Absent]
           d0 == Draft("delete", k.head, ref, k.head, k.wt)
           moved == IF point = None THEN None ELSE [b |-> n, point |-> point]
           d == [d0 EXCEPT !.moved = moved]
           pointed == IF point = None THEN << >> ELSE <<Put("trash", n, point), Put("point", n, None)>>
           cleared == <<Put("open", n, None), Put("ref", n, Absent), Put("meta", n, None)>>
           M == Keeps(k, {n})
           On == AllBut(k, n)
<1>1. /\ DeletePlan(l, n).d = d /\ DeletePlan(l, n).from = n
      /\ DeletePlan(l, n).do = pointed \o cleared
  BY DEF DeletePlan, Plan
<1>2. /\ k \in Repos /\ k.head \in Names /\ k.ref \in [Names -> Lines] /\ k.wt \in Token
      /\ Absent \in Lines /\ "delete" \in Verbs /\ point \in Pointers \cup {None}
      /\ None \in Opens /\ None \in Token /\ None \in Pointers \cup {None}
  <2>1. k \in Repos
    BY LogFields
  <2> QED
    BY <2>1, RepoFields DEF Absent, Lines, Verbs, Opens, Token
<1>3. ref \in [Names -> Lines]
  BY <1>2
<1> HIDE DEF ref
<1>4. d0 \in Ops /\ d0.on = k.head
  BY <1>2, <1>3, DraftType
<1>5. moved \in [b : Names, point : Pointers] \cup {None}
  <2> HIDE DEF point
  <2> QED
    BY <1>2
<1> HIDE DEF d0, moved
<1>6. d \in Ops /\ d.on = k.head
  BY <1>4, <1>5 DEF Ops
<1> HIDE DEF d
<1>7. Push(l, d).w \in On
  <2>1. Push(l, d).w \in Untouched(k)
    BY <1>6, PushUntouched
  <2> QED
    BY <2>1 DEF Untouched, AllBut
<1>8. On \subseteq M
  BY <1>2, AllButKeeps
<1>9. ASSUME NEW t \in On
      PROVE  /\ \A v \in Pointers \cup {None} : /\ Write(t, Put("trash", n, v)) \in On
                                                /\ Write(t, Put("point", n, v)) \in On
             /\ Write(t, Put("open", n, None)) \in On
             /\ Write(t, Put("ref", n, Absent)) \in On
             /\ Write(t, Put("meta", n, None)) \in On
  <2>1. t \in Repos
    BY DEF AllBut
  <2>2. t.ref \in [Names -> Lines] /\ t.open \in [Names -> Opens] /\ t.meta \in [Names -> Token]
    BY <2>1, RepoFields
  <2>3. ASSUME NEW v \in Pointers \cup {None}
        PROVE  Write(t, Put("trash", n, v)) \in On /\ Write(t, Put("point", n, v)) \in On
    <3> HIDE DEF k
    <3> DEFINE u == Write(t, Put("trash", n, v))
               x == Write(t, Put("point", n, v))
    <3>1. /\ u \in Repos /\ u.head = t.head /\ u.wt = t.wt /\ u.upstream = t.upstream
          /\ u.ref = t.ref /\ u.open = t.open /\ u.meta = t.meta
      BY <2>1, WriteTrash
    <3>2. /\ x \in Repos /\ x.head = t.head /\ x.wt = t.wt /\ x.upstream = t.upstream
          /\ x.ref = t.ref /\ x.open = t.open /\ x.meta = t.meta
      BY <2>1, WritePoint
    <3> HIDE DEF u, x
    <3>3. u \in On
      BY <1>2, <3>1, WriteUnder
    <3>4. x \in On
      BY <1>2, <3>2, WriteUnder
    <3> QED
      BY <3>3, <3>4 DEF u, x
  <2>4. Write(t, Put("open", n, None)) \in On
    <3> DEFINE u == Write(t, Put("open", n, None))
    <3>1. /\ u \in Repos /\ u.head = t.head /\ u.wt = t.wt /\ u.upstream = t.upstream
          /\ u.ref = t.ref /\ u.meta = t.meta /\ u.open = [t.open EXCEPT ![n] = None]
      BY <1>2, <2>1, WriteOpen
    <3> HIDE DEF u
    <3>2. \A m \in Names : m # n => u.open[m] = t.open[m]
      BY <2>2, <3>1
    <3> QED
      BY <1>2, <3>1, <3>2, WriteUnder DEF u
  <2>5. Write(t, Put("ref", n, Absent)) \in On
    <3> DEFINE u == Write(t, Put("ref", n, Absent))
    <3>1. /\ u \in Repos /\ u.head = t.head /\ u.wt = t.wt /\ u.upstream = t.upstream
          /\ u.open = t.open /\ u.meta = t.meta /\ u.ref = [t.ref EXCEPT ![n] = Absent]
      BY <1>2, <2>1, WriteRef
    <3> HIDE DEF u
    <3>2. \A m \in Names : m # n => u.ref[m] = t.ref[m]
      BY <2>2, <3>1
    <3> QED
      BY <1>2, <3>1, <3>2, WriteUnder DEF u
  <2>6. Write(t, Put("meta", n, None)) \in On
    <3> DEFINE u == Write(t, Put("meta", n, None))
    <3>1. /\ u \in Repos /\ u.head = t.head /\ u.wt = t.wt /\ u.upstream = t.upstream
          /\ u.open = t.open /\ u.ref = t.ref /\ u.meta = [t.meta EXCEPT ![n] = None]
      BY <1>2, <2>1, WriteMeta
    <3> HIDE DEF u
    <3>2. \A m \in Names : m # n => u.meta[m] = t.meta[m]
      BY <2>2, <3>1
    <3> QED
      BY <1>2, <3>1, <3>2, WriteUnder DEF u
  <2> QED
    BY <2>3, <2>4, <2>5, <2>6
<1>10. /\ Put("trash", n, point) \in Writes /\ Put("point", n, None) \in Writes
       /\ Put("open", n, None) \in Writes /\ Put("ref", n, Absent) \in Writes /\ Put("meta", n, None) \in Writes
  BY <1>2 DEF Writes, Put
<1> HIDE DEF On, M, point
<1>11. Leads(On, pointed, M, On)
  <2>1. Leads(On, <<Put("trash", n, point), Put("point", n, None)>>, M, On)
    BY <1>2, <1>8, <1>9, <1>10, LeadsTwo
  <2> QED
    BY <1>8, <2>1, LeadsNone
<1>12. Leads(On, cleared, M, On)
  <2> DEFINE a == <<Put("open", n, None)>>
             b == <<Put("ref", n, Absent), Put("meta", n, None)>>
  <2>1. Leads(On, a, M, On)
    BY <1>8, <1>9, <1>10, LeadsOne
  <2>2. Leads(On, b, M, On)
    BY <1>8, <1>9, <1>10, LeadsTwo
  <2>3. cleared = a \o b
    <3> DEFINE c == a \o b
               e == cleared
    <3>1. /\ c \in Seq(Writes) /\ Len(c) = 3 /\ c[1] = Put("open", n, None) /\ c[2] = Put("ref", n, Absent)
          /\ c[3] = Put("meta", n, None)
          /\ e \in Seq(Writes) /\ Len(e) = 3 /\ e[1] = Put("open", n, None) /\ e[2] = Put("ref", n, Absent)
          /\ e[3] = Put("meta", n, None)
      BY <1>10
    <3> HIDE DEF c, e
    <3>2. \A i \in 1 .. 3 : c[i] = e[i]
      BY <3>1
    <3>3. c = e
      BY <3>1, <3>2, SeqEqual
    <3> QED
      BY <3>3 DEF c, e
  <2> HIDE DEF a, b, cleared
  <2>4. Leads(On, a \o b, M, On)
    BY <2>1, <2>2, LeadsThen
  <2> QED
    BY <2>3, <2>4
<1> HIDE DEF pointed, cleared
<1>13. Leads(On, pointed \o cleared, M, On)
  BY <1>11, <1>12, LeadsThen
<1>14. Leads({Push(l, d).w}, pointed \o cleared, M, M)
  BY <1>7, <1>8, <1>13, LeadsOn, LeadsFrom DEF On, M
<1> QED
  BY <1>1, <1>6, <1>14 DEF M

-----------------------------------------------------------------------------
(***************************************************************************)
(* A switch: what is open stays on the branch it leaves, and is in the tree*)
(* on the one it arrives at.                                               *)
(***************************************************************************)

(* The branch is where it was, and its open change is parked or underfoot. *)
LEMMA SameKept ==
  ASSUME NEW k \in Repos, NEW t \in Repos, NEW n \in Names,
         t.ref[n] = k.ref[n],
         k.meta[n] # None => t.meta[n] = k.meta[n],
         k.upstream[n] # None => t.upstream[n] = k.upstream[n],
         OpenWork(k, n) # None =>
           (t.head = n /\ t.wt = OpenWork(k, n)) \/ (t.open[n] # None /\ t.open[n].work = OpenWork(k, n))
  PROVE  Kept(k, t, n)
<1> DEFINE of == {m \in Names : t.ref[m].line = k.ref[n].line}
<1>1. n \in of
  OBVIOUS
<1>2. of # {}
  BY <1>1
<1> HIDE DEF of
<1>3. OpenWork(k, n) # None => HeldBy(t, of, OpenWork(k, n))
  BY <1>1 DEF HeldBy
<1> QED
  BY <1>1, <1>2, <1>3 DEF Kept, of

Left(k, to) ==
  {t \in Repos : \A n \in Alive(k) : /\ t.ref[n] = k.ref[n]
                                     /\ k.meta[n] # None => t.meta[n] = k.meta[n]
                                     /\ k.upstream[n] # None => t.upstream[n] = k.upstream[n]
                                     /\ n # to => t.open[n] = k.open[n]}

Arrived(k, to, work) == {t \in Left(k, to) : t.head = to /\ t.wt = work}

LEMMA ArrivedKeeps ==
  ASSUME NEW k \in Repos, NEW to \in Names, ParkStands(k), NEW work,
         to \in Alive(k) => to # k.head /\ work = OpenWork(k, to)
  PROVE  Arrived(k, to, work) \subseteq Keeps(k, {})
<1> SUFFICES ASSUME NEW t \in Arrived(k, to, work), NEW n \in Alive(k) PROVE Kept(k, t, n)
  BY DEF Keeps, Arrived, Left
<1>1. n \in Names /\ t \in Repos
  BY AliveIsNamed DEF Arrived, Left
<1>2. /\ t.ref[n] = k.ref[n]
      /\ k.meta[n] # None => t.meta[n] = k.meta[n]
      /\ k.upstream[n] # None => t.upstream[n] = k.upstream[n]
      /\ n # to => t.open[n] = k.open[n]
      /\ t.head = to /\ t.wt = work
  BY DEF Arrived, Left
<1>3. CASE n = to
  BY <1>1, <1>2, <1>3, SameKept
<1>4. CASE n = k.head
  <2>1. k.wt # None => k.open[n] # None /\ k.open[n].work = k.wt
    BY <1>4 DEF ParkStands
  <2>2. n # to
    BY <1>4
  <2>3. OpenWork(k, n) = k.wt /\ t.open[n] = k.open[n]
    BY <1>2, <1>4, <2>2 DEF OpenWork
  <2> QED
    BY <1>1, <1>2, <2>1, <2>3, SameKept
<1>5. CASE n # to /\ n # k.head
  <2>1. OpenWork(k, n) = (IF k.open[n] = None THEN None ELSE k.open[n].work) /\ t.open[n] = k.open[n]
    BY <1>2, <1>5 DEF OpenWork
  <2> QED
    BY <1>1, <1>2, <2>1, SameKept
<1> QED
  BY <1>3, <1>4, <1>5

LEMMA PushLeft ==
  ASSUME NEW l \in Logs, NEW d \in Ops
  PROVE  Push(l, d).w \in Left(l.w, d.on)
<1> DEFINE k == l.w
           s == Push(l, d).w
<1>1. /\ s \in Repos /\ s.ref = k.ref /\ s.upstream = k.upstream
      /\ \A n \in Names : /\ n # d.on => s.open[n] = k.open[n]
                          /\ k.meta[n] # None => s.meta[n] = k.meta[n]
  BY PushIs
<1> HIDE DEF s, k
<1>2. \A n \in Alive(k) : n \in Names
  BY AliveIsNamed
<1>3. s \in Left(k, d.on)
  BY <1>1, <1>2 DEF Left
<1> QED
  BY <1>3 DEF s, k

(* HEAD and the tree move; the rest is left.                               *)
LEMMA MoveLeads ==
  ASSUME NEW k \in Repos, NEW to \in Names, NEW work \in Token
  PROVE  /\ Leads(Left(k, to), <<Set("head", to), Set("wt", None)>>, Repos, Arrived(k, to, None))
         /\ Leads(Arrived(k, to, None), <<Set("wt", work)>>, Repos, Arrived(k, to, work))
<1> DEFINE On == {t \in Left(k, to) : t.head = to}
<1>1. Left(k, to) \subseteq Repos /\ Arrived(k, to, work) \subseteq Repos /\ On \subseteq Repos
      /\ Arrived(k, to, None) \subseteq Repos
  BY DEF Left, Arrived
<1>2. None \in Token
  BY DEF Token
<1>3. ASSUME NEW t \in Left(k, to), NEW u \in Repos, u.ref = t.ref, u.open = t.open, u.meta = t.meta, u.upstream = t.upstream
      PROVE  u \in Left(k, to)
  BY <1>3 DEF Left
<1>4. ASSUME NEW t \in Left(k, to) PROVE Write(t, Set("head", to)) \in On
  <2>1. t \in Repos
    BY <1>1
  <2> DEFINE u == Write(t, Set("head", to))
  <2>2. /\ u \in Repos /\ u.head = to /\ u.ref = t.ref /\ u.open = t.open /\ u.meta = t.meta /\ u.upstream = t.upstream
    BY <2>1, WriteHead
  <2> HIDE DEF u
  <2>3. u \in Left(k, to)
    BY <1>3, <2>2
  <2> QED
    BY <2>2, <2>3 DEF u
<1>5. ASSUME NEW v \in Token, NEW t \in On PROVE Write(t, Set("wt", v)) \in Arrived(k, to, v)
  <2>1. t \in Repos /\ t \in Left(k, to) /\ t.head = to
    BY <1>1
  <2> DEFINE u == Write(t, Set("wt", v))
  <2>2. /\ u \in Repos /\ u.wt = v /\ u.head = t.head
        /\ u.ref = t.ref /\ u.open = t.open /\ u.meta = t.meta /\ u.upstream = t.upstream
    BY <2>1, WriteWt
  <2> HIDE DEF u
  <2>3. u \in Left(k, to)
    BY <1>3, <2>1, <2>2
  <2>4. u \in Arrived(k, to, v)
    BY <2>1, <2>2, <2>3 DEF Arrived
  <2> QED
    BY <2>4 DEF u
<1>6. /\ Set("head", to) \in Writes /\ Set("wt", None) \in Writes /\ Set("wt", work) \in Writes
  BY <1>2 DEF Writes, Set
<1>7. Arrived(k, to, None) \subseteq On
  BY DEF Arrived
<1>8. \A t \in On : Write(t, Set("wt", None)) \in Arrived(k, to, None)
  BY <1>2, <1>5
<1>9. \A t \in Arrived(k, to, None) : Write(t, Set("wt", work)) \in Arrived(k, to, work)
  BY <1>5, <1>7
<1> HIDE DEF On
<1>10. Leads(Left(k, to), <<Set("head", to), Set("wt", None)>>, Repos, Arrived(k, to, None))
  BY <1>1, <1>4, <1>6, <1>8, LeadsTwo
<1>11. Leads(Arrived(k, to, None), <<Set("wt", work)>>, Repos, Arrived(k, to, work))
  BY <1>1, <1>6, <1>9, LeadsOne
<1> QED
  BY <1>10, <1>11

LEMMA SwitchLeads ==
  ASSUME NEW l \in Logs, NEW to \in Names, to # l.w.head, ParkStands(l.w)
  PROVE  LET p == SwitchPlan(l, to)
         IN p.d \in Ops /\ Leads({Push(l, p.d).w}, p.do, Repos, Keeps(l.w, {}))
<1> DEFINE k == l.w
           work == IF k.open[to] = None THEN None ELSE k.open[to].work
           d0 == Draft("switch", to, k.ref, to, work)
           d == [d0 EXCEPT !.off = k.head]
           do == <<Set("head", to), Set("wt", None), Set("wt", work)>>
           s == Push(l, d).w
<1>1. SwitchPlan(l, to).d = d /\ SwitchPlan(l, to).do = do
  BY DEF SwitchPlan, Plan
<1>2. k \in Repos /\ k.head \in Names /\ k.ref \in [Names -> Lines] /\ k.open[to] \in Opens /\ "switch" \in Verbs
  <2>1. k \in Repos
    BY LogFields
  <2> QED
    BY <2>1, RepoFields DEF Verbs
<1>3. work \in Token /\ None \in Token
  BY <1>2 DEF Opens, Token
<1>4. work = OpenWork(k, to)
  BY DEF OpenWork
<1> HIDE DEF work
<1>5. d0 \in Ops /\ d0.on = to
  BY <1>2, <1>3, DraftType
<1> HIDE DEF d0
<1>6. d \in Ops /\ d.on = to
  BY <1>2, <1>5 DEF Ops
<1> HIDE DEF d
<1>7. s \in Left(k, to)
  BY <1>6, PushLeft
<1> HIDE DEF s
<1>8. do = <<Set("head", to), Set("wt", None)>> \o <<Set("wt", work)>>
  <2> DEFINE c == <<Set("head", to), Set("wt", None)>> \o <<Set("wt", work)>>
             e == do
  <2>1. Set("head", to) \in Writes /\ Set("wt", None) \in Writes /\ Set("wt", work) \in Writes
    BY <1>3 DEF Writes, Set
  <2>2. /\ c \in Seq(Writes) /\ Len(c) = 3 /\ c[1] = Set("head", to) /\ c[2] = Set("wt", None)
        /\ c[3] = Set("wt", work)
        /\ e \in Seq(Writes) /\ Len(e) = 3 /\ e[1] = Set("head", to) /\ e[2] = Set("wt", None)
        /\ e[3] = Set("wt", work)
    BY <2>1
  <2> HIDE DEF c, e
  <2>3. \A i \in 1 .. 3 : c[i] = e[i]
    BY <2>2
  <2>4. c = e
    BY <2>2, <2>3, SeqEqual
  <2> QED
    BY <2>4 DEF c, e
<1>9. Leads(Left(k, to), do, Repos, Arrived(k, to, work))
  BY <1>2, <1>3, <1>8, MoveLeads, LeadsThen
<1>10. Arrived(k, to, work) \subseteq Keeps(k, {})
  BY <1>2, <1>4, ArrivedKeeps
<1> HIDE DEF do
<1>11. Leads({s}, do, Repos, Keeps(k, {}))
  BY <1>7, <1>9, <1>10, LeadsOn, LeadsFrom
<1> QED
  BY <1>1, <1>6, <1>11 DEF s

-----------------------------------------------------------------------------
(***************************************************************************)
(* A branch made under a name that was free.                               *)
(***************************************************************************)

(* What an open change under a free name says is dropped first.            *)
LEMMA UnstaleIs ==
  ASSUME NEW l \in Logs, NEW n \in Names
  PROVE  LET m == [l EXCEPT !.w = Unstale(@, n)]
         IN /\ m \in Logs /\ Minted(m) \in Logs /\ Minted(m).w = m.w
            /\ m.w.ref = l.w.ref /\ m.w.head = l.w.head /\ Free(m.w) = Free(l.w)
            /\ Keeps(m.w, {}) \subseteq Keeps(l.w, {})
<1> DEFINE s == Unstale(l.w, n)
           m == [l EXCEPT !.w = s]
<1>1. l.w \in Repos /\ l.w.open \in [Names -> Opens] /\ None \in Opens
  <2>1. l.w \in Repos
    BY LogFields
  <2> QED
    BY <2>1, RepoFields DEF Opens
<1>2. [l.w EXCEPT !.open[n] = None] \in Repos
  BY <1>1 DEF Repos
<1>3. /\ s \in Repos /\ s.ref = l.w.ref /\ s.head = l.w.head /\ s.wt = l.w.wt
      /\ s.meta = l.w.meta /\ s.upstream = l.w.upstream
      /\ \A i \in Alive(l.w) : s.open[i] = l.w.open[i]
  <2>1. CASE l.w.ref[n] = Absent
    <3>1. s = [l.w EXCEPT !.open[n] = None]
      BY <2>1 DEF Unstale
    <3>2. \A i \in Alive(l.w) : i \in Names /\ i # n
      BY <2>1 DEF Alive, Free
    <3> HIDE DEF s
    <3> QED
      BY <1>1, <1>2, <3>1, <3>2 DEF Repos
  <2>2. CASE l.w.ref[n] # Absent
    BY <1>1, <2>2 DEF Unstale
  <2> QED
    BY <2>1, <2>2
<1> HIDE DEF s
<1>4. m \in Logs /\ m.w = s /\ Minted(m) \in Logs /\ Minted(m).w = s
  <2>1. m \in Logs /\ m.w = s
    BY <1>3 DEF Logs
  <2> HIDE DEF m
  <2>2. Minted(m) \in Logs /\ Minted(m).w = m.w
    BY <2>1 DEF Logs, Minted
  <2> QED
    BY <2>1, <2>2
<1>5. Free(s) = Free(l.w) /\ Alive(s) = Alive(l.w)
  BY <1>3 DEF Free, Alive
<1>6. ASSUME NEW t \in Keeps(s, {}) PROVE t \in Keeps(l.w, {})
  <2>1. ASSUME NEW i \in Alive(l.w) PROVE Kept(l.w, t, i)
    <3>1. Kept(s, t, i)
      BY <1>5 DEF Keeps
    <3>2. OpenWork(s, i) = OpenWork(l.w, i)
      BY <1>3 DEF OpenWork
    <3> QED
      BY <1>3, <3>1, <3>2 DEF Kept
  <2> QED
    BY <2>1 DEF Keeps
<1> QED
  BY <1>3, <1>4, <1>5, <1>6 DEF s

(* A write under a free name is no branch's.                               *)
LEMMA FreeWrites ==
  ASSUME NEW k \in Repos, NEW n \in Free(k), NEW t \in Repos,
         NEW u \in Repos, u.head = t.head, u.wt = t.wt, u.open = t.open, u.upstream = t.upstream,
         \A m \in Names : m # n => u.ref[m] = t.ref[m] /\ u.meta[m] = t.meta[m]
  PROVE  /\ t \in Untouched(k) => u \in Untouched(k)
         /\ t \in Left(k, n) => u \in Left(k, n)
<1>1. \A m \in Alive(k) : u.ref[m] = t.ref[m] /\ u.meta[m] = t.meta[m]
  BY FreeIsNotAlive, AliveIsNamed
<1> QED
  BY <1>1 DEF Untouched, Left, Stays

LEMMA BranchMade ==
  ASSUME NEW k \in Repos, NEW n \in Free(k), NEW branch \in Lines, NEW id \in Token
  PROVE  LET do == <<Put("ref", n, branch), Put("meta", n, id)>>
         IN Leads(Untouched(k), do, Repos, Untouched(k)) /\ Leads(Left(k, n), do, Repos, Left(k, n))
<1>1. n \in Names
  BY FreeIsNotAlive
<1>2. ASSUME NEW t \in Repos
      PROVE  /\ t \in Untouched(k) => Write(t, Put("ref", n, branch)) \in Untouched(k)
             /\ t \in Left(k, n) => Write(t, Put("ref", n, branch)) \in Left(k, n)
  <2> DEFINE u == Write(t, Put("ref", n, branch))
  <2>1. /\ u \in Repos /\ u.head = t.head /\ u.wt = t.wt /\ u.open = t.open /\ u.upstream = t.upstream
        /\ u.meta = t.meta /\ u.ref = [t.ref EXCEPT ![n] = branch]
    BY <1>1, WriteRef
  <2>2. t.ref \in [Names -> Lines]
    BY RepoFields
  <2> HIDE DEF u
  <2>3. \A m \in Names : m # n => u.ref[m] = t.ref[m]
    BY <2>1, <2>2
  <2>4. /\ t \in Untouched(k) => u \in Untouched(k)
        /\ t \in Left(k, n) => u \in Left(k, n)
    BY <2>1, <2>3, FreeWrites
  <2> QED
    BY <2>4 DEF u
<1>3. ASSUME NEW t \in Repos
      PROVE  /\ t \in Untouched(k) => Write(t, Put("meta", n, id)) \in Untouched(k)
             /\ t \in Left(k, n) => Write(t, Put("meta", n, id)) \in Left(k, n)
  <2> DEFINE u == Write(t, Put("meta", n, id))
  <2>1. /\ u \in Repos /\ u.head = t.head /\ u.wt = t.wt /\ u.open = t.open /\ u.upstream = t.upstream
        /\ u.ref = t.ref /\ u.meta = [t.meta EXCEPT ![n] = id]
    BY <1>1, WriteMeta
  <2>2. t.meta \in [Names -> Token]
    BY RepoFields
  <2> HIDE DEF u
  <2>3. \A m \in Names : m # n => u.meta[m] = t.meta[m]
    BY <2>1, <2>2
  <2>4. /\ t \in Untouched(k) => u \in Untouched(k)
        /\ t \in Left(k, n) => u \in Left(k, n)
    BY <2>1, <2>3, FreeWrites
  <2> QED
    BY <2>4 DEF u
<1>4. Untouched(k) \subseteq Repos /\ Left(k, n) \subseteq Repos
  BY DEF Untouched, Left
<1>5. Put("ref", n, branch) \in Writes /\ Put("meta", n, id) \in Writes
  BY <1>1 DEF Writes, Put
<1>6. Leads(Untouched(k), <<Put("ref", n, branch), Put("meta", n, id)>>, Repos, Untouched(k))
  BY <1>2, <1>3, <1>4, <1>5, LeadsTwo
<1>7. Leads(Left(k, n), <<Put("ref", n, branch), Put("meta", n, id)>>, Repos, Left(k, n))
  BY <1>2, <1>3, <1>4, <1>5, LeadsTwo
<1> QED
  BY <1>6, <1>7

LEMMA StartLeads ==
  ASSUME NEW l \in Logs, NEW n \in Free(l.w), NEW m \in Names, ParkStands(l.w)
  PROVE  LET p == StartPlan(l, n, m)
         IN p.d \in Ops /\ Leads({Push(Minted(l), p.d).w}, p.do, Repos, Keeps(l.w, {}))
<1> DEFINE k == l.w
           branch == [line |-> l.fresh, has |-> k.ref[m].has]
           ref == [k.ref EXCEPT ![n] = branch]
           d0 == Draft("start", n, ref, n, None)
           d == [d0 EXCEPT !.off = k.head]
           made == <<Put("ref", n, branch), Put("meta", n, None)>>
           do == <<Put("ref", n, branch), Put("meta", n, None), Set("head", n), Set("wt", None)>>
           s == Push(Minted(l), d).w
<1>1. StartPlan(l, n, m).d = d /\ StartPlan(l, n, m).do = do
  BY DEF StartPlan, Plan
<1>2. /\ k \in Repos /\ k.head \in Names /\ k.ref \in [Names -> Lines] /\ n \in Names /\ n \notin Alive(k)
      /\ l.fresh \in Nat /\ None \in Token /\ "start" \in Verbs
  <2>1. k \in Repos /\ l.fresh \in Nat
    BY LogFields
  <2> QED
    BY <2>1, RepoFields, FreeIsNotAlive DEF Verbs, Token
<1>3. branch \in Lines
  <2>1. k.ref[m] \in Lines
    BY <1>2
  <2> QED
    BY <1>2, <2>1 DEF Lines
<1> HIDE DEF branch
<1>4. ref \in [Names -> Lines]
  BY <1>2, <1>3
<1> HIDE DEF ref
<1>5. d0 \in Ops /\ d0.on = n
  BY <1>2, <1>4, DraftType
<1> HIDE DEF d0
<1>6. d \in Ops /\ d.on = n
  BY <1>2, <1>5 DEF Ops
<1> HIDE DEF d
<1>7. Minted(l) \in Logs /\ Minted(l).w = k
  BY DEF Logs, Minted
<1>8. s \in Left(k, n)
  BY <1>6, <1>7, PushLeft
<1> HIDE DEF s, k
<1>9. Leads(Left(k, n), made, Repos, Left(k, n))
  BY <1>2, <1>3, BranchMade DEF k
<1>10. Leads(Left(k, n), <<Set("head", n), Set("wt", None)>>, Repos, Arrived(k, n, None))
  BY <1>2, MoveLeads
<1>11. do = made \o <<Set("head", n), Set("wt", None)>>
  <2> DEFINE c == made \o <<Set("head", n), Set("wt", None)>>
             e == do
  <2>1. /\ Put("ref", n, branch) \in Writes /\ Put("meta", n, None) \in Writes
        /\ Set("head", n) \in Writes /\ Set("wt", None) \in Writes
    BY <1>2, <1>3 DEF Writes, Put, Set
  <2>2. /\ c \in Seq(Writes) /\ Len(c) = 4 /\ c[1] = Put("ref", n, branch) /\ c[2] = Put("meta", n, None)
        /\ c[3] = Set("head", n) /\ c[4] = Set("wt", None)
        /\ e \in Seq(Writes) /\ Len(e) = 4 /\ e[1] = Put("ref", n, branch) /\ e[2] = Put("meta", n, None)
        /\ e[3] = Set("head", n) /\ e[4] = Set("wt", None)
    BY <2>1
  <2> HIDE DEF c, e
  <2>3. \A i \in 1 .. 4 : c[i] = e[i]
    BY <2>2
  <2>4. c = e
    BY <2>2, <2>3, SeqEqual
  <2> QED
    BY <2>4 DEF c, e
<1> HIDE DEF made, do
<1>12. Leads(Left(k, n), do, Repos, Arrived(k, n, None))
  BY <1>9, <1>10, <1>11, LeadsThen
<1>13. Arrived(k, n, None) \subseteq Keeps(k, {})
  BY <1>2, ArrivedKeeps DEF k
<1>14. Leads({s}, do, Repos, Keeps(k, {}))
  BY <1>8, <1>12, <1>13, LeadsOn, LeadsFrom
<1> QED
  BY <1>1, <1>6, <1>14 DEF s, k

LEMMA CreateLeads ==
  ASSUME NEW l \in Logs, NEW n \in Free(l.w), NEW m \in Names, NEW copies \in BOOLEAN
  PROVE  LET p == CreatePlan(l, n, m, copies)
         IN p.d \in Ops /\ Leads({Push(Minted(l), p.d).w}, p.do, Repos, Keeps(l.w, {}))
<1> DEFINE k == l.w
           branch == [line |-> l.fresh, has |-> k.ref[m].has]
           id == IF copies THEN k.meta[k.head] ELSE None
           on == IF copies THEN n ELSE k.head
           ref == [k.ref EXCEPT ![n] = branch]
           d0 == Draft("create", on, ref, k.head, k.wt)
           turn == IF copies THEN [b |-> n, old |-> None, new |-> id] ELSE None
           d == [d0 EXCEPT !.turn = turn]
           do == <<Put("ref", n, branch), Put("meta", n, id)>>
           s == Push(Minted(l), d).w
<1>1. CreatePlan(l, n, m, copies).d = d /\ CreatePlan(l, n, m, copies).do = do
  BY DEF CreatePlan, Plan
<1>2. /\ k \in Repos /\ k.head \in Names /\ k.ref \in [Names -> Lines] /\ n \in Names
      /\ k.meta[k.head] \in Token /\ k.wt \in Token
      /\ l.fresh \in Nat /\ None \in Token /\ "create" \in Verbs
  <2>1. k \in Repos /\ l.fresh \in Nat
    BY LogFields
  <2> QED
    BY <2>1, RepoFields, FreeIsNotAlive DEF Verbs, Token
<1>3. branch \in Lines
  <2>1. k.ref[m] \in Lines
    BY <1>2
  <2> QED
    BY <1>2, <2>1 DEF Lines
<1> HIDE DEF branch
<1>4. ref \in [Names -> Lines] /\ id \in Token /\ on \in Names
  BY <1>2, <1>3
<1>5. turn \in Turns \cup {None}
  <2> HIDE DEF id
  <2> QED
    BY <1>2, <1>4 DEF Turns
<1> HIDE DEF ref, id, turn
<1>6. d0 \in Ops /\ d0.on = on
  <2> HIDE DEF on
  <2> QED
    BY <1>2, <1>4, DraftType
<1> HIDE DEF d0
<1>7. d \in Ops /\ d.on = on
  <2> HIDE DEF on
  <2> QED
    BY <1>5, <1>6 DEF Ops
<1> HIDE DEF d
<1>8. Minted(l) \in Logs /\ Minted(l).w = k
  BY DEF Logs, Minted
<1>9. s \in Untouched(k)
  BY <1>7, <1>8, PushUntouched
<1> HIDE DEF s
<1>10. Leads(Untouched(k), do, Repos, Untouched(k))
  BY <1>2, <1>3, <1>4, BranchMade
<1> HIDE DEF do
<1>11. Leads({s}, do, Repos, Keeps(k, {}))
  BY <1>2, <1>9, <1>10, UntouchedKeeps, LeadsOn, LeadsFrom
<1> QED
  BY <1>1, <1>7, <1>11 DEF s

-----------------------------------------------------------------------------
(***************************************************************************)
(* The verbs, each with the preamble before it.                            *)
(***************************************************************************)

Killable == {"rename", "close", "delete"}

(* A plan was run, to the end or to where its verb was killed.             *)
Ran(l, verb, p) ==
  /\ last'.verb = verb /\ last'.from = p.from
  /\ \E n \in 0 .. Len(p.do) :
       /\ n < Len(p.do) => verb \in Killable
       /\ w' = Written(Push(l, p.d).w, p.do, n)
       /\ log' = Push(l, p.d).log /\ at' = Push(l, p.d).at /\ fresh' = Push(l, p.d).fresh

LEMMA RunIs ==
  ASSUME NEW l, NEW verb, NEW plans, Run(l, verb, plans)
  PROVE  \E p \in plans : Ran(l, verb, p)
<1>0. PICK p \in plans : \E n \in 0 .. Len(p.do) :
        LET killed == n < Len(p.do)
            done == [Push(l, p.d) EXCEPT !.w = Written(@, p.do, n)]
        IN /\ killed => verb \in Killable
           /\ Take(done)
           /\ last' = [verb |-> verb, from |-> p.from, to |-> p.to,
                       end |-> CASE killed -> "killed" [] ~killed /\ p.refused -> "refused" [] OTHER -> "done"]
  BY DEF Run, Killable
<1>1. PICK n \in 0 .. Len(p.do) :
        LET killed == n < Len(p.do)
            done == [Push(l, p.d) EXCEPT !.w = Written(@, p.do, n)]
        IN /\ killed => verb \in Killable
           /\ Take(done)
           /\ last' = [verb |-> verb, from |-> p.from, to |-> p.to,
                       end |-> CASE killed -> "killed" [] ~killed /\ p.refused -> "refused" [] OTHER -> "done"]
  BY <1>0
<1>2. last'.verb = verb /\ last'.from = p.from
  BY <1>1
<1> DEFINE begun == Push(l, p.d)
           done == [begun EXCEPT !.w = Written(@, p.do, n)]
<1>3. begun = [w |-> begun.w, log |-> begun.log, at |-> begun.at, fresh |-> begun.fresh]
  BY DEF Push
<1> HIDE DEF begun
<1>4. done.w = Written(begun.w, p.do, n) /\ done.log = begun.log /\ done.at = begun.at /\ done.fresh = begun.fresh
  BY <1>3
<1>5. w' = done.w /\ log' = done.log /\ at' = done.at /\ fresh' = done.fresh
  BY <1>1 DEF Take, begun
<1> HIDE DEF done
<1>6. /\ n < Len(p.do) => verb \in Killable
      /\ w' = Written(begun.w, p.do, n) /\ log' = begun.log /\ at' = begun.at /\ fresh' = begun.fresh
  BY <1>1, <1>4, <1>5
<1> QED
  BY <1>2, <1>6 DEF Ran, begun

LEMMA RanLeads ==
  ASSUME NEW l \in Logs, NEW verb, NEW p, p.d \in Ops, Ran(l, verb, p),
         NEW M \in SUBSET Repos, NEW Q, Leads({Push(l, p.d).w}, p.do, M, Q)
  PROVE  /\ NamesTypeOK' /\ w' \in M /\ last'.verb = verb /\ last'.from = p.from
         /\ verb \notin Killable => w' \in Q
<1> DEFINE s == Push(l, p.d)
<1>1. PICK n \in 0 .. Len(p.do) :
        /\ n < Len(p.do) => verb \in Killable
        /\ w' = Written(s.w, p.do, n) /\ log' = s.log /\ at' = s.at /\ fresh' = s.fresh
  BY DEF Ran
<1>2. s \in Logs
  BY PushIs
<1> HIDE DEF s
<1>3. p.do \in Seq(Writes) /\ Written(s.w, p.do, n) \in M /\ Written(s.w, p.do, Len(p.do)) \in Q
  BY DEF Leads, s
<1>4. verb \notin Killable => n = Len(p.do)
  <2>1. Len(p.do) \in Nat
    BY <1>3
  <2> QED
    BY <1>1, <2>1
<1>5. w' \in M /\ (verb \notin Killable => w' \in Q)
  BY <1>1, <1>3, <1>4
<1>6. NamesTypeOK'
  <2>1. L' = [w |-> w', log |-> log', at |-> at', fresh |-> fresh']
    BY DEF L
  <2>2. /\ w' \in Repos /\ log' \in Seq(Ops) /\ at' \in Nat /\ fresh' \in Nat /\ at' \in 1 .. Len(log')
    BY <1>1, <1>2, <1>5, LogFields
  <2>3. L' \in Logs
    BY <2>1, <2>2 DEF Logs
  <2> QED
    BY <2>3 DEF NamesTypeOK
<1>7. last'.verb = verb /\ last'.from = p.from
  BY DEF Ran
<1> QED
  BY <1>5, <1>6, <1>7

(* What NeverNeither asks of a step.                                       *)
StepKeeps ==
  last'.verb \notin Takes =>
    \A n \in Alive(Begun.w) : Kept(Begun.w, w', n) \/ (last'.verb = "delete" /\ last'.from = n)

LEMMA StepKeepsAll ==
  ASSUME w' \in Keeps(Begun.w, {})
  PROVE  StepKeeps
  BY DEF StepKeeps, Keeps

LEMMA BegunOn ==
  ASSUME NamesTypeOK, OnBranch
  PROVE  Begun.w.head \in Alive(Begun.w)
<1>1. Begun \in Logs /\ Begun.w.head = L.w.head /\ Begun.w.ref = L.w.ref
  BY BegunIs DEF Prepared
<1>2. Begun.w.head \in Names
  BY <1>1, LogFields, RepoFields
<1>3. L.w = w
  BY DEF L
<1> QED
  BY <1>1, <1>2, <1>3 DEF OnBranch, Is, Alive, Free

LEMMA KeepsIsSome == ASSUME NEW k, NEW gone PROVE Keeps(k, gone) \in SUBSET Repos
  BY DEF Keeps

LEMMA RenameOK ==
  ASSUME NamesTypeOK, Rename
  PROVE  NamesTypeOK' /\ StepKeeps
<1> DEFINE l == Begun
<1>1. l \in Logs /\ l.w.head \in Alive(l.w)
  BY BegunIs, BegunOn DEF Prepared, Rename
<1>2. PICK p \in RenamePlans(l) : Ran(l, "rename", p)
  BY RunIs DEF Rename, Named
<1> HIDE DEF l
<1>3. p.d \in Ops /\ Leads({Push(l, p.d).w}, p.do, Keeps(l.w, {}), Keeps(l.w, {}))
  BY <1>1, RenamePlanLeads DEF RenamePlans
<1>4. NamesTypeOK' /\ w' \in Keeps(l.w, {})
  BY <1>1, <1>2, <1>3, KeepsIsSome, RanLeads
<1> QED
  BY <1>4, StepKeepsAll DEF l

LEMMA CloseOK ==
  ASSUME NamesTypeOK, Close
  PROVE  NamesTypeOK' /\ StepKeeps
<1> DEFINE l == Begun
<1>1. l \in Logs /\ l.w.head \in Alive(l.w)
  BY BegunIs, BegunOn DEF Prepared, Close
<1>2. PICK p \in ClosePlans(l) : Ran(l, "close", p)
  BY RunIs DEF Close, Named
<1> HIDE DEF l
<1>3. p.d \in Ops /\ Leads({Push(l, p.d).w}, p.do, Keeps(l.w, {}), Keeps(l.w, {}))
  BY <1>1, CloseLeads DEF ClosePlans
<1>4. NamesTypeOK' /\ w' \in Keeps(l.w, {})
  BY <1>1, <1>2, <1>3, KeepsIsSome, RanLeads
<1> QED
  BY <1>4, StepKeepsAll DEF l

LEMMA SwitchOK ==
  ASSUME NamesTypeOK, Switch
  PROVE  NamesTypeOK' /\ StepKeeps
<1> DEFINE l == Begun
<1>1. l \in Logs
  BY BegunIs DEF Prepared
<1>2. PICK p \in SwitchPlans(l) : Ran(l, "switch", p)
  BY RunIs DEF Switch, Named
<1> HIDE DEF l
<1>3. p.d \in Ops /\ Leads({Push(l, p.d).w}, p.do, Repos, Keeps(l.w, {}))
  BY <1>1, SwitchLeads DEF SwitchPlans
<1>4. NamesTypeOK' /\ w' \in Keeps(l.w, {})
  <2>1. Repos \in SUBSET Repos
    OBVIOUS
  <2>2. "switch" \notin Killable
    BY DEF Killable
  <2> QED
    BY <1>1, <1>2, <1>3, <2>1, <2>2, RanLeads
<1> QED
  BY <1>4, StepKeepsAll DEF l

LEMMA DeleteOK ==
  ASSUME NamesTypeOK, Delete
  PROVE  NamesTypeOK' /\ StepKeeps
<1> DEFINE l == Begun
<1>1. l \in Logs
  BY BegunIs DEF Prepared
<1>2. PICK p \in DeletePlans(l) : Ran(l, "delete", p)
  BY RunIs DEF Delete, Named
<1> HIDE DEF l
<1>3. PICK n \in Names : n # l.w.head /\ p = DeletePlan(l, n)
  BY DEF DeletePlans
<1>4. p.d \in Ops /\ p.from = n /\ Leads({Push(l, p.d).w}, p.do, Keeps(l.w, {n}), Keeps(l.w, {n}))
  BY <1>1, <1>3, DeleteLeads
<1>5. NamesTypeOK' /\ w' \in Keeps(l.w, {n}) /\ last'.verb = "delete" /\ last'.from = n
  BY <1>1, <1>2, <1>4, KeepsIsSome, RanLeads
<1>6. \A m \in Alive(l.w) : Kept(l.w, w', m) \/ m = n
  BY <1>5 DEF Keeps
<1> QED
  BY <1>5, <1>6 DEF StepKeeps, l

LEMMA StartOK ==
  ASSUME NamesTypeOK, NEW n \in Names, Start(n)
  PROVE  NamesTypeOK' /\ StepKeeps
<1> DEFINE l == Minting(n)
<1>1. Begun \in Logs
  BY BegunIs DEF Prepared
<1>2. l \in Logs /\ Minted(l) \in Logs /\ Keeps(l.w, {}) \subseteq Keeps(Begun.w, {})
  BY <1>1, UnstaleIs DEF Minting
<1>3. PICK p \in StartPlans(l, n) : Ran(Minted(l), "start", p)
  BY RunIs DEF Start
<1> HIDE DEF l
<1>4. p.d \in Ops /\ Leads({Push(Minted(l), p.d).w}, p.do, Repos, Keeps(l.w, {}))
  <2>1. PICK m \in {First} : n \in Free(l.w) /\ ParkStands(l.w) /\ p = StartPlan(l, n, m)
    BY DEF StartPlans
  <2>2. m \in Names
    BY NamesAssumption
  <2> QED
    BY <1>2, <2>1, <2>2, StartLeads
<1>5. NamesTypeOK' /\ w' \in Keeps(l.w, {})
  <2>1. Repos \in SUBSET Repos
    OBVIOUS
  <2>2. "start" \notin Killable
    BY DEF Killable
  <2> QED
    BY <1>2, <1>3, <1>4, <2>1, <2>2, RanLeads
<1> QED
  BY <1>2, <1>5, StepKeepsAll

LEMMA CreateOK ==
  ASSUME NamesTypeOK, NEW n \in Names, NEW copies \in BOOLEAN, Create(n, copies)
  PROVE  NamesTypeOK' /\ StepKeeps
<1> DEFINE l == Minting(n)
<1>1. Begun \in Logs
  BY BegunIs DEF Prepared
<1>2. l \in Logs /\ Minted(l) \in Logs /\ Keeps(l.w, {}) \subseteq Keeps(Begun.w, {})
  BY <1>1, UnstaleIs DEF Minting
<1>3. PICK p \in CreatePlans(l, n, copies) : Ran(Minted(l), "create", p)
  BY RunIs DEF Create
<1> HIDE DEF l
<1>4. p.d \in Ops /\ Leads({Push(Minted(l), p.d).w}, p.do, Repos, Keeps(l.w, {}))
  <2>1. PICK m \in Names : n \in Free(l.w) /\ p = CreatePlan(l, n, m, copies)
    BY DEF CreatePlans, ForksAt
  <2> QED
    BY <1>2, <2>1, CreateLeads
<1>5. NamesTypeOK' /\ w' \in Keeps(l.w, {})
  <2>1. Repos \in SUBSET Repos
    OBVIOUS
  <2>2. "create" \notin Killable
    BY DEF Killable
  <2> QED
    BY <1>2, <1>3, <1>4, <2>1, <2>2, RanLeads
<1> QED
  BY <1>2, <1>5, StepKeepsAll

LEMMA LogsAre ==
  ASSUME NEW l \in Logs, NEW s \in Repos
  PROVE  [w |-> s, log |-> l.log, at |-> l.at, fresh |-> l.fresh] \in Logs
  BY DEF Logs

LEMMA ShareOK ==
  ASSUME NamesTypeOK, Share
  PROVE  NamesTypeOK' /\ StepKeeps
<1> DEFINE l == Begun
           k == l.w
           h == w.head
           line == w.ref[h].line
           t == [k EXCEPT !.upstream[h] = line]
<1>1. /\ l \in Logs /\ k.head = h /\ k.ref = w.ref /\ k.upstream = w.upstream
  <2>1. L.w = w
    BY DEF L
  <2> QED
    BY <2>1, BegunIs DEF Prepared
<1>2. /\ Take([l EXCEPT !.w.upstream[h] = line]) /\ w.upstream[h] = None
  BY DEF Share
<1> HIDE DEF l
<1>3. l = [w |-> k, log |-> l.log, at |-> l.at, fresh |-> l.fresh] /\ k \in Repos
  BY <1>1 DEF Logs
<1>4. w' = t /\ log' = l.log /\ at' = l.at /\ fresh' = l.fresh
  BY <1>2, <1>3 DEF Take
<1> HIDE DEF k
<1>5. h \in Names /\ k.upstream \in [Names -> Token] /\ k.ref \in [Names -> Lines]
  BY <1>1, <1>3, RepoFields
<1>6. line \in Token
  <2>1. w.ref[h] \in Lines
    BY <1>1, <1>5
  <2> QED
    BY <2>1 DEF Lines, Token
<1> HIDE DEF line, h
<1>7. /\ t \in Repos /\ t.head = k.head /\ t.wt = k.wt /\ t.ref = k.ref /\ t.open = k.open /\ t.meta = k.meta
      /\ t.upstream = [k.upstream EXCEPT ![h] = line]
  BY <1>3, <1>5, <1>6 DEF Repos
<1> HIDE DEF t
<1>8. \A n \in Alive(k) : Stays(k, t, n)
  <2> SUFFICES ASSUME NEW n \in Alive(k) PROVE Stays(k, t, n)
    OBVIOUS
  <2>1. n \in Names
    BY AliveIsNamed
  <2>2. k.upstream[n] # None => t.upstream[n] = k.upstream[n]
    BY <1>1, <1>2, <1>5, <1>7, <2>1
  <2> QED
    BY <1>7, <2>2 DEF Stays
<1>9. t \in Keeps(k, {})
  <2>1. t \in Untouched(k)
    BY <1>7, <1>8 DEF Untouched
  <2> QED
    BY <1>3, <2>1, UntouchedKeeps
<1>10. NamesTypeOK'
  <2>1. L' = [w |-> w', log |-> log', at |-> at', fresh |-> fresh']
    BY DEF L
  <2> QED
    BY <1>1, <1>4, <1>7, <2>1, LogsAre DEF NamesTypeOK
<1> QED
  BY <1>4, <1>9, <1>10, StepKeepsAll DEF k, l

LEMMA StatusOK ==
  ASSUME NamesTypeOK, Status
  PROVE  NamesTypeOK' /\ StepKeeps
<1> DEFINE l == Begun
<1>1. l \in Logs
  BY BegunIs DEF Prepared
<1>2. w' = l.w /\ log' = l.log /\ at' = l.at /\ fresh' = l.fresh
  BY DEF Status, Take
<1> HIDE DEF l
<1>3. l.w \in Repos
  BY <1>1, LogFields
<1>4. l.w \in Untouched(l.w)
  BY <1>3 DEF Untouched, Stays
<1>5. NamesTypeOK'
  <2>1. L' = [w |-> w', log |-> log', at |-> at', fresh |-> fresh']
    BY DEF L
  <2> QED
    BY <1>1, <1>2, <1>3, <2>1, LogsAre DEF NamesTypeOK
<1> QED
  BY <1>2, <1>3, <1>4, <1>5, UntouchedKeeps, StepKeepsAll DEF l

LEMMA TypeOK ==
  ASSUME NamesTypeOK, Type
  PROVE  NamesTypeOK' /\ StepKeeps
<1> DEFINE k == Begun.w
           t == [w EXCEPT !.wt = fresh]
<1>1. /\ w \in Repos /\ fresh \in Nat /\ log \in Seq(Ops) /\ at \in Nat /\ at \in 1 .. Len(log)
  BY DEF NamesTypeOK, L, Logs
<1>2. /\ w.wt = None /\ w' = t /\ fresh' = fresh + 1 /\ log' = log /\ at' = at
  BY DEF Type
<1>3. /\ k \in Repos /\ k.head = w.head /\ k.wt = None /\ k.ref = w.ref /\ k.upstream = w.upstream
      /\ \A n \in Names : (n # w.head => k.open[n] = w.open[n]) /\ k.meta[n] = w.meta[n]
  <2>1. L.w = w
    BY DEF L
  <2>2. Prepared(L, Begun)
    BY BegunIs
  <2>3. k \in Repos
    BY <2>2, LogFields DEF Prepared
  <2> QED
    BY <1>2, <2>1, <2>2, <2>3 DEF Prepared
<1> HIDE DEF k
<1>4. /\ t \in Repos /\ t.head = w.head /\ t.ref = w.ref /\ t.open = w.open /\ t.meta = w.meta
      /\ t.upstream = w.upstream
  <2>1. fresh \in Token
    BY <1>1 DEF Token
  <2> QED
    BY <1>1, <2>1 DEF Repos
<1> HIDE DEF t
<1>5. t \in Keeps(k, {})
  <2> SUFFICES ASSUME NEW n \in Alive(k) PROVE Kept(k, t, n)
    BY <1>4 DEF Keeps
  <2>1. n \in Names
    BY AliveIsNamed
  <2>2. Stays(k, t, n)
    BY <1>3, <1>4, <2>1 DEF Stays
  <2> QED
    BY <1>3, <1>4, <2>1, <2>2, StaysKept
<1>6. NamesTypeOK'
  <2>1. L' = [w |-> w', log |-> log', at |-> at', fresh |-> fresh']
    BY DEF L
  <2>2. fresh' \in Nat
    BY <1>1, <1>2
  <2>3. L' \in Logs
    BY <1>1, <1>2, <1>4, <2>1, <2>2 DEF Logs
  <2> QED
    BY <2>3 DEF NamesTypeOK
<1> QED
  BY <1>2, <1>5, <1>6, StepKeepsAll DEF k

LEMMA GitDeletesOK ==
  ASSUME NamesTypeOK, NEW n \in Names, GitDeletes(n)
  PROVE  NamesTypeOK' /\ StepKeeps
<1>1. /\ w \in Repos /\ fresh \in Nat /\ log \in Seq(Ops) /\ at \in Nat /\ at \in 1 .. Len(log)
  BY DEF NamesTypeOK, L, Logs
<1>2. /\ w' = [w EXCEPT !.ref[n] = Absent] /\ fresh' = fresh /\ log' = log /\ at' = at
      /\ last' = Ended("git")
  BY DEF GitDeletes
<1>3. w' \in Repos
  <2>1. Absent \in Lines
    BY DEF Absent, Lines
  <2> QED
    BY <1>1, <1>2, <2>1 DEF Repos
<1>4. NamesTypeOK'
  <2>1. L' = [w |-> w', log |-> log', at |-> at', fresh |-> fresh']
    BY DEF L
  <2>2. L' \in Logs
    BY <1>1, <1>2, <1>3, <2>1 DEF Logs
  <2> QED
    BY <2>2 DEF NamesTypeOK
<1>5. last'.verb \in Takes
  BY <1>2 DEF Ended, Takes
<1> QED
  BY <1>4, <1>5 DEF StepKeeps

-----------------------------------------------------------------------------
(***************************************************************************)
(* An undo, which takes; it leaves a repository.                           *)
(***************************************************************************)

LEMMA PlacedType ==
  ASSUME NEW s \in Repos, NEW b \in Names, NEW point \in Pointers \cup {None}
  PROVE  Placed(s, b, point) \in Pointers \cup {None}
<1>1. CASE point = None
  BY <1>1 DEF Placed
<1>2. CASE point # None
  <2> DEFINE root == IF s.point[b] = None THEN point.op ELSE s.point[b].root
  <2>1. point \in Pointers /\ s.point[b] \in Pointers \cup {None}
    BY <1>2, RepoFields
  <2>2. root \in Nat
    BY <2>1 DEF Pointers
  <2> HIDE DEF root
  <2>3. [point EXCEPT !.root = root] \in Pointers
    BY <2>1, <2>2 DEF Pointers
  <2>4. Placed(s, b, point) = [point EXCEPT !.root = root]
    BY <1>2 DEF Placed, root
  <2> QED
    BY <2>3, <2>4
<1> QED
  BY <1>1, <1>2

LEMMA RestoredType ==
  ASSUME NEW s \in Repos, NEW op \in Ops
  PROVE  Restored(s, op) \in Repos
<1> DEFINE t == Turned(s, op.turn)
           b == op.moved.b
           placed == Placed(t, b, op.moved.point)
           kept == IF t.trash[b] = op.moved.point THEN None ELSE t.trash[b]
<1>1. /\ op.turn \in Turns \cup {None} /\ op.moved \in [b : Names, point : Pointers] \cup {None}
  BY OpFields
<1>2. t \in Repos
  <2>1. CASE op.turn = None
    BY <2>1 DEF Turned
  <2>2. CASE op.turn # None
    <3>1. op.turn.b \in Names /\ op.turn.old \in Token
      BY <1>1, <2>2 DEF Turns
    <3>2. t = [s EXCEPT !.meta[op.turn.b] = op.turn.old]
      BY <2>2 DEF Turned
    <3> QED
      BY <3>1, <3>2 DEF Repos
  <2> QED
    BY <2>1, <2>2
<1> HIDE DEF t
<1>3. CASE op.moved = None
  BY <1>2, <1>3 DEF Restored, t
<1>4. CASE op.moved # None
  <2>1. b \in Names /\ op.moved.point \in Pointers \cup {None}
    BY <1>1, <1>4
  <2>2. placed \in Pointers \cup {None}
    BY <1>2, <2>1, PlacedType
  <2>3. kept \in Pointers \cup {None}
    BY <1>2, <2>1, RepoFields
  <2>4. Restored(s, op) = [t EXCEPT !.point[b] = placed, !.trash[b] = kept]
    <3>1. Restored(s, op) = [t EXCEPT !.point[b] = Placed(t, b, op.moved.point),
                                      !.trash[b] = IF @ = op.moved.point THEN None ELSE @]
      BY <1>4 DEF Restored, t
    <3> QED
      BY <1>2, <3>1 DEF Repos
  <2> HIDE DEF b, placed, kept
  <2> DEFINE u == [t EXCEPT !.point[b] = placed]
  <2>5. u \in Repos /\ u.trash = t.trash
    BY <1>2, <2>1, <2>2 DEF Repos
  <2>6. [u EXCEPT !.trash[b] = kept] \in Repos
    <3> HIDE DEF u
    <3> QED
      BY <2>1, <2>3, <2>5 DEF Repos
  <2>7. [t EXCEPT !.point[b] = placed, !.trash[b] = kept] = [u EXCEPT !.trash[b] = kept]
    BY <1>2 DEF Repos
  <2> QED
    BY <2>4, <2>6, <2>7
<1> QED
  BY <1>3, <1>4

LEMMA SyncedType ==
  ASSUME NEW s \in Repos, NEW n \in Names
  PROVE  Synced(s, n) \in Opens
<1>1. CASE s.ref[n] = Absent \/ s.point[n] = None
  BY <1>1 DEF Synced, Opens
<1>2. CASE ~(s.ref[n] = Absent \/ s.point[n] = None)
  <2>1. s.point[n] \in Pointers /\ s.meta[n] \in Token
    BY <1>2, RepoFields
  <2>2. s.point[n].tree \in Token
    BY <2>1 DEF Pointers
  <2>3. Synced(s, n) = OpenOf(s.point[n].tree, s.meta[n])
    BY <1>2 DEF Synced
  <2> QED
    BY <2>1, <2>2, <2>3, OpenOfType
<1> QED
  BY <1>1, <1>2

LEMMA RewoundType ==
  ASSUME NEW l \in Logs, l.at > 1
  PROVE  Rewound(l) \in Logs
<1> DEFINE op == l.log[l.at]
           to == l.log[l.at - 1]
           moved == [l.w EXCEPT !.ref = to.ref, !.head = to.head, !.wt = to.tree]
           back == Restored(moved, op)
           placed == Placed(back, op.on, op.was)
           pointed == [back EXCEPT !.point[op.on] = placed]
           touched == {to.head, op.on, op.off, op.head} \cap Names
           opens == [n \in Names |-> IF n \in touched THEN Synced(pointed, n) ELSE pointed.open[n]]
           s == [pointed EXCEPT !.open = opens]
<1>1. /\ l.w \in Repos /\ l.log \in Seq(Ops) /\ l.at \in Nat /\ l.fresh \in Nat /\ l.at \in 1 .. Len(l.log)
      /\ op \in Ops
  BY LogFields
<1>2. l.at - 1 \in 1 .. Len(l.log) /\ l.at - 1 \in Nat
  BY <1>1
<1>3. to \in Ops
  BY <1>1, <1>2
<1>4. Rewound(l) = [l EXCEPT !.w = s, !.at = l.at - 1]
  BY DEF Rewound
<1> HIDE DEF op, to
<1>5. moved \in Repos
  BY <1>1, <1>3, OpFields DEF Repos
<1> HIDE DEF moved
<1>6. back \in Repos
  BY <1>1, <1>5, RestoredType
<1> HIDE DEF back
<1>7. op.on \in Names /\ op.was \in Pointers \cup {None}
  BY <1>1, OpFields
<1>8. placed \in Pointers \cup {None}
  BY <1>6, <1>7, PlacedType
<1> HIDE DEF placed
<1>9. pointed \in Repos
  BY <1>6, <1>7, <1>8 DEF Repos
<1> HIDE DEF pointed, touched
<1>10. opens \in [Names -> Opens]
  <2>1. \A n \in Names : Synced(pointed, n) \in Opens /\ pointed.open[n] \in Opens
    BY <1>9, SyncedType, RepoFields
  <2> QED
    BY <2>1
<1> HIDE DEF opens
<1>11. s \in Repos
  BY <1>9, <1>10 DEF Repos
<1> HIDE DEF s
<1> QED
  BY <1>1, <1>2, <1>4, <1>11 DEF Logs

LEMMA UndoOK ==
  ASSUME NamesTypeOK, Undo
  PROVE  NamesTypeOK' /\ StepKeeps
<1> DEFINE r == Rewound(Begun)
<1>1. Begun \in Logs
  BY BegunIs DEF Prepared
<1>2. r \in Logs
  BY <1>1, RewoundType DEF Undo
<1>3. /\ w' = r.w /\ log' = r.log /\ at' = r.at /\ fresh' = r.fresh /\ last' = Ended("undo")
  BY DEF Undo, Take
<1> HIDE DEF r
<1>4. NamesTypeOK'
  <2>1. L' = [w |-> w', log |-> log', at |-> at', fresh |-> fresh']
    BY DEF L
  <2>2. r.w \in Repos
    BY <1>2, LogFields
  <2> QED
    BY <1>2, <1>3, <2>1, <2>2, LogsAre DEF NamesTypeOK
<1>5. last'.verb \in Takes
  BY <1>3 DEF Ended, Takes
<1> QED
  BY <1>4, <1>5 DEF StepKeeps

-----------------------------------------------------------------------------

LEMMA InitTypes ==
  ASSUME Init
  PROVE  NamesTypeOK
<1> DEFINE ref == [n \in Names |-> IF n = First THEN [line |-> 1, has |-> << >>] ELSE Absent]
           nothing == [n \in Names |-> None]
           floor == [op |-> 1, tree |-> None, open |-> None, root |-> 1]
           d == Draft("note", First, ref, First, None)
<1>1. /\ w = [head |-> First, wt |-> None, ref |-> ref, open |-> nothing, meta |-> nothing, upstream |-> nothing,
              point |-> [nothing EXCEPT ![First] = floor], trash |-> nothing]
      /\ log = <<d>> /\ at = 1 /\ fresh = 2
  BY DEF Init
<1>2. First \in Names /\ None \in Token /\ None \in Opens /\ "note" \in Verbs
  BY NamesAssumption DEF Token, Opens, Verbs
<1>3. ref \in [Names -> Lines]
  BY DEF Lines, Absent
<1>4. floor \in Pointers
  BY <1>2 DEF Pointers
<1>5. d \in Ops
  <2> HIDE DEF ref
  <2> QED
    BY <1>2, <1>3, DraftType
<1>6. /\ nothing \in [Names -> Token] /\ nothing \in [Names -> Opens] /\ nothing \in [Names -> Pointers \cup {None}]
      /\ [nothing EXCEPT ![First] = floor] \in [Names -> Pointers \cup {None}]
  <2> HIDE DEF floor
  <2> QED
    BY <1>2, <1>4
<1> HIDE DEF ref, nothing, floor, d
<1>7. w \in Repos
  BY <1>1, <1>2, <1>3, <1>6 DEF Repos
<1>8. log \in Seq(Ops) /\ Len(log) = 1
  BY <1>1, <1>5
<1> QED
  BY <1>1, <1>7, <1>8 DEF NamesTypeOK, L, Logs

LEMMA NextOK ==
  ASSUME NamesTypeOK, Next
  PROVE  NamesTypeOK' /\ StepKeeps
<1>1. ASSUME NEW n \in Names, Start(n) \/ Create(n, FALSE) \/ Create(n, TRUE) \/ GitDeletes(n)
      PROVE  NamesTypeOK' /\ StepKeeps
  BY <1>1, StartOK, CreateOK, GitDeletesOK
<1> QED
  BY <1>1, RenameOK, CloseOK, SwitchOK, DeleteOK, ShareOK, UndoOK, StatusOK, TypeOK DEF Next

LEMMA StepOK ==
  ASSUME NamesTypeOK, [Next]_vars
  PROVE  NamesTypeOK' /\ [StepKeeps]_vars
<1>1. CASE Next
  BY <1>1, NextOK
<1>2. CASE UNCHANGED vars
  BY <1>2 DEF vars, NamesTypeOK, L
<1> QED
  BY <1>1, <1>2

(* The refs, the log, and all that is kept under a name are what the verbs *)
(* take them for, after any number of verbs, undos and kills.              *)
THEOREM NamesInvariant == Spec => []NamesTypeOK
<1>1. Init => NamesTypeOK
  BY InitTypes
<1>2. NamesTypeOK /\ [Next]_vars => NamesTypeOK'
  BY StepOK
<1> QED
  BY <1>1, <1>2, PTL DEF Spec

(* No step but an undo, or git itself, takes from a branch its id, its open*)
(* change or its upstream, and none leaves a branch without a name, save   *)
(* the one a delete was told to: a rename, a claim and a close killed      *)
(* between any two of their writes included.                               *)
THEOREM NamesAreKept == Spec => NeverNeither
<1> DEFINE A == last'.verb \notin Takes =>
                  \A n \in Names \ Free(Begun.w) :
                    Kept(Begun.w, w', n) \/ (last'.verb = "delete" /\ last'.from = n)
<1>1. NamesTypeOK /\ [Next]_vars => [A]_vars
  <2>1. StepKeeps <=> A
    BY DEF StepKeeps, Alive
  <2> HIDE DEF A
  <2> QED
    BY <2>1, StepOK
<1>2. NeverNeither <=> [][A]_vars
  BY DEF NeverNeither
<1> HIDE DEF A
<1>3. Spec => [][A]_vars
  BY <1>1, NamesInvariant, PTL DEF Spec
<1> QED
  BY <1>2, <1>3

=============================================================================
