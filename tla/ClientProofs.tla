----------------------------- MODULE ClientProofs ----------------------------
(***************************************************************************)
(* Theorems about the client's side of fufu, Hooks and then Ambient, and   *)
(* their proofs.                                                           *)
(*                                                                         *)
(* What a write does is a matter of the one disk it writes; what it may    *)
(* take for granted is what the writes before it in the program have done. *)
(* So the invariant keeps, for the slug at hand, what each write of its    *)
(* program that has run has left on the disk, and that the writes left are *)
(* in an order the program has: the new wiring before the old goes, what a *)
(* verification reads before it is read.  At a program's end every write   *)
(* has run, which is what a verb promises; before it, what has run is what *)
(* the write at hand needs not to cost an event.                           *)
(***************************************************************************)
EXTENDS Hooks, Ambient, Walks

-----------------------------------------------------------------------------
(***************************************************************************)
(* The members of a list that are in a set.                                *)
(***************************************************************************)
IsUpTo(f, list, set, n) ==
  f = [i \in 0..n |->
        IF i = 0 THEN << >> ELSE IF list[i] \in set THEN Append(f[i - 1], list[i]) ELSE f[i - 1]]

LEMMA UpToExists ==
  ASSUME NEW n \in Nat, NEW list, NEW set
  PROVE  \E f : IsUpTo(f, list, set, n)
<1> DEFINE T == {m \in 0..n : \E f : IsUpTo(f, list, set, m)}
<1>1. ASSUME NEW m \in 0..n, \A k \in 0..n : k < m => k \in T
      PROVE  m \in T
  <2>1. CASE m = 0
    <3> DEFINE f == [i \in 0..0 |-> << >>]
    <3>1. IsUpTo(f, list, set, 0)
      BY DEF IsUpTo
    <3> QED
      BY <2>1, <3>1
  <2>2. CASE m # 0
    <3>1. m - 1 \in 0..n /\ m - 1 < m /\ m \in 1..n
      BY <2>2
    <3>2. PICK f : IsUpTo(f, list, set, m - 1)
      BY <1>1, <3>1
    <3> DEFINE last == IF list[m] \in set THEN Append(f[m - 1], list[m]) ELSE f[m - 1]
               g == [i \in 0..m |-> IF i = m THEN last ELSE f[i]]
    <3>3. \A i \in 0..(m - 1) :
            f[i] = IF i = 0 THEN << >> ELSE IF list[i] \in set THEN Append(f[i - 1], list[i]) ELSE f[i - 1]
      BY <3>2 DEF IsUpTo
    <3>4. \A i \in 1..m : i - 1 \in 0..m /\ i - 1 # m /\ g[i - 1] = f[i - 1]
      BY <3>1
    <3>5. ASSUME NEW i \in 0..m
          PROVE  g[i] = IF i = 0 THEN << >>
                        ELSE IF list[i] \in set THEN Append(g[i - 1], list[i]) ELSE g[i - 1]
      <4>1. CASE i = m
        <5>1. g[m] = last /\ g[m - 1] = f[m - 1]
          BY <3>1, <3>4
        <5> HIDE DEF g
        <5> QED
          BY <2>2, <4>1, <5>1
      <4>2. CASE i # m
        <5>1. i \in 0..(m - 1) /\ (i # 0 => i \in 1..m) /\ g[i] = f[i]
          BY <4>2
        <5> HIDE DEF g
        <5> QED
          BY <3>3, <3>4, <5>1
      <4> QED
        BY <4>1, <4>2
    <3>6. g = [i \in 0..m |-> IF i = 0 THEN << >>
                              ELSE IF list[i] \in set THEN Append(g[i - 1], list[i]) ELSE g[i - 1]]
      <4>1. g = [i \in 0..m |-> g[i]]
        OBVIOUS
      <4> HIDE DEF g
      <4> QED
        BY <3>5, <4>1
    <3>7. IsUpTo(g, list, set, m)
      <4> HIDE DEF g
      <4> QED
        BY <3>6 DEF IsUpTo
    <3> QED
      BY <3>7
  <2> QED
    BY <2>1, <2>2
<1>2. 0..n \subseteq T
  <2> HIDE DEF T
  <2> QED
    BY <1>1, AllNumbers
<1> QED
  BY <1>2

(* What stands of a list after each of its first n members.                *)
Follows(f, list, set, n) ==
  /\ f[0] = << >>
  /\ \A i \in 1..n : f[i] = IF list[i] \in set THEN Append(f[i - 1], list[i]) ELSE f[i - 1]

Agree(a, b, set, n) == \A i \in 1..n : (a[i] \in set \/ b[i] \in set) => a[i] = b[i]

LEMMA OnlyIs ==
  ASSUME NEW S, NEW list \in Seq(S), NEW set
  PROVE  \E f : Only(list, set) = f[Len(list)] /\ Follows(f, list, set, Len(list))
<1> DEFINE n == Len(list)
           f == CHOOSE g : IsUpTo(g, list, set, n)
<1>1. n \in Nat
  OBVIOUS
<1>2. IsUpTo(f, list, set, n)
  BY <1>1, UpToExists
<1>3. Only(list, set) = f[n]
  BY Zenon DEF Only, IsUpTo
<1>4. Follows(f, list, set, n)
  <2>1. 0 \in 0..n /\ \A i \in 1..n : i \in 0..n /\ i # 0
    BY <1>1
  <2>2. f = [i \in 0..n |-> IF i = 0 THEN << >>
                            ELSE IF list[i] \in set THEN Append(f[i - 1], list[i]) ELSE f[i - 1]]
    BY <1>2 DEF IsUpTo
  <2> HIDE DEF f, n
  <2> QED
    BY <2>1, <2>2 DEF Follows
<1> QED
  BY <1>3, <1>4

(* What stands of two lists is the same, up to where they agree on it.     *)
LEMMA UpToSame ==
  ASSUME NEW n \in Nat, NEW a, NEW b, NEW set, NEW f, NEW g,
         Follows(f, a, set, n), Follows(g, b, set, n), Agree(a, b, set, n)
  PROVE  f[n] = g[n]
<1> DEFINE T == {m \in 0..n : f[m] = g[m]}
<1>1. ASSUME NEW m \in 0..n, \A k \in 0..n : k < m => k \in T
      PROVE  m \in T
  <2>1. CASE m = 0
    BY <2>1 DEF Follows
  <2>2. CASE m # 0
    <3>1. m - 1 \in 0..n /\ m - 1 < m /\ m \in 1..n
      BY <2>2
    <3>2. f[m - 1] = g[m - 1]
      BY <1>1, <3>1
    <3>3. f[m] = g[m]
      BY <3>1, <3>2 DEF Follows, Agree
    <3> QED
      BY <3>3
  <2> QED
    BY <2>1, <2>2
<1>2. 0..n \subseteq T
  <2> HIDE DEF T
  <2> QED
    BY <1>1, AllNumbers
<1>3. n \in 0..n
  OBVIOUS
<1> QED
  BY <1>2, <1>3

LEMMA OnlyType ==
  ASSUME NEW S, NEW list \in Seq(S), NEW set
  PROVE  Only(list, set) \in Seq(S \cap set)
<1> DEFINE n == Len(list)
<1>1. PICK f : Only(list, set) = f[n] /\ Follows(f, list, set, n)
  BY OnlyIs
<1> DEFINE R == S \cap set
           T == {m \in 0..n : f[m] \in Seq(R)}
<1>2. /\ n \in Nat /\ \A i \in 1..n : list[i] \in set => list[i] \in R
      /\ << >> \in Seq(R)
  OBVIOUS
<1>3. ASSUME NEW m \in 0..n, \A k \in 0..n : k < m => k \in T
      PROVE  m \in T
  <2> HIDE DEF n, R
  <2>1. CASE m = 0
    BY <1>1, <1>2, <2>1 DEF Follows
  <2>2. CASE m # 0
    <3>1. m - 1 \in 0..n /\ m - 1 < m /\ m \in 1..n
      BY <1>2, <2>2
    <3>2. f[m - 1] \in Seq(R)
      BY <1>3, <3>1
    <3>3. f[m] = IF list[m] \in set THEN Append(f[m - 1], list[m]) ELSE f[m - 1]
      BY <1>1, <3>1 DEF Follows
    <3>4. list[m] \in set => list[m] \in R
      BY <1>2, <3>1
    <3>5. f[m] \in Seq(R)
      BY <3>2, <3>3, <3>4
    <3> QED
      BY <3>5
  <2> QED
    BY <2>1, <2>2
<1>4. 0..n \subseteq T
  <2> HIDE DEF T
  <2> QED
    BY <1>2, <1>3, AllNumbers
<1>5. n \in 0..n
  BY <1>2
<1> QED
  BY <1>1, <1>4, <1>5

LEMMA OnlyAppend ==
  ASSUME NEW S, NEW list \in Seq(S), NEW x \in S, NEW set
  PROVE  Only(Append(list, x), set) = IF x \in set THEN Append(Only(list, set), x) ELSE Only(list, set)
<1> DEFINE n == Len(list)
           more == Append(list, x)
<1>1. /\ n \in Nat /\ more \in Seq(S) /\ Len(more) = n + 1
      /\ more[n + 1] = x /\ \A i \in 1..n : more[i] = list[i]
  OBVIOUS
<1>2. PICK f : Only(list, set) = f[n] /\ Follows(f, list, set, n)
  BY OnlyIs
<1>3. PICK g : Only(more, set) = g[Len(more)] /\ Follows(g, more, set, Len(more))
  <2> HIDE DEF more
  <2> QED
    BY <1>1, OnlyIs
<1> HIDE DEF n, more
<1>4. \A i \in 1..n : i \in 1..Len(more)
  BY <1>1
<1>5. Follows(g, more, set, n)
  BY <1>3, <1>4 DEF Follows
<1>6. f[n] = g[n]
  <2>1. Agree(list, more, set, n)
    BY <1>1 DEF Agree
  <2>2. n \in Nat
    BY <1>1
  <2> QED
    BY ONLY <1>2, <1>3, <1>5, <2>1, <2>2, UpToSame
<1>7. n + 1 \in 1..Len(more) /\ (n + 1) - 1 = n
  BY <1>1
<1>8. g[n + 1] = IF more[n + 1] \in set THEN Append(g[n], more[n + 1]) ELSE g[n]
  BY ONLY <1>3, <1>7 DEF Follows
<1>9. Only(more, set) = IF x \in set THEN Append(Only(list, set), x) ELSE Only(list, set)
  BY ONLY <1>1, <1>2, <1>3, <1>6, <1>8
<1> QED
  BY <1>9 DEF more

(* Members outside the set may change for others outside it.               *)
LEMMA OnlyOf ==
  ASSUME NEW S, NEW a \in Seq(S), NEW b \in Seq(S), NEW set, Len(a) = Len(b),
         \A i \in 1..Len(a) : (a[i] \in set \/ b[i] \in set) => a[i] = b[i]
  PROVE  Only(a, set) = Only(b, set)
<1> DEFINE n == Len(a)
<1>1. PICK f : Only(a, set) = f[n] /\ Follows(f, a, set, n)
  BY OnlyIs
<1>2. PICK g : Only(b, set) = g[n] /\ Follows(g, b, set, n)
  BY OnlyIs
<1>3. n \in Nat
  OBVIOUS
<1> HIDE DEF n
<1>4. Agree(a, b, set, n)
  BY DEF n, Agree
<1>5. f[n] = g[n]
  BY ONLY <1>1, <1>2, <1>3, <1>4, UpToSame
<1> QED
  BY <1>1, <1>2, <1>5

(* Of a list all of whose members are in the set, all stands.              *)
LEMMA OnlyAll ==
  ASSUME NEW set, NEW list \in Seq(set)
  PROVE  Only(list, set) = list
<1> DEFINE n == Len(list)
<1>1. PICK f : Only(list, set) = f[n] /\ Follows(f, list, set, n)
  BY OnlyIs
<1> DEFINE T == {m \in 0..n : f[m] = SubSeq(list, 1, m)}
<1>2. n \in Nat
  OBVIOUS
<1>3. ASSUME NEW m \in 0..n, \A k \in 0..n : k < m => k \in T
      PROVE  m \in T
  <2>1. CASE m = 0
    <3>1. SubSeq(list, 1, 0) = << >>
      OBVIOUS
    <3> QED
      BY <1>1, <2>1, <3>1 DEF Follows
  <2>2. CASE m # 0
    <3>1. m - 1 \in 0..n /\ m - 1 < m /\ m \in 1..n /\ list[m] \in set
      BY <2>2
    <3>2. f[m - 1] = SubSeq(list, 1, m - 1)
      BY <1>3, <3>1
    <3>3. f[m] = Append(f[m - 1], list[m])
      BY <1>1, <3>1 DEF Follows
    <3>4. SubSeq(list, 1, m) = Append(SubSeq(list, 1, m - 1), list[m])
      BY <3>1
    <3> QED
      BY <3>2, <3>3, <3>4
  <2> QED
    BY <2>1, <2>2
<1>4. 0..n \subseteq T
  <2> HIDE DEF T
  <2> QED
    BY <1>2, <1>3, AllNumbers
<1>5. n \in 0..n /\ SubSeq(list, 1, n) = list
  OBVIOUS
<1> QED
  BY <1>1, <1>4, <1>5

-----------------------------------------------------------------------------
(***************************************************************************)
(* The programs: what each writes, and in which order.                     *)
(***************************************************************************)
Clients == {"claude", "codex", "qwen", "opencode", "copilot", "cursor", "bash", "zsh"}

(* What has to be written before what.                                     *)
Before ==
  {<<"manifest", "strip">>, <<"hooks", "strip">>, <<"manifest", "trystrip">>, <<"hooks", "trystrip">>,
   <<"list", "trystrip">>, <<"hooks", "add">>, <<"wire", "unplug">>, <<"load", "list">>,
   <<"load", "unlist">>, <<"load", "register">>, <<"load", "unregister">>, <<"unlist", "unregister">>,
   <<"manifest", "verify">>, <<"hooks", "verify">>, <<"list", "register">>, <<"register", "verify">>,
   <<"script", "verify">>}

InOrderOf(p) == \A i, j \in DOMAIN p : i < j => p[i] # p[j] /\ <<p[j], p[i]>> \notin Before

Wires ==
  [claude |-> {"manifest", "hooks", "skill", "sweep", "unmcp", "verify", "strip"},
   codex |-> {"manifest", "hooks", "skill", "verify", "list", "add", "trystrip", "sweep", "unmcp"},
   cursor |-> {"manifest", "hooks", "skill", "verify", "trystrip", "unmcp"},
   copilot |-> {"load", "manifest", "hooks", "skill", "list", "register", "verify"},
   qwen |-> {"wire"}, opencode |-> {"script", "skill", "verify"}, bash |-> {"rc"}, zsh |-> {"rc"}]

Unwires ==
  [claude |-> {"unplug", "strip"}, codex |-> {"unplug", "unlist"},
   cursor |-> {"unplug", "trystrip", "unmcp"}, copilot |-> {"load", "unlist", "unregister", "unplug"},
   qwen |-> {"strip"}, opencode |-> {"unscript", "unskill"}, bash |-> {"unrc"}, zsh |-> {"unrc"}]

(* `--settings`, and the repair of a Claude that is on them.               *)
Rewires == {"wire", "unplug"}

LEMMA ClientsAre == ToSet(All) = Clients
<1>1. DOMAIN All = 1..8
  BY DEF All
<1>2. \A i \in 1..8 : All[i] \in Clients
  BY DEF All, Clients
<1>3. \A s \in Clients : \E i \in 1..8 : All[i] = s
  <2>1. /\ All[1] = "claude" /\ All[2] = "codex" /\ All[3] = "qwen" /\ All[4] = "opencode"
        /\ All[5] = "copilot" /\ All[6] = "cursor" /\ All[7] = "bash" /\ All[8] = "zsh"
    BY DEF All
  <2>2. /\ 1 \in 1..8 /\ 2 \in 1..8 /\ 3 \in 1..8 /\ 4 \in 1..8
        /\ 5 \in 1..8 /\ 6 \in 1..8 /\ 7 \in 1..8 /\ 8 \in 1..8
    OBVIOUS
  <2> QED
    BY ONLY <2>1, <2>2 DEF Clients
<1> QED
  BY ONLY <1>1, <1>2, <1>3 DEF ToSet

AnyStep ==
  {"manifest", "hooks", "skill", "sweep", "unmcp", "verify", "strip", "list", "add", "trystrip", "load",
   "register", "script", "wire", "rc", "unplug", "unlist", "unregister", "unscript", "unskill", "unrc"}

(* A program writes what a set names, each once, in an order it may be in. *)
Programs(set) == {p \in Seq(AnyStep) : p # << >> /\ InOrderOf(p) /\ ToSet(p) = set}

(* A list of n steps is one if it has them by index.                       *)
LEMMA ListIs ==
  ASSUME NEW n \in Nat, NEW p, Len(p) = n, DOMAIN p = 1..n, p = [i \in 1..n |-> p[i]],
         \A i \in 1..n : p[i] \in AnyStep
  PROVE  p \in Seq(AnyStep)
  BY SeqDef

LEMMA ClaudeInstallIs == ClaudeInstall \in Programs(Wires["claude"])
<1> DEFINE p == ClaudeInstall
<1>1. Len(p) = 7 /\ DOMAIN p = 1..7
  BY DEF ClaudeInstall, WritePlugin
<1>2. /\ p[1] = "manifest" /\ p[2] = "hooks" /\ p[3] = "skill" /\ p[4] = "sweep"
      /\ p[5] = "unmcp" /\ p[6] = "verify" /\ p[7] = "strip"
  BY DEF ClaudeInstall, WritePlugin
<1>3. p = [i \in 1..7 |-> p[i]]
  BY DEF ClaudeInstall, WritePlugin
<1> HIDE DEF p
<1>4. \A i \in 1..7 : p[i] \in AnyStep
  BY <1>2 DEF AnyStep
<1>5. p \in Seq(AnyStep) /\ p # << >>
  BY <1>1, <1>3, <1>4, ListIs
<1>6. InOrderOf(p)
  BY <1>1, <1>2 DEF InOrderOf, Before
<1>7. ToSet(p) = Wires["claude"]
  <2>1. {p[i] : i \in 1..7} = Wires["claude"]
    BY <1>2 DEF Wires
  <2> QED
    BY <1>1, <2>1 DEF ToSet
<1> QED
  BY <1>5, <1>6, <1>7 DEF p, Programs

LEMMA CodexInstallIs == CodexInstall \in Programs(Wires["codex"])
<1> DEFINE p == CodexInstall
<1>1. Len(p) = 9 /\ DOMAIN p = 1..9
  BY DEF CodexInstall, WritePlugin
<1>2. /\ p[1] = "manifest" /\ p[2] = "hooks" /\ p[3] = "skill" /\ p[4] = "verify"
      /\ p[5] = "list" /\ p[6] = "add" /\ p[7] = "trystrip" /\ p[8] = "sweep"
      /\ p[9] = "unmcp"
  BY DEF CodexInstall, WritePlugin
<1>3. p = [i \in 1..9 |-> p[i]]
  BY DEF CodexInstall, WritePlugin
<1> HIDE DEF p
<1>4. \A i \in 1..9 : p[i] \in AnyStep
  BY <1>2 DEF AnyStep
<1>5. p \in Seq(AnyStep) /\ p # << >>
  BY <1>1, <1>3, <1>4, ListIs
<1>6. InOrderOf(p)
  BY <1>1, <1>2 DEF InOrderOf, Before
<1>7. ToSet(p) = Wires["codex"]
  <2>1. {p[i] : i \in 1..9} = Wires["codex"]
    BY <1>2 DEF Wires
  <2> QED
    BY <1>1, <2>1 DEF ToSet
<1> QED
  BY <1>5, <1>6, <1>7 DEF p, Programs

LEMMA CursorInstallIs == CursorInstall \in Programs(Wires["cursor"])
<1> DEFINE p == CursorInstall
<1>1. Len(p) = 6 /\ DOMAIN p = 1..6
  BY DEF CursorInstall, WritePlugin
<1>2. /\ p[1] = "manifest" /\ p[2] = "hooks" /\ p[3] = "skill" /\ p[4] = "verify"
      /\ p[5] = "trystrip" /\ p[6] = "unmcp"
  BY DEF CursorInstall, WritePlugin
<1>3. p = [i \in 1..6 |-> p[i]]
  BY DEF CursorInstall, WritePlugin
<1> HIDE DEF p
<1>4. \A i \in 1..6 : p[i] \in AnyStep
  BY <1>2 DEF AnyStep
<1>5. p \in Seq(AnyStep) /\ p # << >>
  BY <1>1, <1>3, <1>4, ListIs
<1>6. InOrderOf(p)
  BY <1>1, <1>2 DEF InOrderOf, Before
<1>7. ToSet(p) = Wires["cursor"]
  <2>1. {p[i] : i \in 1..6} = Wires["cursor"]
    BY <1>2 DEF Wires
  <2> QED
    BY <1>1, <2>1 DEF ToSet
<1> QED
  BY <1>5, <1>6, <1>7 DEF p, Programs

LEMMA CopilotInstallIs == CopilotInstall \in Programs(Wires["copilot"])
<1> DEFINE p == CopilotInstall
<1>1. Len(p) = 7 /\ DOMAIN p = 1..7
  BY DEF CopilotInstall, WritePlugin
<1>2. /\ p[1] = "load" /\ p[2] = "manifest" /\ p[3] = "hooks" /\ p[4] = "skill"
      /\ p[5] = "list" /\ p[6] = "register" /\ p[7] = "verify"
  BY DEF CopilotInstall, WritePlugin
<1>3. p = [i \in 1..7 |-> p[i]]
  BY DEF CopilotInstall, WritePlugin
<1> HIDE DEF p
<1>4. \A i \in 1..7 : p[i] \in AnyStep
  BY <1>2 DEF AnyStep
<1>5. p \in Seq(AnyStep) /\ p # << >>
  BY <1>1, <1>3, <1>4, ListIs
<1>6. InOrderOf(p)
  BY <1>1, <1>2 DEF InOrderOf, Before
<1>7. ToSet(p) = Wires["copilot"]
  <2>1. {p[i] : i \in 1..7} = Wires["copilot"]
    BY <1>2 DEF Wires
  <2> QED
    BY <1>1, <2>1 DEF ToSet
<1> QED
  BY <1>5, <1>6, <1>7 DEF p, Programs

LEMMA OpencodeInstallIs == OpencodeInstall \in Programs(Wires["opencode"])
<1> DEFINE p == OpencodeInstall
<1>1. Len(p) = 3 /\ DOMAIN p = 1..3
  BY DEF OpencodeInstall
<1>2. /\ p[1] = "script" /\ p[2] = "skill" /\ p[3] = "verify"
  BY DEF OpencodeInstall
<1>3. p = [i \in 1..3 |-> p[i]]
  BY DEF OpencodeInstall
<1> HIDE DEF p
<1>4. \A i \in 1..3 : p[i] \in AnyStep
  BY <1>2 DEF AnyStep
<1>5. p \in Seq(AnyStep) /\ p # << >>
  BY <1>1, <1>3, <1>4, ListIs
<1>6. InOrderOf(p)
  BY <1>1, <1>2 DEF InOrderOf, Before
<1>7. ToSet(p) = Wires["opencode"]
  <2>1. {p[i] : i \in 1..3} = Wires["opencode"]
    BY <1>2 DEF Wires
  <2> QED
    BY <1>1, <2>1 DEF ToSet
<1> QED
  BY <1>5, <1>6, <1>7 DEF p, Programs

LEMMA ClaudeUninstallIs == ClaudeUninstall \in Programs(Unwires["claude"])
<1> DEFINE p == ClaudeUninstall
<1>1. Len(p) = 2 /\ DOMAIN p = 1..2
  BY DEF ClaudeUninstall
<1>2. /\ p[1] = "unplug" /\ p[2] = "strip"
  BY DEF ClaudeUninstall
<1>3. p = [i \in 1..2 |-> p[i]]
  BY DEF ClaudeUninstall
<1> HIDE DEF p
<1>4. \A i \in 1..2 : p[i] \in AnyStep
  BY <1>2 DEF AnyStep
<1>5. p \in Seq(AnyStep) /\ p # << >>
  BY <1>1, <1>3, <1>4, ListIs
<1>6. InOrderOf(p)
  BY <1>1, <1>2 DEF InOrderOf, Before
<1>7. ToSet(p) = Unwires["claude"]
  <2>1. {p[i] : i \in 1..2} = Unwires["claude"]
    BY <1>2 DEF Unwires
  <2> QED
    BY <1>1, <2>1 DEF ToSet
<1> QED
  BY <1>5, <1>6, <1>7 DEF p, Programs

LEMMA CodexUninstallIs == CodexUninstall \in Programs(Unwires["codex"])
<1> DEFINE p == CodexUninstall
<1>1. Len(p) = 2 /\ DOMAIN p = 1..2
  BY DEF CodexUninstall
<1>2. /\ p[1] = "unplug" /\ p[2] = "unlist"
  BY DEF CodexUninstall
<1>3. p = [i \in 1..2 |-> p[i]]
  BY DEF CodexUninstall
<1> HIDE DEF p
<1>4. \A i \in 1..2 : p[i] \in AnyStep
  BY <1>2 DEF AnyStep
<1>5. p \in Seq(AnyStep) /\ p # << >>
  BY <1>1, <1>3, <1>4, ListIs
<1>6. InOrderOf(p)
  BY <1>1, <1>2 DEF InOrderOf, Before
<1>7. ToSet(p) = Unwires["codex"]
  <2>1. {p[i] : i \in 1..2} = Unwires["codex"]
    BY <1>2 DEF Unwires
  <2> QED
    BY <1>1, <2>1 DEF ToSet
<1> QED
  BY <1>5, <1>6, <1>7 DEF p, Programs

LEMMA CursorUninstallIs == CursorUninstall \in Programs(Unwires["cursor"])
<1> DEFINE p == CursorUninstall
<1>1. Len(p) = 3 /\ DOMAIN p = 1..3
  BY DEF CursorUninstall
<1>2. /\ p[1] = "unplug" /\ p[2] = "trystrip" /\ p[3] = "unmcp"
  BY DEF CursorUninstall
<1>3. p = [i \in 1..3 |-> p[i]]
  BY DEF CursorUninstall
<1> HIDE DEF p
<1>4. \A i \in 1..3 : p[i] \in AnyStep
  BY <1>2 DEF AnyStep
<1>5. p \in Seq(AnyStep) /\ p # << >>
  BY <1>1, <1>3, <1>4, ListIs
<1>6. InOrderOf(p)
  BY <1>1, <1>2 DEF InOrderOf, Before
<1>7. ToSet(p) = Unwires["cursor"]
  <2>1. {p[i] : i \in 1..3} = Unwires["cursor"]
    BY <1>2 DEF Unwires
  <2> QED
    BY <1>1, <2>1 DEF ToSet
<1> QED
  BY <1>5, <1>6, <1>7 DEF p, Programs

LEMMA CopilotUninstallIs == CopilotUninstall \in Programs(Unwires["copilot"])
<1> DEFINE p == CopilotUninstall
<1>1. Len(p) = 4 /\ DOMAIN p = 1..4
  BY DEF CopilotUninstall
<1>2. /\ p[1] = "load" /\ p[2] = "unlist" /\ p[3] = "unregister" /\ p[4] = "unplug"
  BY DEF CopilotUninstall
<1>3. p = [i \in 1..4 |-> p[i]]
  BY DEF CopilotUninstall
<1> HIDE DEF p
<1>4. \A i \in 1..4 : p[i] \in AnyStep
  BY <1>2 DEF AnyStep
<1>5. p \in Seq(AnyStep) /\ p # << >>
  BY <1>1, <1>3, <1>4, ListIs
<1>6. InOrderOf(p)
  BY <1>1, <1>2 DEF InOrderOf, Before
<1>7. ToSet(p) = Unwires["copilot"]
  <2>1. {p[i] : i \in 1..4} = Unwires["copilot"]
    BY <1>2 DEF Unwires
  <2> QED
    BY <1>1, <2>1 DEF ToSet
<1> QED
  BY <1>5, <1>6, <1>7 DEF p, Programs

LEMMA OpencodeUninstallIs == OpencodeUninstall \in Programs(Unwires["opencode"])
<1> DEFINE p == OpencodeUninstall
<1>1. Len(p) = 2 /\ DOMAIN p = 1..2
  BY DEF OpencodeUninstall
<1>2. /\ p[1] = "unscript" /\ p[2] = "unskill"
  BY DEF OpencodeUninstall
<1>3. p = [i \in 1..2 |-> p[i]]
  BY DEF OpencodeUninstall
<1> HIDE DEF p
<1>4. \A i \in 1..2 : p[i] \in AnyStep
  BY <1>2 DEF AnyStep
<1>5. p \in Seq(AnyStep) /\ p # << >>
  BY <1>1, <1>3, <1>4, ListIs
<1>6. InOrderOf(p)
  BY <1>1, <1>2 DEF InOrderOf, Before
<1>7. ToSet(p) = Unwires["opencode"]
  <2>1. {p[i] : i \in 1..2} = Unwires["opencode"]
    BY <1>2 DEF Unwires
  <2> QED
    BY <1>1, <2>1 DEF ToSet
<1> QED
  BY <1>5, <1>6, <1>7 DEF p, Programs

LEMMA OnSettingsIs == OnSettings \in Programs(Rewires)
<1> DEFINE p == OnSettings
<1>1. Len(p) = 2 /\ DOMAIN p = 1..2
  BY DEF OnSettings
<1>2. /\ p[1] = "wire" /\ p[2] = "unplug"
  BY DEF OnSettings
<1>3. p = [i \in 1..2 |-> p[i]]
  BY DEF OnSettings
<1> HIDE DEF p
<1>4. \A i \in 1..2 : p[i] \in AnyStep
  BY <1>2 DEF AnyStep
<1>5. p \in Seq(AnyStep) /\ p # << >>
  BY <1>1, <1>3, <1>4, ListIs
<1>6. InOrderOf(p)
  BY <1>1, <1>2 DEF InOrderOf, Before
<1>7. ToSet(p) = Rewires
  <2>1. {p[i] : i \in 1..2} = Rewires
    BY <1>2 DEF Rewires
  <2> QED
    BY <1>1, <2>1 DEF ToSet
<1> QED
  BY <1>5, <1>6, <1>7 DEF p, Programs

(* What the program a verb takes up for a client writes.                   *)
Written(v, s, d) ==
  IF v = "unhook" THEN Unwires[s]
  ELSE IF s = "claude" /\ (v = "settings" \/ (v \in {"update", "fix"} /\ PluginWiring("claude", d) # "wired"))
       THEN Rewires
  ELSE Wires[s]

LEMMA OneStepIs ==
  ASSUME NEW x \in AnyStep
  PROVE  <<x>> \in Programs({x})
<1> DEFINE p == <<x>>
<1>1. Len(p) = 1 /\ DOMAIN p = 1..1 /\ p[1] = x /\ p \in Seq(AnyStep) /\ p # << >>
  OBVIOUS
<1> HIDE DEF p
<1>2. InOrderOf(p)
  BY <1>1 DEF InOrderOf
<1>3. ToSet(p) = {x}
  <2>1. {p[i] : i \in 1..1} = {x}
    BY <1>1
  <2> QED
    BY <1>1, <2>1 DEF ToSet
<1> QED
  BY <1>1, <1>2, <1>3 DEF p, Programs

LEMMA InstallsAre ==
  ASSUME NEW s \in Clients
  PROVE  InstallOf(s) \in Programs(Wires[s]) /\ UninstallOf(s) \in Programs(Unwires[s])
<1>1. /\ <<"wire">> \in Programs({"wire"}) /\ <<"rc">> \in Programs({"rc"})
      /\ <<"strip">> \in Programs({"strip"}) /\ <<"unrc">> \in Programs({"unrc"})
  <2>1. "wire" \in AnyStep /\ "rc" \in AnyStep /\ "strip" \in AnyStep /\ "unrc" \in AnyStep
    BY DEF AnyStep
  <2> QED
    BY <2>1, OneStepIs
<1>2. InstallOf(s) \in Programs(Wires[s])
  <2>1. CASE s = "claude"
    BY <2>1, ClaudeInstallIs DEF InstallOf, Installs
  <2>2. CASE s = "codex"
    BY <2>2, CodexInstallIs DEF InstallOf, Installs
  <2>3. CASE s = "cursor"
    BY <2>3, CursorInstallIs DEF InstallOf, Installs
  <2>4. CASE s = "copilot"
    BY <2>4, CopilotInstallIs DEF InstallOf, Installs
  <2>5. CASE s = "opencode"
    BY <2>5, OpencodeInstallIs DEF InstallOf, Installs
  <2>6. CASE s = "qwen"
    BY <1>1, <2>6 DEF InstallOf, Installs, Wires
  <2>7. CASE s \in {"bash", "zsh"}
    BY <1>1, <2>7 DEF InstallOf, Installs, Wires
  <2> QED
    BY <2>1, <2>2, <2>3, <2>4, <2>5, <2>6, <2>7 DEF Clients
<1>3. UninstallOf(s) \in Programs(Unwires[s])
  <2>1. CASE s = "claude"
    BY <2>1, ClaudeUninstallIs DEF UninstallOf, Uninstalls
  <2>2. CASE s = "codex"
    BY <2>2, CodexUninstallIs DEF UninstallOf, Uninstalls
  <2>3. CASE s = "cursor"
    BY <2>3, CursorUninstallIs DEF UninstallOf, Uninstalls
  <2>4. CASE s = "copilot"
    BY <2>4, CopilotUninstallIs DEF UninstallOf, Uninstalls
  <2>5. CASE s = "opencode"
    BY <2>5, OpencodeUninstallIs DEF UninstallOf, Uninstalls
  <2>6. CASE s = "qwen"
    BY <1>1, <2>6 DEF UninstallOf, Uninstalls, Unwires
  <2>7. CASE s \in {"bash", "zsh"}
    BY <1>1, <2>7 DEF UninstallOf, Uninstalls, Unwires
  <2> QED
    BY <2>1, <2>2, <2>3, <2>4, <2>5, <2>6, <2>7 DEF Clients
<1> QED
  BY <1>2, <1>3

LEMMA ProgramOf ==
  ASSUME NEW s \in Clients, NEW v \in Verbs, NEW d
  PROVE  StepsOf(v, s, d) \in Programs(Written(v, s, d))
<1>1. CASE v = "unhook"
  <2>1. StepsOf(v, s, d) = UninstallOf(s) /\ Written(v, s, d) = Unwires[s]
    BY <1>1 DEF StepsOf, Written
  <2> QED
    BY <2>1, InstallsAre
<1>2. CASE v \in {"update", "fix"}
  <2>1. StepsOf(v, s, d) = RepairOf(s, d)
    BY <1>2 DEF StepsOf
  <2> QED
    BY <1>2, <2>1, InstallsAre, OnSettingsIs DEF RepairOf, Written
<1>3. CASE v = "settings" /\ s = "claude"
  <2>1. StepsOf(v, s, d) = OnSettings
    BY <1>3 DEF StepsOf
  <2>2. Written(v, s, d) = Rewires
    BY <1>3 DEF Written
  <2> QED
    BY <2>1, <2>2, OnSettingsIs
<1>4. CASE v = "hook" \/ (v = "settings" /\ s # "claude")
  <2>1. StepsOf(v, s, d) = InstallOf(s) /\ Written(v, s, d) = Wires[s]
    BY <1>4 DEF StepsOf, Written
  <2> QED
    BY <2>1, InstallsAre
<1> QED
  BY <1>1, <1>2, <1>3, <1>4 DEF Verbs

(* A program with its first write gone.                                    *)
LEMMA TailFacts ==
  ASSUME NEW p \in Seq(AnyStep), p # << >>, InOrderOf(p)
  PROVE  /\ Head(p) \in ToSet(p) /\ Head(p) \in AnyStep
         /\ Tail(p) \in Seq(AnyStep) /\ InOrderOf(Tail(p))
         /\ ToSet(Tail(p)) = ToSet(p) \ {Head(p)}
         /\ Len(p) = 1 => ToSet(p) = {Head(p)}
         /\ Len(p) # 1 => Tail(p) # << >>
         /\ \A a : <<a, Head(p)>> \in Before => a \notin ToSet(p)
<1> DEFINE n == Len(p)
           t == Tail(p)
<1>1. /\ n \in Nat \ {0} /\ DOMAIN p = 1..n /\ Head(p) = p[1] /\ \A i \in 1..n : p[i] \in AnyStep
      /\ t \in Seq(AnyStep) /\ Len(t) = n - 1 /\ DOMAIN t = 1..(n - 1) /\ \A i \in 1..(n - 1) : t[i] = p[i + 1]
  OBVIOUS
<1> HIDE DEF n, t
<1>2. n # 1 => t # << >>
  <2>1. Len(<< >>) = 0
    OBVIOUS
  <2> QED
    BY <1>1, <2>1
<1>3. ToSet(p) = {p[i] : i \in 1..n} /\ ToSet(t) = {t[i] : i \in 1..(n - 1)}
  BY <1>1 DEF ToSet
<1>4. \A i, j \in 1..n : i < j => p[i] # p[j] /\ <<p[j], p[i]>> \notin Before
  BY <1>1 DEF InOrderOf
<1>5. InOrderOf(t)
  <2>1. ASSUME NEW i \in 1..(n - 1), NEW j \in 1..(n - 1), i < j
        PROVE  t[i] # t[j] /\ <<t[j], t[i]>> \notin Before
    <3>1. i + 1 \in 1..n /\ j + 1 \in 1..n /\ i + 1 < j + 1
      BY <1>1, <2>1
    <3> QED
      BY <1>1, <1>4, <3>1
  <2> QED
    BY <1>1, <2>1 DEF InOrderOf
<1>6. ToSet(t) = ToSet(p) \ {p[1]}
  <2>1. ASSUME NEW i \in 1..(n - 1) PROVE t[i] \in ToSet(p) /\ t[i] # p[1]
    <3>1. i + 1 \in 1..n /\ 1 \in 1..n /\ 1 < i + 1
      BY <1>1, <2>1
    <3> QED
      BY <1>1, <1>3, <1>4, <3>1
  <2>2. ASSUME NEW i \in 1..n, p[i] # p[1] PROVE p[i] \in ToSet(t)
    <3>1. i - 1 \in 1..(n - 1) /\ (i - 1) + 1 = i
      BY <1>1, <2>2
    <3>2. t[i - 1] = p[i]
      BY <1>1, <3>1
    <3> QED
      BY <1>3, <3>1, <3>2
  <2> QED
    BY <1>3, <2>1, <2>2
<1>7. Head(p) \in ToSet(p) /\ Head(p) \in AnyStep
  <2>1. 1 \in 1..n
    BY <1>1
  <2> QED
    BY <1>1, <1>3, <2>1
<1>8. n = 1 => ToSet(p) = {Head(p)}
  <2>1. n = 1 => 1..n = {1}
    BY <1>1
  <2> QED
    BY <1>1, <1>3, <2>1
<1>9. ASSUME NEW a, <<a, p[1]>> \in Before PROVE a \notin ToSet(p)
  <2> SUFFICES ASSUME NEW i \in 1..n, p[i] = a PROVE FALSE
    BY <1>3
  <2>1. CASE i = 1
    <3>1. <<a, a>> \in Before
      BY <1>9, <2>1
    <3> QED
      BY <3>1 DEF Before
  <2>2. CASE i # 1
    <3>1. 1 \in 1..n /\ 1 < i
      BY <1>1, <2>2
    <3> QED
      BY <1>4, <1>9, <3>1
  <2> QED
    BY <2>1, <2>2
<1> QED
  BY <1>1, <1>2, <1>5, <1>6, <1>7, <1>8, <1>9 DEF n, t

(* Which clients a write is for, and what a program that has it has not.   *)
LEMMA WrittenFacts ==
  ASSUME NEW s \in Clients, NEW v \in Verbs, NEW f, NEW W, W = Written(v, s, f)
  PROVE  /\ "manifest" \in W \/ "hooks" \in W \/ "unplug" \in W => s \in Plugins
         /\ "skill" \in W => s \in Plugins \union {"opencode"}
         /\ "wire" \in W => s \in {"claude", "qwen"}
         /\ "strip" \in W => s \in {"claude", "qwen"}
         /\ "trystrip" \in W => s \in {"codex", "cursor"}
         /\ "list" \in W \/ "unlist" \in W => s \in {"codex", "copilot"}
         /\ "add" \in W => s = "codex" /\ "hooks" \in W
         /\ "load" \in W \/ "register" \in W \/ "unregister" \in W => s = "copilot"
         /\ s = "copilot" => "load" \in W
         /\ "script" \in W \/ "unscript" \in W => s = "opencode"
         /\ "rc" \in W \/ "unrc" \in W => s \in Shells
         /\ "unplug" \in W => {"manifest", "hooks", "skill"} \cap W = {}
         /\ "unskill" \in W => {"skill", "unplug"} \cap W = {}
         /\ "wire" \in W => {"strip", "trystrip"} \cap W = {}
         /\ "unlist" \in W => {"list", "register"} \cap W = {}
         /\ "unregister" \in W => "register" \notin W
         /\ "unscript" \in W => "script" \notin W
         /\ "unrc" \in W => "rc" \notin W
<1>1. CASE v = "unhook"
  <2>1. W = Unwires[s]
    BY <1>1 DEF Written
  <2> QED
    BY <2>1 DEF Clients, Plugins, Shells, Unwires
<1>2. CASE v # "unhook" /\ W = Wires[s]
  BY <1>2 DEF Clients, Plugins, Shells, Wires
<1>3. CASE v # "unhook" /\ W = Rewires /\ s = "claude"
  BY <1>3 DEF Clients, Plugins, Shells, Rewires
<1> QED
  BY <1>1, <1>2, <1>3 DEF Written

-----------------------------------------------------------------------------
(***************************************************************************)
(* Disks, file by file.                                                    *)
(***************************************************************************)
LEMMA FilesAre ==
  /\ None # Bad /\ None # Torn /\ Bad # Torn
  /\ \A x \in {None, Bad, Torn} :
       x \notin Texts /\ x \notin SettingsFiles /\ x \notin HooksFiles /\ x \notin Markets /\ x \notin Registries
  BY FilesAssumption

(* The files that a disk has are those of its client.                      *)
LEMMA DiskFiles ==
  ASSUME NEW s \in Clients, NEW d \in Disks(s)
  PROVE  /\ d.settings \in {None, Bad} \union SettingsFiles
         /\ d.settings # None => s \in {"claude", "codex", "cursor", "qwen"}
         /\ d.manifest \in {None, Torn, "ours"} /\ d.hooks \in {None, Torn} \union HooksFiles
         /\ s \notin Plugins => d.manifest = None /\ d.hooks = None
         /\ d.skill \in {None, "ours", "older"}
         /\ s \notin Plugins \union {"opencode"} => d.skill = None
         /\ d.relics \subseteq {"mcp", "skill", "mine"}
         /\ s = "claude" => d.relics \subseteq {"mcp", "skill"}
         /\ d.market \in {None, Bad} \union Markets
         /\ d.market # None => s \in {"codex", "copilot"}
         /\ d.registry \in {Bad} \union Registries
         /\ s # "copilot" => d.registry = Bare.registry
         /\ d.cache \in {None} \union HooksFiles /\ (d.cache # None => s = "codex")
         /\ d.script \in {None, Torn, "ours", "older", "dead", "theirs"}
         /\ d.script # None => s = "opencode"
         /\ d.rc \in Seq(Lines(s)) /\ (s \notin Shells => d.rc = << >>)
<1>1. d.settings \in For(s, {"claude", "codex", "cursor", "qwen"}, {None, Bad} \union SettingsFiles, None)
  BY DEF Disks
<1>2. /\ d.manifest \in For(s, Plugins, {None, Torn, "ours"}, None)
      /\ d.hooks \in For(s, Plugins, {None, Torn} \union HooksFiles, None)
      /\ d.skill \in For(s, Plugins \union {"opencode"}, {None, "ours", "older"}, None)
  BY DEF Disks
<1>3. d.relics \in SUBSET (IF s = "claude" THEN {"mcp", "skill"} ELSE {"mcp", "skill", "mine"})
  BY DEF Disks
<1>4. /\ d.market \in For(s, {"codex", "copilot"}, {None, Bad} \union Markets, None)
      /\ d.registry \in For(s, {"copilot"}, {Bad} \union Registries, Bare.registry)
      /\ d.cache \in For(s, {"codex"}, {None} \union HooksFiles, None)
  BY DEF Disks
<1>5. /\ d.script \in For(s, {"opencode"}, {None, Torn, "ours", "older", "dead", "theirs"}, None)
      /\ d.rc \in For(s, Shells, Seq(Lines(s)), << >>)
  BY DEF Disks
<1>6. Bare.registry \in Registries
  BY DEF Bare, Registries
<1>7. << >> \in Seq(Lines(s))
  OBVIOUS
<1> QED
  BY <1>1, <1>2, <1>3, <1>4, <1>5, <1>6, <1>7 DEF For

(* A disk with one of its files written is a disk of its client.           *)
LEMMA DiskWith ==
  ASSUME NEW s \in Clients, NEW d \in Disks(s), NEW x
  PROVE  /\ s \in {"claude", "codex", "cursor", "qwen"} /\ x \in {None, Bad} \union SettingsFiles
              => [d EXCEPT !.settings = x] \in Disks(s)
         /\ s \in Plugins /\ x \in {None, Torn, "ours"} => [d EXCEPT !.manifest = x] \in Disks(s)
         /\ s \in Plugins /\ x \in {None, Torn} \union HooksFiles => [d EXCEPT !.hooks = x] \in Disks(s)
         /\ s \in Plugins \union {"opencode"} /\ x \in {None, "ours", "older"}
              => [d EXCEPT !.skill = x] \in Disks(s)
         /\ x \subseteq d.relics => [d EXCEPT !.relics = x] \in Disks(s)
         /\ s \in {"codex", "copilot"} /\ x \in {None, Bad} \union Markets
              => [d EXCEPT !.market = x] \in Disks(s)
         /\ s = "copilot" /\ x \in {Bad} \union Registries => [d EXCEPT !.registry = x] \in Disks(s)
         /\ s = "codex" /\ x \in {None} \union HooksFiles => [d EXCEPT !.cache = x] \in Disks(s)
         /\ s = "opencode" /\ x \in {None, Torn, "ours", "older", "dead", "theirs"}
              => [d EXCEPT !.script = x] \in Disks(s)
         /\ s \in Shells /\ x \in Seq(Lines(s)) => [d EXCEPT !.rc = x] \in Disks(s)
<1>1. ASSUME s \in {"claude", "codex", "cursor", "qwen"}, x \in {None, Bad} \union SettingsFiles
      PROVE  [d EXCEPT !.settings = x] \in Disks(s)
  <2>1. x \in For(s, {"claude", "codex", "cursor", "qwen"}, {None, Bad} \union SettingsFiles, None)
    BY <1>1 DEF For
  <2> QED
    BY <2>1 DEF Disks
<1>2. ASSUME s \in Plugins, x \in {None, Torn, "ours"} PROVE [d EXCEPT !.manifest = x] \in Disks(s)
  <2>1. x \in For(s, Plugins, {None, Torn, "ours"}, None)
    BY <1>2 DEF For
  <2> QED
    BY <2>1 DEF Disks
<1>3. ASSUME s \in Plugins, x \in {None, Torn} \union HooksFiles PROVE [d EXCEPT !.hooks = x] \in Disks(s)
  <2>1. x \in For(s, Plugins, {None, Torn} \union HooksFiles, None)
    BY <1>3 DEF For
  <2> QED
    BY <2>1 DEF Disks
<1>4. ASSUME s \in Plugins \union {"opencode"}, x \in {None, "ours", "older"}
      PROVE  [d EXCEPT !.skill = x] \in Disks(s)
  <2>1. x \in For(s, Plugins \union {"opencode"}, {None, "ours", "older"}, None)
    BY <1>4 DEF For
  <2> QED
    BY <2>1 DEF Disks
<1>5. ASSUME x \subseteq d.relics PROVE [d EXCEPT !.relics = x] \in Disks(s)
  <2>1. d.relics \in SUBSET (IF s = "claude" THEN {"mcp", "skill"} ELSE {"mcp", "skill", "mine"})
    BY DEF Disks
  <2>2. x \in SUBSET (IF s = "claude" THEN {"mcp", "skill"} ELSE {"mcp", "skill", "mine"})
    BY <1>5, <2>1
  <2> QED
    BY <2>2 DEF Disks
<1>6. ASSUME s \in {"codex", "copilot"}, x \in {None, Bad} \union Markets
      PROVE  [d EXCEPT !.market = x] \in Disks(s)
  <2>1. x \in For(s, {"codex", "copilot"}, {None, Bad} \union Markets, None)
    BY <1>6 DEF For
  <2> QED
    BY <2>1 DEF Disks
<1>7. ASSUME s = "copilot", x \in {Bad} \union Registries PROVE [d EXCEPT !.registry = x] \in Disks(s)
  <2>1. x \in For(s, {"copilot"}, {Bad} \union Registries, Bare.registry)
    BY <1>7 DEF For
  <2> QED
    BY <2>1 DEF Disks
<1>8. ASSUME s = "codex", x \in {None} \union HooksFiles PROVE [d EXCEPT !.cache = x] \in Disks(s)
  <2>1. x \in For(s, {"codex"}, {None} \union HooksFiles, None)
    BY <1>8 DEF For
  <2> QED
    BY <2>1 DEF Disks
<1>9. ASSUME s = "opencode", x \in {None, Torn, "ours", "older", "dead", "theirs"}
      PROVE  [d EXCEPT !.script = x] \in Disks(s)
  <2>1. x \in For(s, {"opencode"}, {None, Torn, "ours", "older", "dead", "theirs"}, None)
    BY <1>9 DEF For
  <2> QED
    BY <2>1 DEF Disks
<1>10. ASSUME s \in Shells, x \in Seq(Lines(s)) PROVE [d EXCEPT !.rc = x] \in Disks(s)
  <2>1. x \in For(s, Shells, Seq(Lines(s)), << >>)
    BY <1>10 DEF For
  <2> QED
    BY <2>1 DEF Disks
<1> QED
  BY <1>1, <1>2, <1>3, <1>4, <1>5, <1>6, <1>7, <1>8, <1>9, <1>10

-----------------------------------------------------------------------------
(***************************************************************************)
(* The merge engine of the settings files.                                 *)
(***************************************************************************)

(* The commands of an event that are not fufu's.                           *)
Foreign(s, entries) == {entry \ OursIn(s) : entry \in entries} \ {{}}

LEMMA TableIs == ASSUME NEW s PROVE TableOf(s) \subseteq Events /\ Required \subseteq TableOf(s)
  BY DEF TableOf, Required, Events

LEMMA WiredIs ==
  ASSUME NEW s, NEW file
  PROVE  /\ WiredEvents(s, file) \subseteq TableOf(s)
         /\ file \in SettingsFiles =>
              \A e \in TableOf(s) : e \in WiredEvents(s, file) <=> \E entry \in file[e] : EntryIsOurs(s, entry)
         /\ WiredEvents(s, None) = {} /\ WiredEvents(s, Bad) = {}
         /\ file \in SettingsFiles => Readable(file)
  BY FilesAre DEF WiredEvents, Readable

LEMMA UpgradeFacts ==
  ASSUME NEW s, NEW entry \in SUBSET Commands
  PROVE  /\ Upgrade(s, entry) \in SUBSET Commands
         /\ Upgrade(s, entry) \ OursIn(s) = entry \ OursIn(s)
         /\ EntryIsOurs(s, entry) => EntryIsOurs(s, Upgrade(s, entry))
         /\ s = "claude" => "old" \notin Upgrade(s, entry)
<1>1. CASE s = "claude" /\ "old" \in entry
  <2>1. Upgrade(s, entry) = (entry \ {"old"}) \union {"now"} /\ OursIn(s) = {"now", "old"}
    BY <1>1 DEF Upgrade, OursIn
  <2> QED
    BY <1>1, <2>1 DEF Commands, EntryIsOurs
<1>2. CASE ~(s = "claude" /\ "old" \in entry)
  <2>1. Upgrade(s, entry) = entry
    BY <1>2 DEF Upgrade
  <2> QED
    BY <1>2, <2>1
<1> QED
  BY <1>1, <1>2

(* Installing, one event.                                                  *)
Installed(s, before, e) ==
  IF e \notin TableOf(s) THEN before[e]
  ELSE LET risen == {Upgrade(s, entry) : entry \in before[e]}
       IN  IF \E entry \in risen : EntryIsOurs(s, entry) THEN risen ELSE risen \union {{"now"}}

LEMMA InstalledFacts ==
  ASSUME NEW s, NEW before \in SettingsFiles, NEW e \in Events
  PROVE  /\ Installed(s, before, e) \in SUBSET SUBSET Commands
         /\ Foreign(s, Installed(s, before, e)) = Foreign(s, before[e])
         /\ e \in TableOf(s) => \E entry \in Installed(s, before, e) : EntryIsOurs(s, entry)
         /\ s = "claude" /\ e \in TableOf(s) => \A entry \in Installed(s, before, e) : "old" \notin entry
<1> DEFINE risen == {Upgrade(s, entry) : entry \in before[e]}
<1>1. before[e] \in SUBSET SUBSET Commands
  BY DEF SettingsFiles
<1>2. \A entry \in before[e] :
        /\ Upgrade(s, entry) \in SUBSET Commands
        /\ Upgrade(s, entry) \ OursIn(s) = entry \ OursIn(s)
        /\ s = "claude" => "old" \notin Upgrade(s, entry)
  BY <1>1, UpgradeFacts
<1>3. CASE e \notin TableOf(s)
  BY <1>1, <1>3 DEF Installed
<1>4. CASE e \in TableOf(s) /\ \E entry \in risen : EntryIsOurs(s, entry)
  <2>1. Installed(s, before, e) = risen
    BY <1>4 DEF Installed
  <2>2. risen \in SUBSET SUBSET Commands
    BY <1>2
  <2>3. Foreign(s, risen) = Foreign(s, before[e])
    BY <1>2 DEF Foreign
  <2>4. s = "claude" => \A entry \in risen : "old" \notin entry
    BY <1>2
  <2> HIDE DEF risen
  <2> QED
    BY <1>4, <2>1, <2>2, <2>3, <2>4
<1>5. CASE e \in TableOf(s) /\ ~\E entry \in risen : EntryIsOurs(s, entry)
  <2>1. Installed(s, before, e) = risen \union {{"now"}}
    BY <1>5 DEF Installed
  <2>2. risen \in SUBSET SUBSET Commands /\ {"now"} \in SUBSET Commands
    BY <1>2 DEF Commands
  <2>3. Foreign(s, risen) = Foreign(s, before[e])
    BY <1>2 DEF Foreign
  <2>4. s = "claude" => \A entry \in risen : "old" \notin entry
    BY <1>2
  <2>5. EntryIsOurs(s, {"now"}) /\ "old" \notin {"now"} /\ {"now"} \ OursIn(s) = {}
    BY DEF EntryIsOurs, OursIn
  <2> HIDE DEF risen
  <2>6. Foreign(s, risen \union {{"now"}}) = Foreign(s, risen)
    BY <2>5 DEF Foreign
  <2> QED
    BY <1>5, <2>1, <2>2, <2>3, <2>4, <2>5, <2>6
<1> QED
  BY <1>3, <1>4, <1>5

LEMMA HooklessIs == Hookless \in SettingsFiles /\ \A e \in Events : Hookless[e] = {}
  BY DEF Hookless, SettingsFiles

(* What an install of the settings engine leaves.                          *)
LEMMA SettingsInstallFacts ==
  ASSUME NEW s, NEW file \in {None} \union SettingsFiles
  PROVE  /\ SettingsInstall(s, file) \in SettingsFiles
         /\ TableOf(s) \subseteq WiredEvents(s, SettingsInstall(s, file))
         /\ ~SettingsStale(s, SettingsInstall(s, file))
         /\ \A e \in Events : Foreign(s, SettingsInstall(s, file)[e])
                                = IF file = None THEN {} ELSE Foreign(s, file[e])
<1> DEFINE before == IF file = None THEN Hookless ELSE file
           after == SettingsInstall(s, file)
<1>1. before \in SettingsFiles
  BY HooklessIs
<1>2. after = [e \in Events |-> Installed(s, before, e)]
  BY Zenon DEF SettingsInstall, Installed
<1>3. \A e \in Events : Foreign(s, before[e]) = IF file = None THEN {} ELSE Foreign(s, file[e])
  <2>1. Foreign(s, {}) = {}
    BY DEF Foreign
  <2> QED
    BY <2>1, HooklessIs
<1> HIDE DEF before, after
<1>4. \A e \in Events : /\ after[e] = Installed(s, before, e)
                        /\ after[e] \in SUBSET SUBSET Commands
                        /\ Foreign(s, after[e]) = Foreign(s, before[e])
                        /\ e \in TableOf(s) => \E entry \in after[e] : EntryIsOurs(s, entry)
                        /\ s = "claude" /\ e \in TableOf(s) => \A entry \in after[e] : "old" \notin entry
  BY <1>1, <1>2, InstalledFacts
<1>5. after \in SettingsFiles
  BY <1>2, <1>4 DEF SettingsFiles
<1>6. TableOf(s) \subseteq WiredEvents(s, after)
  BY <1>4, <1>5, WiredIs, TableIs
<1>7. ~SettingsStale(s, after)
  BY <1>4, <1>6, TableIs DEF SettingsStale
<1> QED
  BY <1>3, <1>4, <1>5, <1>6, <1>7 DEF after

(* What an uninstall of it leaves.                                         *)
LEMMA SettingsUninstallFacts ==
  ASSUME NEW s, NEW file \in {None, Bad} \union SettingsFiles
  PROVE  /\ SettingsUninstall(s, file) \in {None, Bad} \union SettingsFiles
         /\ file \in {None, Bad} => SettingsUninstall(s, file) = file
         /\ file \in SettingsFiles => SettingsUninstall(s, file) \in SettingsFiles
         /\ WiredEvents(s, SettingsUninstall(s, file)) = {}
         /\ file \in SettingsFiles =>
              \A e \in Events : Foreign(s, SettingsUninstall(s, file)[e]) = Foreign(s, file[e])
<1>1. CASE file \in {None, Bad}
  <2>1. SettingsUninstall(s, file) = file
    BY <1>1 DEF SettingsUninstall, Readable
  <2> QED
    BY <1>1, <2>1, WiredIs, FilesAre
<1>2. CASE file \in SettingsFiles
  <2> DEFINE after == SettingsUninstall(s, file)
  <2>1. after = WithoutOurs(s, file)
    BY <1>2, WiredIs DEF SettingsUninstall
  <2>2. /\ after = [e \in Events |-> IF e \notin TableOf(s) THEN file[e] ELSE Foreign(s, file[e])]
        /\ \A e \in Events : file[e] \in SUBSET SUBSET Commands
    BY <1>2, <2>1, Zenon DEF WithoutOurs, Foreign, SettingsFiles
  <2> HIDE DEF after
  <2>3. ASSUME NEW e \in Events
        PROVE  /\ Foreign(s, file[e]) \in SUBSET SUBSET Commands
               /\ Foreign(s, Foreign(s, file[e])) = Foreign(s, file[e])
               /\ \A entry \in Foreign(s, file[e]) : ~EntryIsOurs(s, entry)
    <3>1. file[e] \in SUBSET SUBSET Commands
      BY <2>2
    <3>2. \A entry \in Foreign(s, file[e]) : entry # {} /\ entry \cap OursIn(s) = {} /\ entry \ OursIn(s) = entry
      BY DEF Foreign
    <3>3. Foreign(s, Foreign(s, file[e])) = {entry \ OursIn(s) : entry \in Foreign(s, file[e])} \ {{}}
      BY Zenon DEF Foreign
    <3>4. {entry \ OursIn(s) : entry \in Foreign(s, file[e])} = Foreign(s, file[e])
      <4> DEFINE F == Foreign(s, file[e])
      <4>1. \A entry \in F : entry \ OursIn(s) = entry
        BY <3>2
      <4> HIDE DEF F
      <4>2. ASSUME NEW entry \in F
            PROVE  entry \ OursIn(s) \in F /\ entry \in {x \ OursIn(s) : x \in F}
        <5>1. entry \ OursIn(s) = entry
          BY <4>1
        <5>2. entry \ OursIn(s) \in {x \ OursIn(s) : x \in F}
          BY Zenon
        <5> QED
          BY <5>1, <5>2
      <4>3. {entry \ OursIn(s) : entry \in F} = F
        BY ONLY <4>2, Zenon
      <4> QED
        BY <4>3 DEF F
    <3>5. Foreign(s, file[e]) \in SUBSET SUBSET Commands
      BY <3>1 DEF Foreign
    <3>6. Foreign(s, file[e]) \ {{}} = Foreign(s, file[e])
      BY <3>2
    <3> QED
      BY <3>2, <3>3, <3>4, <3>5, <3>6 DEF EntryIsOurs
  <2>4. after \in SettingsFiles
    BY <2>2, <2>3 DEF SettingsFiles
  <2>5. WiredEvents(s, after) = {}
    <3>1. ASSUME NEW e \in TableOf(s) PROVE e \notin WiredEvents(s, after)
      <4>1. e \in Events /\ after[e] = Foreign(s, file[e])
        BY <2>2, <3>1, TableIs
      <4> QED
        BY <2>3, <2>4, <4>1, WiredIs
    <3> QED
      BY <3>1, WiredIs
  <2>6. \A e \in Events : Foreign(s, after[e]) = Foreign(s, file[e])
    BY <2>2, <2>3
  <2> QED
    BY <1>2, <2>4, <2>5, <2>6, FilesAre DEF after
<1> QED
  BY <1>1, <1>2

-----------------------------------------------------------------------------
(***************************************************************************)
(* The lines of an rc file.                                                *)
(***************************************************************************)
LEMMA AppendOneIs ==
  ASSUME NEW s
  PROVE  \A p \in Seq(Lines(s)) : \A x \in Lines(s) :
           p \o <<x>> = Append(p, x) /\ ToSet(Append(p, x)) = ToSet(p) \union {x}
<1> DEFINE S == Lines(s)
<1> HIDE DEF S
<1> SUFFICES ASSUME NEW p \in Seq(S), NEW x \in S
             PROVE  p \o <<x>> = Append(p, x) /\ ToSet(Append(p, x)) = ToSet(p) \union {x}
  BY DEF S
<1>1. p \o <<x>> = Append(p, x)
  <2>1. <<x>> \in Seq(S) /\ Len(<<x>>) = 1 /\ <<x>>[1] = x
    OBVIOUS
  <2>2. p \o <<x>> \in Seq(S) /\ Append(p, x) \in Seq(S)
    BY <2>1
  <2>3. Len(p \o <<x>>) = Len(p) + 1 /\ Len(Append(p, x)) = Len(p) + 1
    BY <2>1
  <2>4. \A i \in 1..(Len(p) + 1) : (p \o <<x>>)[i] = Append(p, x)[i]
    OBVIOUS
  <2> QED
    BY <2>2, <2>3, <2>4, SeqEqual
<1>2. ToSet(Append(p, x)) = ToSet(p) \union {x}
  <2> DEFINE n == Len(p)
             q == Append(p, x)
  <2>1. /\ n \in Nat /\ DOMAIN p = 1..n /\ DOMAIN q = 1..(n + 1)
        /\ q[n + 1] = x /\ \A i \in 1..n : q[i] = p[i]
    OBVIOUS
  <2> HIDE DEF n, q
  <2>2. \A i \in 1..(n + 1) : i \in 1..n \/ i = n + 1
    BY <2>1
  <2>3. n + 1 \in 1..(n + 1) /\ \A i \in 1..n : i \in 1..(n + 1)
    BY <2>1
  <2>4. ToSet(q) = ToSet(p) \union {x}
    BY <2>1, <2>2, <2>3 DEF ToSet
  <2> QED
    BY <2>4 DEF q
<1> QED
  BY <1>1, <1>2

LEMMA AppendIs ==
  ASSUME NEW S, NEW p \in Seq(S), NEW x \in S, NEW y \in S
  PROVE  p \o << >> = p /\ p \o <<x, y>> = Append(Append(p, x), y)
<1>1. p \o << >> = p
  OBVIOUS
<1>2. p \o <<x, y>> = Append(Append(p, x), y)
  <2>1. <<x, y>> \in Seq(S) /\ Len(<<x, y>>) = 2 /\ <<x, y>>[1] = x /\ <<x, y>>[2] = y
    OBVIOUS
  <2>2. p \o <<x, y>> \in Seq(S) /\ Append(Append(p, x), y) \in Seq(S)
    BY <2>1
  <2>3. Len(p \o <<x, y>>) = Len(p) + 2 /\ Len(Append(Append(p, x), y)) = Len(p) + 2
    BY <2>1
  <2>4. \A i \in 1..(Len(p) + 2) : (p \o <<x, y>>)[i] = Append(Append(p, x), y)[i]
    OBVIOUS
  <2> QED
    BY <2>2, <2>3, <2>4, SeqEqual
<1> QED
  BY <1>1, <1>2

LEMMA LinesAre ==
  ASSUME NEW s
  PROVE  \A l \in Lines(s) :
           /\ l.mark \in {"no", "old", "now"} /\ (Marked(l) <=> l \notin PlainLines)
           /\ Marked(l) => l.says \in Says(s)
           /\ UpgradeLine(l) \in Lines(s)
           /\ ~Marked(l) => UpgradeLine(l) = l
           /\ Marked(l) => /\ Marked(UpgradeLine(l)) /\ ~Outdated(UpgradeLine(l))
                           /\ UpgradeLine(l).says = IF l.says = "oldtrigger" THEN "trigger" ELSE l.says
<1> SUFFICES ASSUME NEW l \in Lines(s)
             PROVE  /\ l.mark \in {"no", "old", "now"} /\ (Marked(l) <=> l \notin PlainLines)
                    /\ Marked(l) => l.says \in Says(s)
                    /\ UpgradeLine(l) \in Lines(s)
                    /\ ~Marked(l) => UpgradeLine(l) = l
                    /\ Marked(l) => /\ Marked(UpgradeLine(l)) /\ ~Outdated(UpgradeLine(l))
                                    /\ UpgradeLine(l).says = IF l.says = "oldtrigger" THEN "trigger" ELSE l.says
  BY Zenon
<1>1. CASE l \in PlainLines
  <2>1. l.mark = "no" /\ ~Marked(l)
    BY <1>1 DEF PlainLines, Marked
  <2>2. UpgradeLine(l) = l
    BY <2>1 DEF UpgradeLine
  <2> QED
    BY <1>1, <2>1, <2>2
<1>2. CASE l \in [mark : {"old", "now"}, says : Says(s)]
  <2>1. l.mark \in {"old", "now"} /\ l.says \in Says(s) /\ Marked(l)
    BY <1>2 DEF Marked
  <2>2. l \notin PlainLines
    BY <2>1 DEF PlainLines
  <2> DEFINE to == IF l.says = "oldtrigger" THEN "trigger" ELSE l.says
  <2>3. UpgradeLine(l) = [mark |-> "now", says |-> to]
    BY <2>1 DEF UpgradeLine
  <2>4. to \in Says(s) /\ to # "oldtrigger"
    BY <2>1 DEF Says
  <2>5. UpgradeLine(l) \in Lines(s)
    BY <2>3, <2>4 DEF Lines
  <2>6. UpgradeLine(l).mark = "now" /\ UpgradeLine(l).says = to
    BY <2>3
  <2> QED
    BY <2>1, <2>2, <2>4, <2>5, <2>6 DEF Marked, Outdated
<1> QED
  BY <1>1, <1>2 DEF Lines

Risen(rc) == [i \in DOMAIN rc |-> UpgradeLine(rc[i])]

LEMMA RisenFacts ==
  ASSUME NEW s, NEW rc \in Seq(Lines(s))
  PROVE  /\ Risen(rc) \in Seq(Lines(s))
         /\ ToSet(rc) \subseteq Lines(s)
         /\ ToSet(Risen(rc)) = {UpgradeLine(l) : l \in ToSet(rc)}
         /\ Unmarked(Risen(rc)) = Unmarked(rc)
<1> DEFINE n == Len(rc)
           risen == Risen(rc)
<1>1. n \in Nat /\ DOMAIN rc = 1..n /\ \A i \in 1..n : rc[i] \in Lines(s)
  OBVIOUS
<1>2. /\ risen = [i \in 1..n |-> UpgradeLine(rc[i])]
      /\ \A i \in 1..n : risen[i] = UpgradeLine(rc[i]) /\ risen[i] \in Lines(s)
  BY <1>1, LinesAre DEF Risen
<1> HIDE DEF n, risen
<1>3. risen \in Seq(Lines(s)) /\ Len(risen) = n /\ DOMAIN risen = 1..n
  <2>1. risen \in [1..n -> Lines(s)]
    BY <1>2
  <2>2. risen \in Seq(Lines(s))
    BY <1>1, <2>1, SeqDef
  <2>3. DOMAIN risen = 1..n
    BY <1>2
  <2>4. Len(risen) \in Nat /\ DOMAIN risen = 1..Len(risen)
    BY <2>2, LenProperties
  <2> QED
    BY <1>1, <2>2, <2>3, <2>4
<1>4. ToSet(rc) = {rc[i] : i \in 1..n} /\ ToSet(risen) = {risen[i] : i \in 1..n}
  BY <1>1, <1>3 DEF ToSet
<1>5. ToSet(rc) \subseteq Lines(s)
  BY <1>1, <1>4
<1>6. ToSet(risen) = {UpgradeLine(l) : l \in ToSet(rc)}
  BY <1>2, <1>4
<1>7. Unmarked(risen) = Unmarked(rc)
  <2>1. \A i \in 1..n : (rc[i] \in PlainLines \/ risen[i] \in PlainLines) => rc[i] = risen[i]
    <3>1. ASSUME NEW l \in Lines(s), l \in PlainLines \/ UpgradeLine(l) \in PlainLines
          PROVE  l = UpgradeLine(l)
      BY <3>1, LinesAre
    <3> QED
      BY <1>1, <1>2, <3>1
  <2>2. n = Len(rc) /\ Len(rc) = Len(risen)
    BY <1>3 DEF n
  <2> QED
    BY <1>3, <2>1, <2>2, OnlyOf DEF Unmarked
<1> QED
  BY <1>3, <1>5, <1>6, <1>7 DEF risen

LEMMA UpgradedWiring ==
  ASSUME NEW s, NEW lines \in SUBSET Lines(s)
  PROVE  LET risen == {UpgradeLine(l) : l \in lines}
         IN  /\ AliasWiring(risen) = AliasWiring(lines)
             /\ AmbientWiring(risen) = AmbientWiring(lines)
             /\ \A l \in risen : ~Outdated(l)
<1> DEFINE risen == {UpgradeLine(l) : l \in lines}
<1>1. \A l \in lines : /\ Marked(l) <=> Marked(UpgradeLine(l))
                       /\ l.says = "alias" <=> UpgradeLine(l).says = "alias"
                       /\ NamesTrigger(l) <=> NamesTrigger(UpgradeLine(l))
                       /\ l.says = "calls" <=> UpgradeLine(l).says = "calls"
                       /\ ~Outdated(UpgradeLine(l))
  <2> SUFFICES ASSUME NEW l \in lines
               PROVE  /\ Marked(l) <=> Marked(UpgradeLine(l))
                      /\ l.says = "alias" <=> UpgradeLine(l).says = "alias"
                      /\ NamesTrigger(l) <=> NamesTrigger(UpgradeLine(l))
                      /\ l.says = "calls" <=> UpgradeLine(l).says = "calls"
                      /\ ~Outdated(UpgradeLine(l))
    OBVIOUS
  <2>1. l \in Lines(s)
    OBVIOUS
  <2>2. CASE Marked(l)
    BY <2>1, <2>2, LinesAre DEF NamesTrigger
  <2>3. CASE ~Marked(l)
    <3>1. UpgradeLine(l) = l
      BY <2>1, <2>3, LinesAre
    <3> QED
      BY <2>3, <3>1 DEF Outdated
  <2> QED
    BY <2>2, <2>3
<1>2. AliasWiring(risen) = AliasWiring(lines)
  BY <1>1 DEF AliasWiring
<1>3. AmbientWiring(risen) = AmbientWiring(lines)
  BY <1>1 DEF AmbientWiring
<1> QED
  BY <1>1, <1>2, <1>3

LEMMA SayMore ==
  ASSUME NEW s, NEW p \in Seq(Lines(s)), NEW says, Line(says) \in Lines(s)
  PROVE  /\ Append(p, Line(says)) \in Seq(Lines(s)) /\ p \o <<Line(says)>> = Append(p, Line(says))
         /\ ToSet(Append(p, Line(says))) = ToSet(p) \union {Line(says)}
         /\ Unmarked(Append(p, Line(says))) = Unmarked(p)
<1> DEFINE x == Line(says)
<1>1. x \notin PlainLines
  BY DEF Line, PlainLines
<1>2. x \in Lines(s)
  OBVIOUS
<1> HIDE DEF x
<1>3. p \o <<x>> = Append(p, x) /\ ToSet(Append(p, x)) = ToSet(p) \union {x}
  <2>1. p \in Seq(Lines(s))
    OBVIOUS
  <2> QED
    BY <1>2, <2>1, AppendOneIs, ZenonT(60)
<1>4. Unmarked(Append(p, x)) = Unmarked(p)
  BY <1>1, <1>2, OnlyAppend DEF Unmarked
<1>5. Append(p, x) \in Seq(Lines(s))
  BY <1>2
<1> QED
  BY <1>3, <1>4, <1>5 DEF x

(* What `ff hook` leaves of an rc file.                                    *)
SaysMarked(lines, says) == \E l \in lines : Marked(l) /\ l.says = says

LEMMA RcInstallFacts ==
  ASSUME NEW s \in Shells, NEW rc \in Seq(Lines(s))
  PROVE  /\ RcInstall(s, rc) \in Seq(Lines(s))
         /\ Unmarked(RcInstall(s, rc)) = Unmarked(rc)
         /\ \A l \in ToSet(rc) : UpgradeLine(l) \in ToSet(RcInstall(s, rc))
         /\ \A l \in ToSet(RcInstall(s, rc)) : ~Outdated(l)
         /\ AliasWiring(ToSet(rc)) = "no" => SaysMarked(ToSet(RcInstall(s, rc)), "alias")
         /\ AmbientWiring(ToSet(rc)) = "no" =>
              \A says \in IF s = "zsh" THEN {"function", "calls"} ELSE {"trigger"} :
                SaysMarked(ToSet(RcInstall(s, rc)), says)
<1> DEFINE L == ToSet(rc)
           r == Risen(rc)
           a == IF AliasWiring(L) = "no" THEN Append(r, Line("alias")) ELSE r
           b == IF AmbientWiring(L) = "no"
                THEN IF s = "zsh" THEN Append(Append(a, Line("function")), Line("calls"))
                     ELSE Append(a, Line("trigger"))
                ELSE a
<1>1. /\ r \in Seq(Lines(s)) /\ L \in SUBSET Lines(s) /\ ToSet(r) = {UpgradeLine(l) : l \in L}
      /\ Unmarked(r) = Unmarked(rc)
  BY RisenFacts
<1>2. AliasWiring(ToSet(r)) = AliasWiring(L) /\ AmbientWiring(ToSet(r)) = AmbientWiring(L)
      /\ \A l \in ToSet(r) : ~Outdated(l)
  BY <1>1, UpgradedWiring
<1>3. /\ Line("alias") \in Lines(s)
      /\ s = "zsh" => Line("function") \in Lines(s) /\ Line("calls") \in Lines(s)
      /\ s # "zsh" => Line("trigger") \in Lines(s)
  BY DEF Line, Lines, Says
<1>4. \A says \in {"alias", "function", "calls", "trigger"} :
        Marked(Line(says)) /\ Line(says).says = says /\ ~Outdated(Line(says)) /\ Line(says) \notin PlainLines
  BY DEF Line, Marked, Outdated, PlainLines
<1>5. RcInstall(s, rc) = (r \o (IF AliasWiring(L) = "no" THEN <<Line("alias")>> ELSE << >>))
                           \o (IF AmbientWiring(L) = "no" THEN AmbientLines(s) ELSE << >>)
  BY <1>2, Zenon DEF RcInstall, Risen
<1> HIDE DEF L, r
<1>6. a \in Seq(Lines(s)) /\ r \o (IF AliasWiring(L) = "no" THEN <<Line("alias")>> ELSE << >>) = a
  <2>1. CASE AliasWiring(L) = "no"
    <3>1. r \o <<Line("alias")>> = Append(r, Line("alias")) /\ Append(r, Line("alias")) \in Seq(Lines(s))
      BY <1>1, <1>3, AppendOneIs
    <3> QED
      BY <2>1, <3>1
  <2>2. CASE AliasWiring(L) # "no"
    <3>1. r \o << >> = r
      BY <1>1
    <3> QED
      BY <1>1, <2>2, <3>1
  <2> QED
    BY <2>1, <2>2
<1>7. /\ ToSet(r) \subseteq ToSet(a) /\ Unmarked(a) = Unmarked(r) /\ \A l \in ToSet(a) : ~Outdated(l)
      /\ AliasWiring(L) = "no" => SaysMarked(ToSet(a), "alias")
  <2>1. CASE AliasWiring(L) = "no"
    <3>0. a = Append(r, Line("alias"))
      BY <2>1
    <3> HIDE DEF a
    <3>1. ToSet(a) = ToSet(r) \union {Line("alias")}
      BY <1>1, <1>3, <3>0, SayMore
    <3>2. Unmarked(a) = Unmarked(r)
      BY <1>1, <1>3, <3>0, SayMore
    <3> QED
      BY <1>2, <1>4, <3>1, <3>2 DEF SaysMarked
  <2>2. CASE AliasWiring(L) # "no"
    BY <1>2, <2>2
  <2> QED
    BY <2>1, <2>2
<1> HIDE DEF a
<1>8. b \in Seq(Lines(s)) /\ RcInstall(s, rc) = b
  <2>1. CASE AmbientWiring(L) = "no" /\ s = "zsh"
    <3>1. AmbientLines(s) = <<Line("function"), Line("calls")>>
      BY <2>1 DEF AmbientLines
    <3>2. a \o <<Line("function"), Line("calls")>> = Append(Append(a, Line("function")), Line("calls"))
      BY <1>3, <1>6, <2>1, AppendIs
    <3>3. Append(Append(a, Line("function")), Line("calls")) \in Seq(Lines(s))
      BY <1>3, <1>6, <2>1
    <3> QED
      BY <1>5, <1>6, <2>1, <3>1, <3>2, <3>3, Zenon
  <2>2. CASE AmbientWiring(L) = "no" /\ s # "zsh"
    <3>1. AmbientLines(s) = <<Line("trigger")>>
      BY <2>2 DEF AmbientLines
    <3>2. a \o <<Line("trigger")>> = Append(a, Line("trigger"))
      BY <1>3, <1>6, <2>2, AppendOneIs
    <3>3. Append(a, Line("trigger")) \in Seq(Lines(s))
      BY <1>3, <1>6, <2>2
    <3> QED
      BY <1>5, <1>6, <2>2, <3>1, <3>2, <3>3, Zenon
  <2>3. CASE AmbientWiring(L) # "no"
    <3>1. a \o << >> = a
      BY <1>6
    <3> QED
      BY <1>5, <1>6, <2>3, <3>1, Zenon
  <2> QED
    BY <2>1, <2>2, <2>3
<1>9. /\ ToSet(a) \subseteq ToSet(b) /\ Unmarked(b) = Unmarked(a) /\ \A l \in ToSet(b) : ~Outdated(l)
      /\ AmbientWiring(L) = "no" =>
           \A says \in IF s = "zsh" THEN {"function", "calls"} ELSE {"trigger"} : SaysMarked(ToSet(b), says)
  <2>1. CASE AmbientWiring(L) = "no" /\ s = "zsh"
    <3> DEFINE c == Append(a, Line("function"))
    <3>1. c \in Seq(Lines(s)) /\ ToSet(c) = ToSet(a) \union {Line("function")} /\ Unmarked(c) = Unmarked(a)
      BY <1>3, <1>6, <2>1, SayMore
    <3>2. b = Append(c, Line("calls"))
      BY <2>1
    <3> HIDE DEF b, c
    <3>3. ToSet(b) = ToSet(c) \union {Line("calls")} /\ Unmarked(b) = Unmarked(c)
      BY <1>3, <2>1, <3>1, <3>2, SayMore
    <3>4. ToSet(b) = ToSet(a) \union {Line("function"), Line("calls")}
      BY <3>1, <3>3
    <3>5. SaysMarked(ToSet(b), "function") /\ SaysMarked(ToSet(b), "calls")
      BY <1>4, <3>4 DEF SaysMarked
    <3> QED
      BY <1>4, <1>7, <2>1, <3>1, <3>3, <3>4, <3>5
  <2>2. CASE AmbientWiring(L) = "no" /\ s # "zsh"
    <3>1. b = Append(a, Line("trigger"))
      BY <2>2
    <3> HIDE DEF b
    <3>3. ToSet(b) = ToSet(a) \union {Line("trigger")} /\ Unmarked(b) = Unmarked(a)
      BY <1>3, <1>6, <2>2, <3>1, SayMore
    <3>5. SaysMarked(ToSet(b), "trigger")
      BY <1>4, <3>3 DEF SaysMarked
    <3> QED
      BY <1>4, <1>7, <2>2, <3>3, <3>5
  <2>3. CASE AmbientWiring(L) # "no"
    BY <1>7, <2>3
  <2> QED
    BY <2>1, <2>2, <2>3
<1> HIDE DEF b
<1>10. \A l \in L : UpgradeLine(l) \in ToSet(b)
  BY <1>1, <1>7, <1>9
<1>11. AliasWiring(L) = "no" => SaysMarked(ToSet(b), "alias")
  BY <1>7, <1>9 DEF SaysMarked
<1> QED
  BY <1>1, <1>7, <1>8, <1>9, <1>10, <1>11 DEF L, r

(* What `ff unhook` leaves of it: the lines that are not fufu's.           *)
LEMMA RcUninstallFacts ==
  ASSUME NEW s \in Shells, NEW rc \in Seq(Lines(s))
  PROVE  /\ RcUninstall(rc) \in Seq(Lines(s))
         /\ Unmarked(RcUninstall(rc)) = Unmarked(rc)
         /\ \A l \in ToSet(RcUninstall(rc)) : ~Marked(l)
<1>1. Unmarked(rc) \in Seq(Lines(s) \cap PlainLines)
  BY OnlyType DEF Unmarked
<1>2. Unmarked(rc) \in Seq(Lines(s)) /\ Unmarked(rc) \in Seq(PlainLines)
  BY <1>1
<1>3. Unmarked(Unmarked(rc)) = Unmarked(rc)
  BY <1>2, OnlyAll DEF Unmarked
<1>4. \A l \in ToSet(Unmarked(rc)) : ~Marked(l)
  <2>1. \A l \in PlainLines : ~Marked(l)
    BY DEF PlainLines, Marked
  <2>2. ToSet(Unmarked(rc)) \subseteq PlainLines
    <3>1. \A p \in Seq(PlainLines) : ToSet(p) \subseteq PlainLines
      BY DEF ToSet
    <3> QED
      BY <1>2, <3>1
  <2> QED
    BY <2>1, <2>2
<1>5. CASE "wired" \in {AliasWiring(ToSet(rc)), AmbientWiring(ToSet(rc))}
  <2>1. RcUninstall(rc) = Unmarked(rc)
    BY <1>5 DEF RcUninstall
  <2> QED
    BY <1>2, <1>3, <1>4, <2>1
<1>6. CASE ~("wired" \in {AliasWiring(ToSet(rc)), AmbientWiring(ToSet(rc))})
  <2>1. RcUninstall(rc) = rc
    BY <1>6 DEF RcUninstall
  <2>2. ToSet(rc) \subseteq Lines(s)
    BY RisenFacts
  <2>3. ASSUME NEW l \in ToSet(rc), Marked(l) PROVE FALSE
    <3>1. l.says \in Says(s)
      BY <2>2, <2>3, LinesAre
    <3>2. l.says \in {"alias", "function", "calls", "trigger", "oldtrigger"}
      BY <3>1 DEF Says
    <3>3. CASE l.says = "alias"
      <4>1. AliasWiring(ToSet(rc)) = "wired"
        BY <2>3, <3>3 DEF AliasWiring
      <4> QED
        BY <1>6, <4>1
    <3>4. CASE l.says # "alias"
      <4>1. AmbientWiring(ToSet(rc)) = "wired"
        BY <2>3, <3>2, <3>4 DEF AmbientWiring, NamesTrigger
      <4> QED
        BY <1>6, <4>1
    <3> QED
      BY <3>3, <3>4
  <2> QED
    BY <2>1, <2>3
<1> QED
  BY <1>5, <1>6

-----------------------------------------------------------------------------
(***************************************************************************)
(* A write, file by file.                                                  *)
(***************************************************************************)
Wrote(s, x, d, m, e) ==
  /\ e.settings = IF x = "wire" THEN SettingsInstall(s, d.settings)
                  ELSE IF x \in {"strip", "trystrip"} THEN Stripped(s, d) ELSE d.settings
  /\ e.manifest = IF x = "manifest" THEN "ours" ELSE IF x = "unplug" THEN None ELSE d.manifest
  /\ e.hooks = IF x = "hooks" THEN Whole ELSE IF x = "unplug" THEN None ELSE d.hooks
  /\ e.skill = IF x = "skill" THEN "ours" ELSE IF x \in {"unplug", "unskill"} THEN None ELSE d.skill
  /\ e.relics = IF x = "sweep" THEN d.relics \ {"skill"} ELSE IF x = "unmcp" THEN d.relics \ {"mcp"}
                ELSE IF x = "unplug" /\ s = "claude" THEN {} ELSE d.relics
  /\ e.market = IF x = "list" THEN [Market(d) EXCEPT !.plugins = @ \union {"fufu"}]
                ELSE IF x = "unlist" THEN Unlisted(s, d) ELSE d.market
  /\ e.registry = IF x = "register"
                  THEN [enabled |-> d.registry.enabled \union {MarketName(d)},
                        known |-> d.registry.known \union {MarketName(d)}]
                  ELSE IF x = "unregister"
                  THEN [enabled |-> d.registry.enabled \ {m.name},
                        known |-> IF m.stays THEN d.registry.known ELSE d.registry.known \ {m.name}]
                  ELSE d.registry
  /\ e.cache = IF x = "add" THEN d.hooks ELSE d.cache
  /\ e.script = IF x = "script" THEN "ours"
                ELSE IF x = "unscript" /\ d.script \notin {"theirs", Torn} THEN None ELSE d.script
  /\ e.rc = IF x = "rc" THEN RcInstall(s, d.rc) ELSE IF x = "unrc" THEN RcUninstall(d.rc) ELSE d.rc

LEMMA AfterWrote ==
  ASSUME NEW s, NEW d \in Disks(s), NEW x \in AnyStep, NEW m
  PROVE  Wrote(s, x, d, m, After(s, x, d, m))
<1> DEFINE A == For(s, {"claude", "codex", "cursor", "qwen"}, {None, Bad} \union SettingsFiles, None)
           B == For(s, Plugins, {None, Torn, "ours"}, None)
           C == For(s, Plugins, {None, Torn} \union HooksFiles, None)
           D == For(s, Plugins \union {"opencode"}, {None, "ours", "older"}, None)
           E == SUBSET (IF s = "claude" THEN {"mcp", "skill"} ELSE {"mcp", "skill", "mine"})
           F == For(s, {"codex", "copilot"}, {None, Bad} \union Markets, None)
           G == For(s, {"copilot"}, {Bad} \union Registries, Bare.registry)
           H == For(s, {"codex"}, {None} \union HooksFiles, None)
           I == For(s, {"opencode"}, {None, Torn, "ours", "older", "dead", "theirs"}, None)
           J == For(s, Shells, Seq(Lines(s)), << >>)
<1>1. d \in [settings : A, manifest : B, hooks : C, skill : D, relics : E,
             market : F, registry : G, cache : H, script : I, rc : J]
  BY Zenon DEF Disks
<1> HIDE DEF A, B, C, D, E, F, G, H, I, J
<1>2. CASE x = "manifest"
  <2>1. After(s, x, d, m) = [d EXCEPT !.manifest = "ours"]
    BY <1>2 DEF After
  <2> QED
    BY <1>1, <1>2, <2>1 DEF Wrote
<1>3. CASE x = "hooks"
  <2>1. After(s, x, d, m) = [d EXCEPT !.hooks = Whole]
    BY <1>3 DEF After
  <2> QED
    BY <1>1, <1>3, <2>1 DEF Wrote
<1>4. CASE x = "skill"
  <2>1. After(s, x, d, m) = [d EXCEPT !.skill = "ours"]
    BY <1>4 DEF After
  <2> QED
    BY <1>1, <1>4, <2>1 DEF Wrote
<1>5. CASE x = "sweep"
  <2>1. After(s, x, d, m) = [d EXCEPT !.relics = d.relics \ {"skill"}]
    BY <1>5 DEF After
  <2> QED
    BY <1>1, <1>5, <2>1 DEF Wrote
<1>6. CASE x = "unmcp"
  <2>1. After(s, x, d, m) = [d EXCEPT !.relics = d.relics \ {"mcp"}]
    BY <1>6 DEF After
  <2> QED
    BY <1>1, <1>6, <2>1 DEF Wrote
<1>7. CASE x = "wire"
  <2>1. After(s, x, d, m) = [d EXCEPT !.settings = SettingsInstall(s, d.settings)]
    BY <1>7 DEF After
  <2> QED
    BY <1>1, <1>7, <2>1 DEF Wrote
<1>8. CASE x \in {"strip", "trystrip"}
  <2>1. After(s, x, d, m) = [d EXCEPT !.settings = Stripped(s, d)]
    BY <1>8 DEF After
  <2> QED
    BY <1>1, <1>8, <2>1 DEF Wrote
<1>9. CASE x = "list"
  <2>1. After(s, x, d, m) = [d EXCEPT !.market = [Market(d) EXCEPT !.plugins = @ \union {"fufu"}]]
    BY <1>9 DEF After
  <2> QED
    BY <1>1, <1>9, <2>1 DEF Wrote
<1>10. CASE x = "unlist"
  <2>1. After(s, x, d, m) = [d EXCEPT !.market = Unlisted(s, d)]
    BY <1>10 DEF After
  <2> QED
    BY <1>1, <1>10, <2>1 DEF Wrote
<1>11. CASE x = "add"
  <2>1. After(s, x, d, m) = [d EXCEPT !.cache = d.hooks]
    BY <1>11 DEF After
  <2> QED
    BY <1>1, <1>11, <2>1 DEF Wrote
<1>12. CASE x = "register"
  <2>1. After(s, x, d, m)
          = [d EXCEPT !.registry = [enabled |-> d.registry.enabled \union {MarketName(d)},
                                    known |-> d.registry.known \union {MarketName(d)}]]
    BY <1>12 DEF After
  <2> QED
    BY <1>1, <1>12, <2>1 DEF Wrote
<1>13. CASE x = "unregister"
  <2>1. After(s, x, d, m)
          = [d EXCEPT !.registry = [enabled |-> d.registry.enabled \ {m.name},
                                    known |-> IF m.stays THEN d.registry.known
                                              ELSE d.registry.known \ {m.name}]]
    BY <1>13 DEF After
  <2> QED
    BY <1>1, <1>13, <2>1 DEF Wrote
<1>14. CASE x = "unplug"
  <2>1. After(s, x, d, m)
          = [d EXCEPT !.manifest = None, !.hooks = None, !.skill = None,
                      !.relics = IF s = "claude" THEN {} ELSE d.relics]
    BY <1>1, <1>14 DEF After
  <2> QED
    BY <1>1, <1>14, <2>1 DEF Wrote
<1>15. CASE x = "script"
  <2>1. After(s, x, d, m) = [d EXCEPT !.script = "ours"]
    BY <1>15 DEF After
  <2> QED
    BY <1>1, <1>15, <2>1 DEF Wrote
<1>16. CASE x = "unscript"
  <2>1. After(s, x, d, m) = [d EXCEPT !.script = IF d.script \in {"theirs", Torn} THEN d.script ELSE None]
    BY <1>16 DEF After
  <2> QED
    BY <1>1, <1>16, <2>1 DEF Wrote
<1>17. CASE x = "unskill"
  <2>1. After(s, x, d, m) = [d EXCEPT !.skill = None]
    BY <1>17 DEF After
  <2> QED
    BY <1>1, <1>17, <2>1 DEF Wrote
<1>18. CASE x = "rc"
  <2>1. After(s, x, d, m) = [d EXCEPT !.rc = RcInstall(s, d.rc)]
    BY <1>18 DEF After
  <2> QED
    BY <1>1, <1>18, <2>1 DEF Wrote
<1>19. CASE x = "unrc"
  <2>1. After(s, x, d, m) = [d EXCEPT !.rc = RcUninstall(d.rc)]
    BY <1>19 DEF After
  <2> QED
    BY <1>1, <1>19, <2>1 DEF Wrote
<1>20. CASE x \in {"verify", "load"}
  <2>1. After(s, x, d, m) = d
    BY <1>20 DEF After
  <2> QED
    BY <1>20, <2>1 DEF Wrote
<1> QED
  BY <1>2, <1>3, <1>4, <1>5, <1>6, <1>7, <1>8, <1>9, <1>10, <1>11, <1>12, <1>13, <1>14, <1>15, <1>16,
     <1>17, <1>18, <1>19, <1>20 DEF AnyStep

LEMMA WholeIs ==
  /\ Whole \in HooksFiles /\ Whole \notin {None, Torn, Bad}
  /\ \A e \in Events : Whole[e] = "now"
  /\ Carries(Whole) = Events /\ Carries(None) = {}
<1>1. Whole \in HooksFiles /\ \A e \in Events : Whole[e] = "now"
  BY DEF Whole, HooksFiles
<1>2. Whole \notin {None, Torn, Bad}
  BY <1>1, FilesAre
<1>3. "now" # None
  BY FilesAre DEF Texts
<1> QED
  BY <1>1, <1>2, <1>3 DEF Carries

(* Stripping a settings file that is not whole: Cursor's only if it feeds.  *)
LEMMA StrippedFacts ==
  ASSUME NEW s \in Clients, NEW d \in Disks(s)
  PROVE  /\ Stripped(s, d) \in {None, Bad} \union SettingsFiles
         /\ d.settings \in {None, Bad} => Stripped(s, d) = d.settings
         /\ d.settings \in SettingsFiles => Stripped(s, d) \in SettingsFiles
         /\ WiredEvents(s, Stripped(s, d)) = {}
         /\ d.settings \in SettingsFiles =>
              \A e \in Events : Foreign(s, Stripped(s, d)[e]) = Foreign(s, d.settings[e])
<1>1. d.settings \in {None, Bad} \union SettingsFiles
  BY DiskFiles
<1>2. CASE s = "cursor" /\ ~Feeds(SettingsWiring(s, d.settings))
  <2>1. Stripped(s, d) = d.settings
    BY <1>2 DEF Stripped
  <2>2. WiredEvents(s, d.settings) = {}
    BY <1>2, WiredIs DEF Feeds, SettingsWiring
  <2> QED
    BY <1>1, <2>1, <2>2
<1>3. CASE ~(s = "cursor" /\ ~Feeds(SettingsWiring(s, d.settings)))
  <2>1. Stripped(s, d) = SettingsUninstall(s, d.settings)
    BY <1>3 DEF Stripped
  <2> QED
    BY <1>1, <2>1, SettingsUninstallFacts
<1> QED
  BY <1>2, <1>3

(* The marketplace, listed in and taken out of.                            *)
LEMMA MarketFacts ==
  ASSUME NEW s \in Clients, NEW d \in Disks(s)
  PROVE  /\ MarketName(d) \in {"own", "tower"}
         /\ d.market # Bad =>
              LET listed == [Market(d) EXCEPT !.plugins = @ \union {"fufu"}]
              IN  /\ listed \in Markets /\ listed.name = MarketName(d) /\ "fufu" \in listed.plugins
                  /\ "tower" \in listed.plugins <=> d.market # None /\ "tower" \in d.market.plugins
         /\ Unlisted(s, d) \in {None, Bad} \union Markets
         /\ Unlisted(s, d) = Bad <=> d.market = Bad
         /\ Unlisted(s, d) \in Markets => "fufu" \notin Unlisted(s, d).plugins
         /\ (Unlisted(s, d) \notin {None, Bad} /\ "tower" \in Unlisted(s, d).plugins)
              <=> (d.market \notin {None, Bad} /\ "tower" \in d.market.plugins)
<1>1. d.market \in {None, Bad} \union Markets
  BY DiskFiles
<1>2. \A k \in Markets : k \notin {None, Bad}
  BY FilesAre
<1>3. MarketName(d) \in {"own", "tower"}
  BY <1>1 DEF MarketName, Markets
<1>4. ASSUME d.market # Bad
      PROVE  LET listed == [Market(d) EXCEPT !.plugins = @ \union {"fufu"}]
             IN  /\ listed \in Markets /\ listed.name = MarketName(d) /\ "fufu" \in listed.plugins
                 /\ "tower" \in listed.plugins <=> d.market # None /\ "tower" \in d.market.plugins
  <2> DEFINE k == Market(d)
  <2>1. k \in Markets
    BY <1>1, <1>4 DEF Market, Markets
  <2>2. k.name = MarketName(d)
    BY <1>1, <1>2, <1>4 DEF Market, MarketName
  <2>3. "tower" \in k.plugins <=> d.market # None /\ "tower" \in d.market.plugins
    BY <1>1, <1>2, <1>4 DEF Market
  <2> HIDE DEF k
  <2>4. /\ [k EXCEPT !.plugins = @ \union {"fufu"}] \in Markets
        /\ [k EXCEPT !.plugins = @ \union {"fufu"}].name = k.name
        /\ [k EXCEPT !.plugins = @ \union {"fufu"}].plugins = k.plugins \union {"fufu"}
    BY <2>1 DEF Markets
  <2> QED
    BY <2>2, <2>3, <2>4 DEF k
<1>5. CASE d.market \in {None, Bad}
  <2>1. Unlisted(s, d) = d.market
    BY <1>5 DEF Unlisted
  <2> QED
    BY <1>2, <1>3, <1>4, <1>5, <2>1, FilesAre
<1>6. CASE d.market \in Markets
  <2> DEFINE k == [d.market EXCEPT !.plugins = @ \ {"fufu"}]
  <2>1. k \in Markets /\ k.plugins = d.market.plugins \ {"fufu"}
    BY <1>6 DEF Markets
  <2>2. /\ Unlisted(s, d) = k \/ (Unlisted(s, d) = None /\ d.market.plugins \ {"fufu"} = {})
        /\ d.market \notin {None, Bad}
    BY <1>2, <1>6 DEF Unlisted
  <2> HIDE DEF k
  <2>3. CASE Unlisted(s, d) = k
    BY <1>2, <1>3, <1>4, <1>6, <2>1, <2>2, <2>3
  <2>4. CASE Unlisted(s, d) = None /\ d.market.plugins \ {"fufu"} = {}
    <3>1. "tower" \notin d.market.plugins
      BY <2>4
    <3> QED
      BY <1>2, <1>3, <1>4, <1>6, <2>2, <2>4, <3>1, FilesAre
  <2> QED
    BY <2>2, <2>3, <2>4
<1> QED
  BY <1>1, <1>5, <1>6

(* Which writes a program that wires has, and what they rely on.           *)
LEMMA WiringFacts ==
  ASSUME NEW s \in Clients, NEW v \in Verbs, NEW f, NEW W, W = Written(v, s, f)
  PROVE  /\ "unskill" \in W => s = "opencode"
         /\ "register" \in W => "list" \in W
         /\ "verify" \in W => /\ s \in Plugins \union {"opencode"} /\ v # "unhook"
                              /\ s \in Plugins => {"manifest", "hooks"} \subseteq W
                              /\ s = "copilot" => {"list", "register"} \subseteq W
                              /\ s = "opencode" => "script" \in W
         /\ v # "unhook" =>
              /\ {"unlist", "unregister", "unscript", "unskill", "unrc"} \cap W = {}
              /\ "unplug" \in W => s = "claude" /\ "wire" \in W
              /\ "strip" \in W => s = "claude" /\ {"manifest", "hooks"} \subseteq W
              /\ "trystrip" \in W => /\ s \in {"codex", "cursor"} /\ {"manifest", "hooks"} \subseteq W
                                     /\ s = "codex" => "list" \in W
         /\ v \in {"update", "fix"} /\ s = "claude" /\ PluginWiring("claude", f) # "wired" => W = Rewires
<1>1. CASE v = "unhook"
  <2>1. W = Unwires[s]
    BY <1>1 DEF Written
  <2> QED
    BY <1>1, <2>1 DEF Clients, Plugins, Unwires
<1>2. CASE v # "unhook" /\ W = Wires[s] /\ ~(v \in {"update", "fix"} /\ s = "claude" /\ PluginWiring("claude", f) # "wired")
  BY <1>2 DEF Clients, Plugins, Wires
<1>3. CASE v # "unhook" /\ W = Rewires /\ s = "claude"
  BY <1>3 DEF Clients, Plugins, Rewires
<1> QED
  BY <1>1, <1>2, <1>3 DEF Written

(* A write leaves a disk of its client.                                    *)
LEMMA AfterType ==
  ASSUME NEW s \in Clients, NEW v \in Verbs, NEW f, NEW d \in Disks(s),
         NEW x \in Written(v, s, f), ~Refuses(s, x, d), x = "register" => d.registry # Bad,
         x = "unregister" => d.registry # Bad, x = "add" => d.hooks # Torn, NEW m, x \in AnyStep
  PROVE  After(s, x, d, m) \in Disks(s)
<1> DEFINE W == Written(v, s, f)
<1>1. /\ x = "manifest" \/ x = "hooks" \/ x = "unplug" => s \in Plugins
      /\ x = "skill" => s \in Plugins \union {"opencode"}
      /\ x \in {"wire", "strip"} => s \in {"claude", "qwen"}
      /\ x = "trystrip" => s \in {"codex", "cursor"}
      /\ x \in {"list", "unlist"} => s \in {"codex", "copilot"}
      /\ x = "add" => s = "codex"
      /\ x \in {"register", "unregister"} => s = "copilot"
      /\ x \in {"script", "unscript", "unskill"} => s = "opencode"
      /\ x \in {"rc", "unrc"} => s \in Shells
  <2>1. W = Written(v, s, f) /\ x \in W
    OBVIOUS
  <2> HIDE DEF W
  <2> QED
    BY <2>1, WrittenFacts, WiringFacts
<1>0. /\ s \in {"claude", "codex", "cursor", "qwen"} =>
           \A y \in {None, Bad} \union SettingsFiles : [d EXCEPT !.settings = y] \in Disks(s)
      /\ s \in Plugins => \A y \in {None, Torn} \union HooksFiles : [d EXCEPT !.hooks = y] \in Disks(s)
      /\ s \in {"codex", "copilot"} =>
           \A y \in {None, Bad} \union Markets : [d EXCEPT !.market = y] \in Disks(s)
      /\ s = "copilot" => \A y \in {Bad} \union Registries : [d EXCEPT !.registry = y] \in Disks(s)
      /\ s = "codex" => \A y \in {None} \union HooksFiles : [d EXCEPT !.cache = y] \in Disks(s)
      /\ s = "opencode" =>
           \A y \in {None, Torn, "ours", "older", "dead", "theirs"} : [d EXCEPT !.script = y] \in Disks(s)
      /\ s \in Shells => \A y \in Seq(Lines(s)) : [d EXCEPT !.rc = y] \in Disks(s)
  BY DiskWith
<1>2. CASE x \in {"manifest", "hooks", "skill"}
  <2>1. CASE x = "manifest"
    BY <1>1, <2>1, DiskWith DEF After
  <2>2. CASE x = "hooks"
    BY <1>0, <1>1, <2>2, WholeIs DEF After
  <2>3. CASE x = "skill"
    BY <1>1, <2>3, DiskWith DEF After
  <2> QED
    BY <1>2, <2>1, <2>2, <2>3
<1>3. CASE x \in {"sweep", "unmcp"}
  <2>1. \A gone : [d EXCEPT !.relics = @ \ gone] \in Disks(s)
    <3>1. \A gone : d.relics \ gone \subseteq d.relics
      OBVIOUS
    <3> QED
      BY <3>1, DiskWith
  <2> QED
    BY <1>3, <2>1 DEF After
<1>4. CASE x = "wire"
  <2>1. d.settings \in {None} \union SettingsFiles
    BY <1>4, DiskFiles DEF Refuses
  <2>2. SettingsInstall(s, d.settings) \in SettingsFiles
    BY <2>1, SettingsInstallFacts
  <2>3. After(s, x, d, m) = [d EXCEPT !.settings = SettingsInstall(s, d.settings)]
    BY <1>4 DEF After
  <2> QED
    BY <1>0, <1>1, <1>4, <2>2, <2>3
<1>5. CASE x \in {"strip", "trystrip"}
  <2>1. Stripped(s, d) \in {None, Bad} \union SettingsFiles
    BY StrippedFacts
  <2>2. After(s, x, d, m) = [d EXCEPT !.settings = Stripped(s, d)]
    BY <1>5 DEF After
  <2> QED
    BY <1>0, <1>1, <1>5, <2>1, <2>2
<1>6. CASE x = "list"
  <2>1. d.market # Bad
    BY <1>6 DEF Refuses
  <2> DEFINE k == [Market(d) EXCEPT !.plugins = @ \union {"fufu"}]
  <2>2. k \in Markets
    BY <2>1, MarketFacts
  <2>3. After(s, x, d, m) = [d EXCEPT !.market = k]
    BY <1>6 DEF After
  <2> HIDE DEF k
  <2> QED
    BY <1>0, <1>1, <1>6, <2>2, <2>3
<1>7. CASE x = "unlist"
  <2>1. Unlisted(s, d) \in {None, Bad} \union Markets
    BY MarketFacts
  <2>2. After(s, x, d, m) = [d EXCEPT !.market = Unlisted(s, d)]
    BY <1>7 DEF After
  <2> QED
    BY <1>0, <1>1, <1>7, <2>1, <2>2
<1>8. CASE x = "add"
  <2>1. d.hooks \in {None} \union HooksFiles
    BY <1>8, DiskFiles
  <2>2. After(s, x, d, m) = [d EXCEPT !.cache = d.hooks]
    BY <1>8 DEF After
  <2> QED
    BY <1>0, <1>1, <1>8, <2>1, <2>2
<1>9. CASE x \in {"register", "unregister"}
  <2>1. d.registry \in Registries /\ MarketName(d) \in {"own", "tower"}
    BY <1>9, DiskFiles, MarketFacts
  <2> DEFINE on == [enabled |-> d.registry.enabled \union {MarketName(d)},
                    known |-> d.registry.known \union {MarketName(d)}]
             off == [enabled |-> d.registry.enabled \ {m.name},
                     known |-> IF m.stays THEN d.registry.known ELSE d.registry.known \ {m.name}]
  <2>2. on \in Registries /\ off \in Registries
    BY <2>1 DEF Registries
  <2>3. x = "register" => After(s, x, d, m) = [d EXCEPT !.registry = on]
    BY DEF After
  <2>4. x = "unregister" => After(s, x, d, m) = [d EXCEPT !.registry = off]
    BY DEF After
  <2> HIDE DEF on, off
  <2> QED
    BY <1>0, <1>1, <1>9, <2>2, <2>3, <2>4
<1>10. CASE x = "unplug"
  <2>1. s \in Plugins
    BY <1>1, <1>10
  <2> DEFINE a == [d EXCEPT !.manifest = None]
             b == [a EXCEPT !.hooks = None]
             c == [b EXCEPT !.skill = None]
             left == IF s = "claude" THEN {} ELSE d.relics
  <2>2. a \in Disks(s)
    BY <2>1, DiskWith
  <2>3. a.relics = d.relics
    BY DEF Disks
  <2>4. After(s, x, d, m) = [c EXCEPT !.relics = left]
    BY <1>10 DEF After, Disks
  <2> HIDE DEF a
  <2>5. b \in Disks(s) /\ b.relics = a.relics
    <3>1. b \in Disks(s)
      BY <2>1, <2>2, DiskWith
    <3> QED
      BY <2>2, <3>1 DEF Disks
  <2> HIDE DEF b
  <2>6. c \in Disks(s) /\ c.relics = b.relics
    <3>1. c \in Disks(s)
      BY <2>1, <2>5, DiskWith
    <3> QED
      BY <2>5, <3>1 DEF Disks
  <2> HIDE DEF c
  <2>7. left \subseteq c.relics
    BY <2>3, <2>5, <2>6
  <2> HIDE DEF left
  <2>8. \A y : y \subseteq c.relics => [c EXCEPT !.relics = y] \in Disks(s)
    BY <2>6, DiskWith
  <2> QED
    BY <2>4, <2>7, <2>8
<1>11. CASE x \in {"script", "unscript"}
  <2>1. d.script \in {None, Torn, "ours", "older", "dead", "theirs"}
    BY DiskFiles
  <2>2. x = "script" => After(s, x, d, m) = [d EXCEPT !.script = "ours"]
    BY DEF After
  <2>3. x = "unscript" =>
          After(s, x, d, m) = [d EXCEPT !.script = IF d.script \in {"theirs", Torn} THEN d.script ELSE None]
    BY DEF After
  <2> QED
    BY <1>0, <1>1, <1>11, <2>1, <2>2, <2>3
<1>12. CASE x = "unskill"
  BY <1>1, <1>12, DiskWith DEF After
<1>13. CASE x \in {"rc", "unrc"}
  <2>1. d.rc \in Seq(Lines(s)) /\ s \in Shells
    BY <1>1, <1>13, DiskFiles
  <2>2. RcInstall(s, d.rc) \in Seq(Lines(s)) /\ RcUninstall(d.rc) \in Seq(Lines(s))
    BY <2>1, RcInstallFacts, RcUninstallFacts
  <2>3. x = "rc" => After(s, x, d, m) = [d EXCEPT !.rc = RcInstall(s, d.rc)]
    BY DEF After
  <2>4. x = "unrc" => After(s, x, d, m) = [d EXCEPT !.rc = RcUninstall(d.rc)]
    BY DEF After
  <2> QED
    BY <1>0, <1>13, <2>1, <2>2, <2>3, <2>4
<1>14. CASE x \in {"verify", "load"}
  BY <1>14 DEF After
<1> QED
  BY <1>2, <1>3, <1>4, <1>5, <1>6, <1>7, <1>8, <1>9, <1>10, <1>11, <1>12, <1>13, <1>14 DEF AnyStep

-----------------------------------------------------------------------------
(***************************************************************************)
(* What the writes of a program that have run have left on the disk: `f`   *)
(* is the disk the verb found, `d` the one it has by now.                  *)
(***************************************************************************)
PluginDone(s, ran, d) ==
  /\ "manifest" \in ran => d.manifest = "ours"
  /\ "hooks" \in ran => d.hooks = Whole
  /\ "skill" \in ran => d.skill = "ours"
  /\ "unplug" \in ran => d.manifest = None /\ d.hooks = None /\ d.skill = None
                         /\ (s = "claude" => d.relics = {})
  /\ "unskill" \in ran => d.skill = None
  /\ "unmcp" \in ran => "mcp" \notin d.relics

SettingsDone(s, f, ran, d) ==
  /\ d.settings = Bad <=> f.settings = Bad
  /\ "wire" \in ran => /\ d.settings \in SettingsFiles
                       /\ TableOf(s) \subseteq WiredEvents(s, d.settings) /\ ~SettingsStale(s, d.settings)
  /\ "strip" \in ran \/ "trystrip" \in ran => WiredEvents(s, d.settings) = {}
  /\ "strip" \in ran => d.settings # Bad

MarketDone(v, s, f, ran, d, m) ==
  /\ (d.market = Bad <=> f.market = Bad) /\ (d.registry = Bad <=> f.registry = Bad)
  /\ s = "copilot" /\ "load" \notin ran => d.market = f.market
  /\ "load" \in ran => /\ d.registry # Bad /\ (v # "unhook" => d.market # Bad)
                       /\ m.name = MarketName(f)
  /\ "list" \in ran => Lists(d)
  /\ "unlist" \in ran => ~Lists(d)
  /\ "register" \in ran => d.registry # Bad /\ Lists(d) /\ Registered(d, MarketName(d))
  /\ "unregister" \in ran => MarketName(f) \notin d.registry.enabled

ScriptDone(f, ran, d) ==
  /\ "script" \notin ran /\ "unscript" \notin ran => d.script = f.script
  /\ "script" \in ran => d.script = "ours"
  /\ "unscript" \in ran => d.script \notin {"ours", "older", "dead"}

RcDone(s, f, ran, d) ==
  /\ "rc" \notin ran /\ "unrc" \notin ran => d.rc = f.rc
  /\ "rc" \in ran => d.rc = RcInstall(s, f.rc)
  /\ "unrc" \in ran => d.rc = RcUninstall(f.rc)

Done(v, s, f, ran, d, m) ==
  /\ PluginDone(s, ran, d) /\ SettingsDone(s, f, ran, d) /\ MarketDone(v, s, f, ran, d, m)
  /\ ScriptDone(f, ran, d) /\ RcDone(s, f, ran, d)

(* What a removal reads before its writes (Write, Hooks.tla).              *)
Noted(x, d, m) ==
  CASE x = "load" -> [m EXCEPT !.name = MarketName(d)]
    [] x = "unlist" -> [m EXCEPT !.stays = Stays(d)]
    [] OTHER -> m
Memos == [name : {"own", "tower"}, stays : BOOLEAN]

(* A write is ready once what the program has before it has run.           *)
Ready(W, ran, x) == \A a \in W : <<a, x>> \in Before => a \in ran

LEMMA NothingDone ==
  ASSUME NEW v, NEW s, NEW f, NEW m
  PROVE  Done(v, s, f, {}, f, m)
BY DEF Done, PluginDone, SettingsDone, MarketDone, ScriptDone, RcDone

LEMMA PluginStep ==
  ASSUME NEW s \in Clients, NEW v \in Verbs, NEW f, NEW W, W = Written(v, s, f), NEW ran \in SUBSET W,
         NEW x \in W, NEW d, NEW e, NEW m, PluginDone(s, ran, d), Wrote(s, x, d, m, e)
  PROVE  PluginDone(s, ran \union {x}, e)
<1>1. /\ "unplug" \in W => {"manifest", "hooks", "skill"} \cap W = {}
      /\ "unskill" \in W => {"skill", "unplug"} \cap W = {}
  BY WrittenFacts
<1>2. /\ e.manifest = IF x = "manifest" THEN "ours" ELSE IF x = "unplug" THEN None ELSE d.manifest
      /\ e.hooks = IF x = "hooks" THEN Whole ELSE IF x = "unplug" THEN None ELSE d.hooks
      /\ e.skill = IF x = "skill" THEN "ours" ELSE IF x \in {"unplug", "unskill"} THEN None ELSE d.skill
      /\ e.relics = IF x = "sweep" THEN d.relics \ {"skill"} ELSE IF x = "unmcp" THEN d.relics \ {"mcp"}
                    ELSE IF x = "unplug" /\ s = "claude" THEN {} ELSE d.relics
  BY DEF Wrote
<1> QED
  BY <1>1, <1>2 DEF PluginDone

LEMMA SettingsStep ==
  ASSUME NEW s \in Clients, NEW v \in Verbs, NEW f, NEW W, W = Written(v, s, f), NEW ran \in SUBSET W,
         NEW x \in W, NEW d \in Disks(s), NEW e, NEW m, ~Refuses(s, x, d), SettingsDone(s, f, ran, d),
         Wrote(s, x, d, m, e)
  PROVE  SettingsDone(s, f, ran \union {x}, e)
<1>1. "wire" \in W => {"strip", "trystrip"} \cap W = {}
  BY WrittenFacts
<1>2. d.settings \in {None, Bad} \union SettingsFiles
  BY DiskFiles
<1>3. CASE x = "wire"
  <2>1. d.settings # Bad /\ "strip" \notin ran /\ "trystrip" \notin ran
    BY <1>1, <1>3 DEF Refuses
  <2>2. e.settings = SettingsInstall(s, d.settings)
    BY <1>3 DEF Wrote
  <2>3. /\ e.settings \in SettingsFiles /\ TableOf(s) \subseteq WiredEvents(s, e.settings)
        /\ ~SettingsStale(s, e.settings)
    BY <1>2, <2>1, <2>2, SettingsInstallFacts
  <2>4. e.settings # Bad
    BY <2>3, FilesAre
  <2> QED
    BY <1>3, <2>1, <2>3, <2>4 DEF SettingsDone
<1>4. CASE x \in {"strip", "trystrip"}
  <2>1. "wire" \notin ran /\ (x = "strip" => d.settings # Bad)
    BY <1>1, <1>4 DEF Refuses
  <2>2. e.settings = Stripped(s, d)
    BY <1>4 DEF Wrote
  <2>3. WiredEvents(s, e.settings) = {} /\ (e.settings = Bad <=> d.settings = Bad)
    BY <1>2, <2>2, StrippedFacts, FilesAre
  <2> QED
    BY <1>4, <2>1, <2>3 DEF SettingsDone
<1>5. CASE x \notin {"wire", "strip", "trystrip"}
  <2>1. e.settings = d.settings
    BY <1>5 DEF Wrote
  <2> QED
    BY <1>5, <2>1 DEF SettingsDone
<1> QED
  BY <1>3, <1>4, <1>5

LEMMA ScriptStep ==
  ASSUME NEW s \in Clients, NEW v \in Verbs, NEW f, NEW W, W = Written(v, s, f), NEW ran \in SUBSET W,
         NEW x \in W, NEW d \in Disks(s), NEW e, NEW m, ScriptDone(f, ran, d), Wrote(s, x, d, m, e)
  PROVE  ScriptDone(f, ran \union {x}, e)
<1>1. "unscript" \in W => "script" \notin W
  BY WrittenFacts
<1>2. /\ e.script = IF x = "script" THEN "ours"
                    ELSE IF x = "unscript" /\ d.script \notin {"theirs", Torn} THEN None ELSE d.script
      /\ None \notin {"ours", "older", "dead"} /\ Torn \notin {"ours", "older", "dead"}
  BY FilesAre DEF Wrote, Texts
<1> QED
  BY <1>1, <1>2 DEF ScriptDone

LEMMA RcStep ==
  ASSUME NEW s \in Clients, NEW v \in Verbs, NEW f, NEW W, W = Written(v, s, f), NEW ran \in SUBSET W,
         NEW x \in W, x \notin ran, NEW d, NEW e, NEW m, RcDone(s, f, ran, d), Wrote(s, x, d, m, e)
  PROVE  RcDone(s, f, ran \union {x}, e)
<1>1. "unrc" \in W => "rc" \notin W
  BY WrittenFacts
<1>2. e.rc = IF x = "rc" THEN RcInstall(s, d.rc) ELSE IF x = "unrc" THEN RcUninstall(d.rc) ELSE d.rc
  BY DEF Wrote
<1> QED
  BY <1>1, <1>2 DEF RcDone

LEMMA MarketStep ==
  ASSUME NEW s \in Clients, NEW v, v \in Verbs, NEW f, NEW W, W = Written(v, s, f), NEW ran \in SUBSET W,
         NEW x \in W, x \notin ran, Ready(W, ran, x), NEW d \in Disks(s), NEW e, NEW m \in Memos,
         v = verb, ~Refuses(s, x, d), MarketDone(v, s, f, ran, d, m), Wrote(s, x, d, m, e)
  PROVE  MarketDone(v, s, f, ran \union {x}, e, Noted(x, d, m))
<1>1. /\ "unlist" \in W => {"list", "register"} \cap W = {}
      /\ "unregister" \in W => "register" \notin W
      /\ s = "copilot" => "load" \in W
      /\ "load" \in W \/ "register" \in W \/ "unregister" \in W => s = "copilot"
      /\ "register" \in W => "list" \in W
  BY WrittenFacts, WiringFacts
<1>2. /\ <<"list", "register">> \in Before /\ <<"load", "list">> \in Before /\ <<"load", "unlist">> \in Before
      /\ <<"load", "register">> \in Before /\ <<"load", "unregister">> \in Before
  BY DEF Before
<1>3. x \in {"list", "unlist", "register", "unregister"} /\ s = "copilot" => "load" \in ran
  BY <1>1, <1>2 DEF Ready
<1>4. /\ e.market = IF x = "list" THEN [Market(d) EXCEPT !.plugins = @ \union {"fufu"}]
                    ELSE IF x = "unlist" THEN Unlisted(s, d) ELSE d.market
      /\ e.registry = IF x = "register"
                      THEN [enabled |-> d.registry.enabled \union {MarketName(d)},
                            known |-> d.registry.known \union {MarketName(d)}]
                      ELSE IF x = "unregister"
                      THEN [enabled |-> d.registry.enabled \ {m.name},
                            known |-> IF m.stays THEN d.registry.known ELSE d.registry.known \ {m.name}]
                      ELSE d.registry
  BY DEF Wrote
<1>5. /\ d.market \in {None, Bad} \union Markets /\ d.registry \in {Bad} \union Registries
      /\ MarketName(d) \in {"own", "tower"}
  BY DiskFiles, MarketFacts
<1>6. /\ \A k \in Markets : k \notin {None, Bad}
      /\ \A k \in Registries : k \notin {None, Bad}
  BY FilesAre
<1>7. x # "load" => Noted(x, d, m).name = m.name
  BY DEF Noted, Memos
<1>8. CASE x = "load"
  <2>1. d.registry # Bad /\ (v # "unhook" => d.market # Bad)
    BY <1>1, <1>8 DEF Refuses
  <2>2. Noted(x, d, m).name = MarketName(d)
    BY <1>8 DEF Noted, Memos
  <2>3. e.market = d.market /\ e.registry = d.registry
    BY <1>4, <1>8
  <2>4. d.market = f.market
    BY <1>1, <1>8 DEF MarketDone
  <2>5. MarketName(d) = MarketName(f) /\ MarketName(e) = MarketName(d)
    BY <2>3, <2>4 DEF MarketName
  <2> QED
    BY <1>8, <2>1, <2>2, <2>3, <2>4, <2>5 DEF MarketDone, Lists, Registered
<1>9. CASE x = "list"
  <2>1. d.market # Bad
    BY <1>9 DEF Refuses
  <2>2. /\ e.market \in Markets /\ e.market.name = MarketName(d) /\ "fufu" \in e.market.plugins
        /\ e.registry = d.registry
    BY <1>4, <1>9, <2>1, MarketFacts
  <2>3. e.market # Bad /\ Lists(e) /\ MarketName(e) = MarketName(d) /\ "unlist" \notin ran
    BY <1>1, <1>6, <1>9, <2>2 DEF Lists, MarketName
  <2> QED
    BY <1>3, <1>7, <1>9, <2>1, <2>2, <2>3 DEF MarketDone, Registered
<1>10. CASE x = "unlist"
  <2>1. d.market # Bad
    BY <1>10 DEF Refuses
  <2>2. /\ e.market \in {None, Bad} \union Markets /\ (e.market = Bad <=> d.market = Bad)
        /\ e.market \in Markets => "fufu" \notin e.market.plugins
        /\ e.registry = d.registry
    BY <1>4, <1>10, MarketFacts
  <2>3. ~Lists(e) /\ "list" \notin ran /\ "register" \notin ran
    BY <1>1, <1>10, <2>2 DEF Lists
  <2> QED
    BY <1>3, <1>7, <1>10, <2>1, <2>2, <2>3 DEF MarketDone
<1>11. CASE x \in {"register", "unregister"}
  <2>1. s = "copilot" /\ "load" \in ran
    BY <1>1, <1>3, <1>11
  <2>2. d.registry # Bad /\ m.name = MarketName(f)
    BY <2>1 DEF MarketDone
  <2>3. d.registry \in Registries
    BY <1>5, <2>2
  <2>4. e.registry \in Registries
    BY <1>4, <1>5, <1>11, <2>3 DEF Registries
  <2>5. e.registry # Bad
    BY <1>6, <2>4
  <2>6. e.market = d.market
    BY <1>4, <1>11
  <2>7. MarketName(e) = MarketName(d) /\ (Lists(e) <=> Lists(d))
    BY <2>6 DEF MarketName, Lists
  <2>8. x = "register" => Registered(e, MarketName(d)) /\ "unregister" \notin ran /\ Lists(d)
    <3>1. x = "register" => "list" \in ran
      BY <1>1, <1>2 DEF Ready
    <3>2. x = "register" => Lists(d)
      BY <3>1 DEF MarketDone
    <3> QED
      BY <1>1, <1>4, <3>2 DEF Registered
  <2>9. x = "unregister" => /\ "register" \notin ran /\ m.name \notin e.registry.enabled
    BY <1>1, <1>4
  <2> QED
    BY <1>7, <1>11, <2>1, <2>2, <2>5, <2>6, <2>7, <2>8, <2>9 DEF MarketDone
<1>12. CASE x \notin {"load", "list", "unlist", "register", "unregister"}
  <2>1. e.market = d.market /\ e.registry = d.registry
    BY <1>4, <1>12
  <2>2. MarketName(e) = MarketName(d)
    BY <2>1 DEF MarketName
  <2> QED
    BY <1>7, <1>12, <2>1, <2>2 DEF MarketDone, Lists, Registered
<1> QED
  BY <1>8, <1>9, <1>10, <1>11, <1>12

LEMMA StepDone ==
  ASSUME NEW s \in Clients, NEW v, v \in Verbs, NEW f, NEW W, W = Written(v, s, f), NEW ran \in SUBSET W,
         NEW x \in W, x \in AnyStep, x \notin ran, Ready(W, ran, x), NEW d \in Disks(s), NEW m \in Memos,
         v = verb, ~Refuses(s, x, d), Done(v, s, f, ran, d, m)
  PROVE  Done(v, s, f, ran \union {x}, After(s, x, d, m), Noted(x, d, m))
<1> DEFINE e == After(s, x, d, m)
<1>1. Wrote(s, x, d, m, e)
  BY AfterWrote
<1> HIDE DEF e
<1>2. /\ PluginDone(s, ran, d) /\ SettingsDone(s, f, ran, d) /\ MarketDone(v, s, f, ran, d, m)
      /\ ScriptDone(f, ran, d) /\ RcDone(s, f, ran, d)
  BY DEF Done
<1>3. PluginDone(s, ran \union {x}, e)
  BY <1>1, <1>2, PluginStep
<1>4. SettingsDone(s, f, ran \union {x}, e)
  BY <1>1, <1>2, SettingsStep
<1>5. MarketDone(v, s, f, ran \union {x}, e, Noted(x, d, m))
  BY <1>1, <1>2, MarketStep
<1>6. ScriptDone(f, ran \union {x}, e)
  BY <1>1, <1>2, ScriptStep
<1>7. RcDone(s, f, ran \union {x}, e)
  BY <1>1, <1>2, RcStep
<1> QED
  BY <1>3, <1>4, <1>5, <1>6, <1>7 DEF Done, e

(* An add that fails writes nothing, and nothing rests on it.              *)
LEMMA FailedAdd ==
  ASSUME NEW v, NEW s, NEW f, NEW ran, NEW d, NEW m, Done(v, s, f, ran, d, m)
  PROVE  Done(v, s, f, ran \union {"add"}, d, m)
<1>1. \A x : x # "add" => (x \in ran \union {"add"} <=> x \in ran)
  OBVIOUS
<1> DEFINE more == ran \union {"add"}
<1> HIDE DEF more
<1>2. \A x : x # "add" => (x \in more <=> x \in ran)
  BY <1>1 DEF more
<1>3. PluginDone(s, more, d)
  BY <1>2 DEF Done, PluginDone
<1>4. SettingsDone(s, f, more, d)
  BY <1>2 DEF Done, SettingsDone
<1>5. MarketDone(v, s, f, more, d, m)
  BY <1>2 DEF Done, MarketDone
<1>6. ScriptDone(f, more, d) /\ RcDone(s, f, more, d)
  BY <1>2 DEF Done, ScriptDone, RcDone
<1> QED
  BY <1>3, <1>4, <1>5, <1>6 DEF Done, more

(* What a write needs to leave a disk of its client.                       *)
LEMMA StepType ==
  ASSUME NEW s \in Clients, NEW v, v \in Verbs, NEW f, NEW W, W = Written(v, s, f), NEW ran \in SUBSET W,
         NEW x \in W, x \in AnyStep, Ready(W, ran, x), NEW d \in Disks(s), NEW m,
         ~Refuses(s, x, d), Done(v, s, f, ran, d, m)
  PROVE  /\ After(s, x, d, m) \in Disks(s)
         /\ m \in Memos => Noted(x, d, m) \in Memos
<1>1. /\ "register" \in W \/ "unregister" \in W => s = "copilot"
      /\ s = "copilot" => "load" \in W
      /\ "add" \in W => "hooks" \in W
  BY WrittenFacts
<1>2. <<"load", "register">> \in Before /\ <<"load", "unregister">> \in Before /\ <<"hooks", "add">> \in Before
  BY DEF Before
<1>3. x \in {"register", "unregister"} => d.registry # Bad
  BY <1>1, <1>2 DEF Ready, Done, MarketDone
<1>4. x = "add" => d.hooks # Torn
  BY <1>1, <1>2, WholeIs DEF Ready, Done, PluginDone
<1>5. After(s, x, d, m) \in Disks(s)
  BY <1>3, <1>4, AfterType
<1>6. m \in Memos => Noted(x, d, m) \in Memos
  <2>1. MarketName(d) \in {"own", "tower"} /\ Stays(d) \in BOOLEAN
    BY MarketFacts DEF Stays
  <2> QED
    BY <2>1 DEF Noted, Memos
<1> QED
  BY <1>5, <1>6

-----------------------------------------------------------------------------
(***************************************************************************)
(* The end of a program: the client whole, or without fufu.                *)
(***************************************************************************)

(* A plugin that is all there reads as wired, whichever client reads it.   *)
LEMMA PluginWhole ==
  ASSUME NEW s \in Plugins, NEW d, d.manifest = "ours", d.hooks = Whole,
         s = "copilot" => d.registry # Bad /\ Lists(d) /\ Registered(d, MarketName(d))
  PROVE  /\ PluginWiring(s, d) = "wired" /\ ~PluginStale(s, d) /\ PluginFires(d) = Events
         /\ Stands(s, d)
<1>1. /\ d.hooks # None /\ d.hooks # Torn /\ Carries(d.hooks) = Events
      /\ \A e \in Events : d.hooks[e] = "now"
  BY WholeIs
<1>2. "ours" # None /\ "ours" # Torn
  BY FilesAre DEF Texts
<1>3. Required \subseteq Events /\ Events # {} /\ "more" \in Events
  BY DEF Required, Events
<1>4. PluginFires(d) = Events
  BY <1>1 DEF PluginFires
<1>5. ~PluginStale(s, d)
  BY <1>1, <1>3 DEF PluginStale, Plugins
<1>6. Stands(s, d)
  BY <1>1 DEF Stands
<1>7. s \in {"claude", "codex"} => PluginWiring(s, d) = "wired"
  BY <1>1, <1>3 DEF PluginWiring, NestedWiring
<1>8. s = "cursor" => PluginWiring(s, d) = "wired"
  BY <1>1, <1>2, <1>3, <1>6 DEF PluginWiring, FlatWiring
<1>9. s = "copilot" => PluginWiring(s, d) = "wired"
  <2>1. s = "copilot" => d.market # Bad
    BY DEF Lists
  <2> QED
    BY <1>1, <1>2, <1>3, <1>6, <2>1 DEF PluginWiring, CopilotWiring
<1> QED
  BY <1>4, <1>5, <1>6, <1>7, <1>8, <1>9 DEF Plugins

(* The shell, once its lines are in.                                       *)
LEMMA ShellWhole ==
  ASSUME NEW s \in Shells, NEW f \in Disks(s), NEW d, d.rc = RcInstall(s, f.rc)
  PROVE  /\ Fires(s, f) \subseteq Fires(s, d) /\ ~IsStale(s, d)
         /\ ~HandWritten(s, f) /\ ~HalfAmbient(s, f) =>
              Wiring(s, d) = "wired" /\ Required \subseteq Fires(s, d)
<1> DEFINE L == ToSet(f.rc)
           R == ToSet(d.rc)
<1>1. s \in Clients /\ f.rc \in Seq(Lines(s)) /\ s \in {"bash", "zsh"}
  <2>1. s \in Clients
    BY DEF Clients, Shells
  <2> QED
    BY <2>1, DiskFiles DEF Shells
<1>2. /\ \A l \in L : UpgradeLine(l) \in R
      /\ \A l \in R : ~Outdated(l)
      /\ AliasWiring(L) = "no" => SaysMarked(R, "alias")
      /\ AmbientWiring(L) = "no" =>
           \A says \in IF s = "zsh" THEN {"function", "calls"} ELSE {"trigger"} : SaysMarked(R, says)
  BY <1>1, RcInstallFacts
<1>3. /\ RcLines(f) = L /\ RcLines(d) = R
      /\ L \subseteq Lines(s)
  BY <1>1, RisenFacts DEF RcLines
<1> HIDE DEF L, R
<1>4. \A l \in L : /\ UpgradeLine(l) \in R
                   /\ UpgradeLine(l).says = l.says \/ (l.says = "oldtrigger" /\ UpgradeLine(l).says = "trigger")
                   /\ Marked(l) => Marked(UpgradeLine(l)) /\ l.says \in Says(s)
  <2> SUFFICES ASSUME NEW l \in L
               PROVE  /\ UpgradeLine(l).says = l.says \/ (l.says = "oldtrigger" /\ UpgradeLine(l).says = "trigger")
                      /\ Marked(l) => Marked(UpgradeLine(l)) /\ l.says \in Says(s)
    BY <1>2
  <2>1. l \in Lines(s)
    BY <1>3
  <2>2. CASE Marked(l)
    BY <2>1, <2>2, LinesAre
  <2>3. CASE ~Marked(l)
    <3>1. UpgradeLine(l) = l
      BY <2>1, <2>3, LinesAre
    <3> QED
      BY <2>3, <3>1
  <2> QED
    BY <2>2, <2>3
<1>5. /\ \A k : Fires(s, k) =
           {e \in Required :
              \/ e = "turn" /\ \E l \in RcLines(k) : l.says = "alias"
              \/ e = "tool" /\ \/ \E l \in RcLines(k) : l.says \in {"trigger", "oldtrigger"}
                               \/ \A says \in {"function", "calls"} : \E l \in RcLines(k) : l.says = says}
      /\ IsStale(s, d) <=> \E l \in R : Outdated(l)
      /\ Wiring(s, d) = Combine(AliasWiring(R), AmbientWiring(R))
  BY <1>1, <1>3 DEF Fires, IsStale, Wiring, Shells
<1>6. Fires(s, f) \subseteq Fires(s, d)
  <2>1. \A says : says # "oldtrigger" /\ (\E l \in L : l.says = says) => \E l \in R : l.says = says
    BY <1>4
  <2>2. (\E l \in L : l.says \in {"trigger", "oldtrigger"}) => \E l \in R : l.says \in {"trigger", "oldtrigger"}
    BY <1>4
  <2> QED
    BY <1>3, <1>5, <2>1, <2>2
<1>7. ~IsStale(s, d)
  BY <1>2, <1>5
<1>8. ASSUME ~HandWritten(s, f), ~HalfAmbient(s, f)
      PROVE  Wiring(s, d) = "wired" /\ Required \subseteq Fires(s, d)
  <2>1. AliasWiring(L) # "hand" /\ AmbientWiring(L) # "hand"
    BY <1>3, <1>8 DEF HandWritten
  <2>2. SaysMarked(R, "alias")
    <3>1. CASE AliasWiring(L) = "no"
      BY <1>2, <3>1
    <3>2. CASE AliasWiring(L) # "no"
      <4>1. PICK l \in L : Marked(l) /\ l.says = "alias"
        BY <2>1, <3>2 DEF AliasWiring
      <4> QED
        BY <1>4, <4>1 DEF SaysMarked
    <3> QED
      BY <3>1, <3>2
  <2>3. \A says \in IF s = "zsh" THEN {"function", "calls"} ELSE {"trigger"} : SaysMarked(R, says)
    <3>1. CASE AmbientWiring(L) = "no"
      BY <1>2, <3>1
    <3>2. CASE AmbientWiring(L) # "no"
      <4>1. PICK l \in L : Marked(l) /\ (NamesTrigger(l) \/ l.says = "calls")
        BY <2>1, <3>2 DEF AmbientWiring
      <4>2. CASE s = "zsh"
        <5> DEFINE kinds == {k.says : k \in {j \in RcLines(f) : Marked(j)}} \cap {"function", "calls"}
        <5>1. l.says \in {"function", "calls"}
          BY <1>4, <4>1, <4>2 DEF Says, NamesTrigger
        <5>2. l.says \in kinds
          BY <1>3, <4>1, <5>1
        <5>3. kinds = {"function", "calls"}
          BY <1>8, <4>2, <5>2 DEF HalfAmbient
        <5>4. ASSUME NEW says \in {"function", "calls"} PROVE SaysMarked(R, says)
          <6>1. PICK k \in L : Marked(k) /\ k.says = says
            BY <1>3, <5>3
          <6> QED
            BY <1>4, <5>4, <6>1 DEF SaysMarked
        <5> QED
          BY <4>2, <5>4
      <4>3. CASE s # "zsh"
        <5>1. l.says \in {"trigger", "oldtrigger"}
          BY <1>4, <4>1, <4>3 DEF Says, NamesTrigger
        <5>2. Marked(UpgradeLine(l)) /\ UpgradeLine(l) \in R
          BY <1>4, <4>1
        <5>3. UpgradeLine(l).says = "trigger"
          <6>1. l \in Lines(s)
            BY <1>3
          <6> QED
            BY <4>1, <5>1, <6>1, LinesAre
        <5> QED
          BY <4>3, <5>2, <5>3 DEF SaysMarked
      <4> QED
        BY <4>2, <4>3
    <3> QED
      BY <3>1, <3>2
  <2>4. AliasWiring(R) = "wired" /\ AmbientWiring(R) = "wired"
    <3>1. AliasWiring(R) = "wired"
      BY <2>2 DEF AliasWiring, SaysMarked
    <3>2. \E says \in {"function", "trigger"} : SaysMarked(R, says)
      BY <2>3
    <3> QED
      BY <3>1, <3>2 DEF AmbientWiring, SaysMarked, NamesTrigger
  <2>5. Wiring(s, d) = "wired"
    BY <1>5, <2>4 DEF Combine
  <2>6. Required \subseteq Fires(s, d)
    <3>1. \E l \in R : l.says = "alias"
      BY <2>2 DEF SaysMarked
    <3>2. s # "zsh" => \E l \in R : l.says \in {"trigger", "oldtrigger"}
      BY <2>3 DEF SaysMarked
    <3>3. s = "zsh" => \A says \in {"function", "calls"} : \E l \in R : l.says = says
      BY <2>3 DEF SaysMarked
    <3> QED
      BY <1>3, <1>5, <3>1, <3>2, <3>3 DEF Required
  <2> QED
    BY <2>5, <2>6
<1> QED
  BY <1>6, <1>7, <1>8

(* A settings file with nothing of fufu's in it feeds nothing and is not
   stale.                                                                  *)
LEMMA Unwired ==
  ASSUME NEW s \in Clients, NEW file \in {None, Bad} \union SettingsFiles, WiredEvents(s, file) = {}
  PROVE  ~Feeds(SettingsWiring(s, file)) /\ ~SettingsStale(s, file)
<1>1. ~Feeds(SettingsWiring(s, file))
  BY DEF Feeds, SettingsWiring
<1>2. ASSUME file \in SettingsFiles, s = "claude", NEW e \in TableOf(s), NEW entry \in file[e], "old" \in entry
      PROVE  FALSE
  <2>1. EntryIsOurs(s, entry)
    BY <1>2 DEF EntryIsOurs, OursIn
  <2> QED
    BY <1>2, <2>1, WiredIs
<1>3. ~SettingsStale(s, file)
  BY <1>2, WiredIs DEF SettingsStale, Readable
<1> QED
  BY <1>1, <1>3

AddedOn(s, d) == s = "codex" => d.cache # None /\ \A e \in Required : d.cache[e] = "now"

(* What a verb that wires promises of a disk it has finished with.         *)
WholeOn(s, d) ==
  /\ Wiring(s, d) = "wired" /\ ~IsStale(s, d)
  /\ s \in {"claude", "codex", "cursor", "copilot", "opencode"} /\ PluginWiring(s, d) = "wired" => d.skill = "ours"
  /\ AddedOn(s, d) => Required \subseteq Fires(s, d)
  /\ s \in {"claude", "cursor", "codex"} /\ PluginWiring(s, d) = "wired"
       => d.settings = Bad \/ WiredEvents(s, d.settings) = {}

LEMMA EndsWhole ==
  ASSUME NEW s \in Clients, NEW v \in Verbs, v # "unhook", NEW f \in Disks(s), NEW d \in Disks(s),
         NEW W, W = Written(v, s, f), NEW m, Done(v, s, f, W, d, m)
  PROVE  HandWritten(s, f) \/ HalfAmbient(s, f) \/ WholeOn(s, d)
<1>1. /\ PluginDone(s, W, d) /\ SettingsDone(s, f, W, d) /\ MarketDone(v, s, f, W, d, m)
      /\ ScriptDone(f, W, d) /\ RcDone(s, f, W, d)
  BY DEF Done
<1>2. W = Wires[s] \/ (s = "claude" /\ W = Rewires)
  BY DEF Written
<1>3. d.settings \in {None, Bad} \union SettingsFiles
  BY DiskFiles
<1>4. Required \subseteq Events /\ Required # {} /\ Required \subseteq TableOf(s)
  BY TableIs DEF Required, Events
<1>5. CASE s \in Plugins /\ W = Wires[s]
  <2>1. /\ {"manifest", "hooks", "skill"} \subseteq W
        /\ s = "copilot" => {"list", "register"} \subseteq W
        /\ s = "codex" => {"list", "trystrip"} \subseteq W
        /\ s = "claude" => "strip" \in W
        /\ s = "cursor" => "trystrip" \in W
    BY <1>5 DEF Plugins, Wires
  <2>2. d.manifest = "ours" /\ d.hooks = Whole /\ d.skill = "ours"
    BY <1>1, <2>1 DEF PluginDone
  <2>3. s = "copilot" => d.registry # Bad /\ Lists(d) /\ Registered(d, MarketName(d))
    BY <1>1, <2>1 DEF MarketDone
  <2>4. s = "codex" => Lists(d)
    BY <1>1, <2>1 DEF MarketDone
  <2>5. PluginWiring(s, d) = "wired" /\ ~PluginStale(s, d) /\ PluginFires(d) = Events
    BY <1>5, <2>2, <2>3, PluginWhole
  <2>6. s # "copilot" => WiredEvents(s, d.settings) = {}
    BY <1>1, <1>5, <2>1 DEF SettingsDone, Plugins
  <2>7. s # "copilot" => ~Feeds(SettingsWiring(s, d.settings)) /\ ~SettingsStale(s, d.settings)
    BY <1>3, <2>6, Unwired
  <2>8. Wiring(s, d) = "wired"
    BY <1>5, <2>5 DEF Wiring, Plugins, Shells
  <2>9. ~IsStale(s, d)
    BY <1>5, <2>5, <2>7 DEF IsStale, Plugins, Shells
  <2>10. AddedOn(s, d) => Required \subseteq Fires(s, d)
    <3>1. CASE s \in {"claude", "cursor"}
      BY <1>4, <2>5, <3>1 DEF Fires
    <3>2. CASE s = "codex"
      <4>1. Fires(s, d) = SettingsFire(s, d) \union {e \in Events : Lists(d) /\ d.cache # None /\ d.cache[e] = "now"}
        BY <3>2 DEF Fires
      <4> QED
        BY <1>4, <2>4, <3>2, <4>1 DEF AddedOn
    <3>3. CASE s = "copilot"
      BY <1>4, <2>3, <2>5, <3>3 DEF Fires
    <3> QED
      BY <1>5, <3>1, <3>2, <3>3 DEF Plugins
  <2> QED
    BY <2>2, <2>6, <2>8, <2>9, <2>10 DEF WholeOn
<1>6. CASE s = "claude" /\ W = Rewires
  <2>1. "wire" \in W /\ "unplug" \in W
    BY <1>6 DEF Rewires
  <2>2. d.hooks = None
    BY <1>1, <2>1 DEF PluginDone
  <2>3. /\ d.settings \in SettingsFiles /\ TableOf(s) \subseteq WiredEvents(s, d.settings)
        /\ ~SettingsStale(s, d.settings)
    BY <1>1, <2>1 DEF SettingsDone
  <2>4. PluginWiring(s, d) = "no" /\ ~PluginStale(s, d)
    BY <1>6, <2>2, WholeIs DEF PluginWiring, NestedWiring, PluginStale
  <2>5. SettingsWiring(s, d.settings) = "wired"
    BY <1>4, <2>3, FilesAre DEF SettingsWiring
  <2>6. Wiring(s, d) = "wired" /\ ~IsStale(s, d)
    BY <1>6, <2>3, <2>4, <2>5 DEF Wiring, IsStale, Shells
  <2>7. Required \subseteq Fires(s, d)
    BY <1>4, <1>6, <2>3 DEF Fires, SettingsFire
  <2> QED
    BY <2>4, <2>6, <2>7 DEF WholeOn
<1>7. CASE s = "qwen" /\ W = Wires[s]
  <2>1. "wire" \in W
    BY <1>7 DEF Wires
  <2>2. /\ d.settings \in SettingsFiles /\ TableOf(s) \subseteq WiredEvents(s, d.settings)
        /\ ~SettingsStale(s, d.settings)
    BY <1>1, <2>1 DEF SettingsDone
  <2>3. SettingsWiring(s, d.settings) = "wired"
    BY <1>4, <2>2, FilesAre DEF SettingsWiring
  <2>4. Wiring(s, d) = "wired" /\ ~IsStale(s, d) /\ Required \subseteq Fires(s, d)
    BY <1>4, <1>7, <2>2, <2>3 DEF Wiring, IsStale, Fires, SettingsFire, Shells
  <2> QED
    BY <1>7, <2>4 DEF WholeOn
<1>8. CASE s = "opencode" /\ W = Wires[s]
  <2>1. "script" \in W /\ "skill" \in W
    BY <1>8 DEF Wires
  <2>2. d.script = "ours" /\ d.skill = "ours"
    BY <1>1, <2>1 DEF ScriptDone, PluginDone
  <2>3. PluginWiring(s, d) = "wired" /\ ~PluginStale(s, d)
    BY <1>8, <2>2 DEF PluginWiring, ScriptWiring, PluginStale
  <2>4. Wiring(s, d) = "wired" /\ ~IsStale(s, d) /\ Required \subseteq Fires(s, d)
    BY <1>8, <2>2, <2>3 DEF Wiring, IsStale, Fires, Shells
  <2> QED
    BY <1>8, <2>2, <2>4 DEF WholeOn
<1>9. CASE s \in Shells
  <2>1. "rc" \in W
    BY <1>2, <1>9 DEF Shells, Wires
  <2>2. d.rc = RcInstall(s, f.rc)
    BY <1>1, <2>1 DEF RcDone
  <2>3. /\ ~IsStale(s, d)
        /\ ~HandWritten(s, f) /\ ~HalfAmbient(s, f) => Wiring(s, d) = "wired" /\ Required \subseteq Fires(s, d)
    BY <1>9, <2>2, ShellWhole
  <2>4. s \notin {"claude", "codex", "cursor", "copilot", "opencode"}
    BY <1>9 DEF Shells
  <2> QED
    BY <2>3, <2>4 DEF WholeOn
<1> QED
  BY <1>2, <1>5, <1>6, <1>7, <1>8, <1>9 DEF Clients, Plugins, Shells

(* A verb that wires and stops has met a file that was not fufu's.         *)
LEMMA RefusedWhy ==
  ASSUME NEW s \in Clients, NEW v, v \in Verbs, v # "unhook", NEW f, NEW W, W = Written(v, s, f),
         NEW ran \in SUBSET W, NEW x \in W, x \notin ran, Ready(W, ran, x), NEW d \in Disks(s), NEW m,
         v = verb, Refuses(s, x, d), Done(v, s, f, ran, d, m)
  PROVE  Refusable(s, f)
<1>1. /\ PluginDone(s, ran, d) /\ SettingsDone(s, f, ran, d) /\ MarketDone(v, s, f, ran, d, m)
      /\ ScriptDone(f, ran, d)
  BY DEF Done
<1>2. CASE x \in {"wire", "strip"}
  BY <1>1, <1>2 DEF Refuses, SettingsDone, Refusable
<1>3. CASE x = "load"
  BY <1>1, <1>3 DEF Refuses, MarketDone, Refusable
<1>4. CASE x \in {"list", "unlist"}
  BY <1>1, <1>4 DEF Refuses, MarketDone, Refusable
<1>5. CASE x = "verify"
  <2>1. /\ s \in Plugins \union {"opencode"}
        /\ s \in Plugins => {"manifest", "hooks"} \subseteq W
        /\ s = "copilot" => {"list", "register"} \subseteq W
        /\ s = "opencode" => "script" \in W
    BY <1>5, WiringFacts
  <2>2. /\ <<"manifest", "verify">> \in Before /\ <<"hooks", "verify">> \in Before
        /\ <<"register", "verify">> \in Before /\ <<"script", "verify">> \in Before
    BY DEF Before
  <2>3. CASE s \in Plugins
    <3>1. /\ d.manifest = "ours" /\ d.hooks = Whole
          /\ s = "copilot" => "register" \in ran
      BY <1>1, <1>5, <2>1, <2>2, <2>3 DEF Ready, PluginDone
    <3>2. s = "copilot" => d.registry # Bad /\ Lists(d) /\ Registered(d, MarketName(d))
      BY <1>1, <3>1 DEF MarketDone
    <3>3. PluginWiring(s, d) = "wired"
      BY <2>3, <3>1, <3>2, PluginWhole
    <3> QED
      BY <1>5, <2>3, <3>3 DEF Refuses, Plugins
  <2>4. CASE s = "opencode"
    <3>1. d.script = "ours"
      BY <1>1, <1>5, <2>1, <2>2, <2>4 DEF Ready, ScriptDone
    <3> QED
      BY <1>5, <2>4, <3>1 DEF Refuses, PluginWiring, ScriptWiring, PluginStale
  <2> QED
    BY <2>1, <2>3, <2>4
<1>6. CASE x = "script"
  <2>1. s = "opencode" /\ "unscript" \notin W
    BY <1>6, WrittenFacts
  <2>2. d.script = f.script
    BY <1>1, <1>6, <2>1 DEF ScriptDone
  <2>3. d.script \in {"theirs", Torn}
    <3>1. ScriptWiring(d) = "hand"
      BY <1>6, <2>1 DEF Refuses, PluginWiring
    <3>2. d.script \in {None, Torn, "ours", "older", "dead", "theirs"}
      BY DiskFiles
    <3> QED
      BY <3>1, <3>2 DEF ScriptWiring
  <2> QED
    BY <2>2, <2>3 DEF Refusable
<1> QED
  BY <1>2, <1>3, <1>4, <1>5, <1>6 DEF Refuses

LEMMA EndsGone ==
  ASSUME NEW s \in Clients, NEW f \in Disks(s), NEW d \in Disks(s), NEW W, W = Unwires[s], NEW m,
         Done("unhook", s, f, W, d, m)
  PROVE  ~OursLeft(s, d, MarketName(f))
<1>1. /\ PluginDone(s, W, d) /\ SettingsDone(s, f, W, d) /\ MarketDone("unhook", s, f, W, d, m)
      /\ ScriptDone(f, W, d) /\ RcDone(s, f, W, d)
  BY DEF Done
<1>2. /\ s \in Plugins => "unplug" \in W
      /\ s = "opencode" => "unskill" \in W /\ "unscript" \in W
      /\ s \in {"claude", "qwen"} => "strip" \in W
      /\ s = "cursor" => "trystrip" \in W /\ "unmcp" \in W
      /\ s \in {"codex", "copilot"} => "unlist" \in W
      /\ s = "copilot" => "unregister" \in W
      /\ s \in Shells => "unrc" \in W
  BY DEF Plugins, Shells, Unwires
<1>3. d.manifest = None /\ d.hooks = None /\ d.skill = None
  <2>1. CASE s \in Plugins
    BY <1>1, <1>2, <2>1 DEF PluginDone
  <2>2. CASE s = "opencode"
    <3>1. d.skill = None
      BY <1>1, <1>2, <2>2 DEF PluginDone
    <3> QED
      BY <2>2, <3>1, DiskFiles DEF Plugins
  <2>3. CASE s \notin Plugins \union {"opencode"}
    BY <2>3, DiskFiles
  <2> QED
    BY <2>1, <2>2, <2>3
<1>4. s # "codex" => WiredEvents(s, d.settings) = {}
  <2>1. CASE s \in {"claude", "qwen", "cursor"}
    BY <1>1, <1>2, <2>1 DEF SettingsDone
  <2>2. CASE s \notin {"claude", "qwen", "cursor", "codex"}
    <3>1. d.settings = None
      BY <2>2, DiskFiles
    <3> QED
      BY <3>1, WiredIs
  <2> QED
    BY <2>1, <2>2
<1>5. s \in {"claude", "cursor"} => "mcp" \notin d.relics
  BY <1>1, <1>2 DEF PluginDone, Plugins
<1>6. ~Lists(d)
  <2>1. CASE s \in {"codex", "copilot"}
    BY <1>1, <1>2, <2>1 DEF MarketDone
  <2>2. CASE s \notin {"codex", "copilot"}
    BY <2>2, DiskFiles DEF Lists
  <2> QED
    BY <2>1, <2>2
<1>7. ~(d.registry # Bad /\ Mentions(d, MarketName(f)))
  <2>1. CASE s = "copilot"
    BY <1>1, <1>2, <2>1 DEF MarketDone, Mentions
  <2>2. CASE s # "copilot"
    BY <2>2, DiskFiles DEF Mentions, Bare
  <2> QED
    BY <2>1, <2>2
<1>8. d.script \notin {"ours", "older", "dead"}
  <2>1. CASE s = "opencode"
    BY <1>1, <1>2, <2>1 DEF ScriptDone
  <2>2. CASE s # "opencode"
    BY <2>2, DiskFiles, FilesAre DEF Texts
  <2> QED
    BY <2>1, <2>2
<1>9. \A l \in RcLines(d) : ~Marked(l)
  <2>1. CASE s \in Shells
    <3>1. d.rc = RcUninstall(f.rc) /\ f.rc \in Seq(Lines(s))
      BY <1>1, <1>2, <2>1, DiskFiles DEF RcDone
    <3> QED
      BY <2>1, <3>1, RcUninstallFacts DEF RcLines
  <2>2. CASE s \notin Shells
    <3>1. d.rc = << >>
      BY <2>2, DiskFiles
    <3>2. ToSet(<< >>) = {}
      BY DEF ToSet
    <3> QED
      BY <3>1, <3>2 DEF RcLines
  <2> QED
    BY <2>1, <2>2
<1> QED
  BY <1>3, <1>4, <1>5, <1>6, <1>7, <1>8, <1>9 DEF OursLeft

-----------------------------------------------------------------------------
(***************************************************************************)
(* What a write keeps.                                                     *)
(***************************************************************************)

(* Nothing but a strip takes an event out of a settings file.              *)
LEMMA WiredGrows ==
  ASSUME NEW s \in Clients, NEW d \in Disks(s), NEW x, x \notin {"strip", "trystrip"}, NEW m, NEW e,
         ~Refuses(s, x, d), Wrote(s, x, d, m, e)
  PROVE  WiredEvents(s, d.settings) \subseteq WiredEvents(s, e.settings)
<1>1. CASE x = "wire"
  <2>1. e.settings = SettingsInstall(s, d.settings)
    BY <1>1 DEF Wrote
  <2>2. d.settings \in {None} \union SettingsFiles
    BY <1>1, DiskFiles DEF Refuses
  <2>3. TableOf(s) \subseteq WiredEvents(s, e.settings)
    BY <2>1, <2>2, SettingsInstallFacts
  <2>4. WiredEvents(s, d.settings) \subseteq TableOf(s)
    BY WiredIs
  <2> QED
    BY <2>3, <2>4
<1>2. CASE x # "wire"
  <2>1. e.settings = d.settings
    BY <1>2 DEF Wrote
  <2> QED
    BY <2>1
<1> QED
  BY <1>1, <1>2

(* Nothing but its removal takes an event out of a plugin.                 *)
LEMMA PluginGrows ==
  ASSUME NEW s, NEW d, NEW x, x # "unplug", NEW m, NEW e, Wrote(s, x, d, m, e)
  PROVE  PluginFires(d) \subseteq PluginFires(e)
<1>1. (e.manifest = "ours" \/ e.manifest = d.manifest) /\ (e.hooks = Whole \/ e.hooks = d.hooks)
  BY DEF Wrote
<1>2. Carries(d.hooks) \subseteq Events /\ Carries(Whole) = Events /\ \A k \in Events : Whole[k] = "now"
  BY WholeIs DEF Carries
<1> QED
  BY <1>1, <1>2 DEF PluginFires

LEMMA WholeFires ==
  ASSUME NEW d, d.manifest = "ours", d.hooks = Whole
  PROVE  Required \subseteq PluginFires(d)
BY WholeIs DEF PluginFires, Required, Events

(* The listing of a plugin, and its registration, once there stay.         *)
LEMMA MarketGrows ==
  ASSUME NEW s \in Clients, NEW d \in Disks(s), NEW x, x \notin {"unlist", "unregister"}, NEW m, NEW e,
         ~Refuses(s, x, d), Wrote(s, x, d, m, e)
  PROVE  /\ Lists(d) => Lists(e)
         /\ MarketName(e) = MarketName(d)
         /\ d.registry # Bad => /\ e.registry # Bad
                                /\ Registered(d, MarketName(d)) => Registered(e, MarketName(e))
<1>1. \A k \in Markets : k \notin {None, Bad}
  BY FilesAre
<1>2. \A k \in Registries : k # Bad
  BY FilesAre
<1>3. (Lists(d) => Lists(e)) /\ MarketName(e) = MarketName(d)
  <2>1. CASE x = "list"
    <3>1. d.market # Bad
      BY <2>1 DEF Refuses
    <3>2. e.market \in Markets /\ e.market.name = MarketName(d) /\ "fufu" \in e.market.plugins
      BY <2>1, <3>1, MarketFacts DEF Wrote
    <3> QED
      BY <1>1, <3>2 DEF Lists, MarketName
  <2>2. CASE x # "list"
    <3>1. e.market = d.market
      BY <2>2 DEF Wrote
    <3> QED
      BY <3>1 DEF Lists, MarketName
  <2> QED
    BY <2>1, <2>2
<1>4. ASSUME d.registry # Bad
      PROVE  e.registry # Bad /\ (Registered(d, MarketName(d)) => Registered(e, MarketName(d)))
  <2>1. CASE x = "register"
    <3>1. d.registry \in Registries /\ MarketName(d) \in {"own", "tower"}
      BY <1>4, DiskFiles, MarketFacts
    <3>2. e.registry = [enabled |-> d.registry.enabled \union {MarketName(d)},
                        known |-> d.registry.known \union {MarketName(d)}]
      BY <2>1 DEF Wrote
    <3>3. e.registry \in Registries
      BY <3>1, <3>2 DEF Registries
    <3> QED
      BY <1>2, <3>2, <3>3 DEF Registered
  <2>2. CASE x # "register"
    <3>1. e.registry = d.registry
      BY <2>2 DEF Wrote
    <3> QED
      BY <1>4, <3>1 DEF Registered
  <2> QED
    BY <2>1, <2>2
<1> QED
  BY <1>3, <1>4

(* A write of a program that wires costs its client no required event.     *)
LEMMA CaptureKept ==
  ASSUME NEW s \in Clients, NEW v, v \in Verbs, v # "unhook", NEW f, NEW W, W = Written(v, s, f),
         NEW ran \in SUBSET W, NEW x \in W, Ready(W, ran, x), NEW d \in Disks(s), NEW m, NEW e,
         ~Refuses(s, x, d), Done(v, s, f, ran, d, m), Wrote(s, x, d, m, e), AddedOn(s, d)
  PROVE  Fires(s, d) \cap Required \subseteq Fires(s, e)
<1>1. PluginDone(s, ran, d) /\ SettingsDone(s, f, ran, d) /\ MarketDone(v, s, f, ran, d, m)
  BY DEF Done
<1>2. /\ x \notin {"unlist", "unregister", "unscript", "unskill", "unrc"}
      /\ x = "unplug" => s = "claude" /\ "wire" \in W
      /\ x = "strip" => s = "claude" /\ {"manifest", "hooks"} \subseteq W
      /\ x = "trystrip" => /\ s \in {"codex", "cursor"} /\ {"manifest", "hooks"} \subseteq W
                           /\ s = "codex" => "list" \in W
  BY WiringFacts
<1>3. /\ <<"manifest", "strip">> \in Before /\ <<"hooks", "strip">> \in Before
      /\ <<"manifest", "trystrip">> \in Before /\ <<"hooks", "trystrip">> \in Before
      /\ <<"list", "trystrip">> \in Before /\ <<"hooks", "add">> \in Before /\ <<"wire", "unplug">> \in Before
  BY DEF Before
<1>4. x \in {"strip", "trystrip"} => d.manifest = "ours" /\ d.hooks = Whole
  BY <1>1, <1>2, <1>3 DEF Ready, PluginDone
<1>5. x \in {"strip", "trystrip"} => e.manifest = "ours" /\ e.hooks = Whole
  BY <1>4 DEF Wrote
<1>6. x \notin {"strip", "trystrip"} => WiredEvents(s, d.settings) \subseteq WiredEvents(s, e.settings)
  BY WiredGrows
<1>7. x # "unplug" => PluginFires(d) \subseteq PluginFires(e)
  BY PluginGrows
<1>8. CASE s \in {"claude", "cursor"}
  <2>1. \A k : Fires(s, k) = SettingsFire(s, k) \union PluginFires(k)
    BY <1>8 DEF Fires
  <2>2. CASE x \in {"strip", "trystrip"}
    <3>1. Required \subseteq PluginFires(e)
      BY <1>5, <2>2, WholeFires
    <3> QED
      BY <2>1, <3>1
  <2>3. CASE x = "unplug"
    <3>1. "wire" \in ran
      BY <1>2, <1>3, <2>3 DEF Ready
    <3>2. TableOf(s) \subseteq WiredEvents(s, d.settings)
      BY <1>1, <3>1 DEF SettingsDone
    <3>3. Required \subseteq WiredEvents(s, e.settings)
      BY <1>6, <2>3, <3>2, TableIs
    <3> QED
      BY <2>1, <3>3 DEF SettingsFire
  <2>4. CASE x \notin {"strip", "trystrip", "unplug"}
    <3>1. SettingsFire(s, d) \subseteq SettingsFire(s, e) /\ PluginFires(d) \subseteq PluginFires(e)
      BY <1>6, <1>7, <2>4 DEF SettingsFire
    <3> QED
      BY <2>1, <3>1
  <2> QED
    BY <2>2, <2>3, <2>4
<1>9. CASE s = "codex"
  <2>1. \A k : Fires(s, k) = SettingsFire(s, k) \union
                             {ev \in Events : Lists(k) /\ k.cache # None /\ k.cache[ev] = "now"}
    BY <1>9 DEF Fires
  <2>2. Required \subseteq Events
    BY DEF Required, Events
  <2>3. Lists(d) => Lists(e)
    BY <1>2, MarketGrows
  <2>4. CASE x = "trystrip"
    <3>1. "list" \in ran
      BY <1>2, <1>3, <1>9, <2>4 DEF Ready
    <3>2. Lists(e)
      BY <1>1, <2>3, <3>1 DEF MarketDone
    <3>3. e.cache = d.cache
      BY <2>4 DEF Wrote
    <3>4. e.cache # None /\ \A ev \in Required : e.cache[ev] = "now"
      BY <1>9, <3>3 DEF AddedOn
    <3>5. Required \subseteq Fires(s, e)
      BY <2>1, <2>2, <3>2, <3>4
    <3> QED
      BY <3>5
  <2>5. CASE x = "add"
    <3>1. "hooks" \in ran
      <4>1. "hooks" \in W
        BY <2>5, WrittenFacts
      <4> QED
        BY <1>3, <2>5, <4>1 DEF Ready
    <3>2. e.cache = Whole
      BY <1>1, <2>5, <3>1 DEF Wrote, PluginDone
    <3>3. e.cache # None /\ \A ev \in Events : e.cache[ev] = "now"
      BY <3>2, WholeIs
    <3>4. SettingsFire(s, d) \subseteq SettingsFire(s, e)
      BY <1>6, <2>5 DEF SettingsFire
    <3> QED
      BY <2>1, <2>3, <3>3, <3>4
  <2>6. CASE x \notin {"trystrip", "add"}
    <3>1. e.cache = d.cache
      BY <2>6 DEF Wrote
    <3>2. SettingsFire(s, d) \subseteq SettingsFire(s, e)
      BY <1>2, <1>6, <1>9, <2>6 DEF SettingsFire
    <3> QED
      BY <2>1, <2>3, <3>1, <3>2
  <2> QED
    BY <2>4, <2>5, <2>6
<1>10. CASE s = "copilot"
  <2>1. \A k : Fires(s, k) = {ev \in PluginFires(k) : k.registry # Bad /\ Lists(k) /\ Registered(k, MarketName(k))}
    BY <1>10 DEF Fires
  <2>2. PluginFires(d) \subseteq PluginFires(e)
    BY <1>2, <1>7, <1>10
  <2>3. /\ Lists(d) => Lists(e)
        /\ d.registry # Bad => /\ e.registry # Bad
                               /\ Registered(d, MarketName(d)) => Registered(e, MarketName(e))
    BY <1>2, MarketGrows
  <2> QED
    BY <2>1, <2>2, <2>3
<1>11. CASE s = "qwen"
  <2>1. \A k : Fires(s, k) = SettingsFire(s, k)
    BY <1>11 DEF Fires
  <2>2. x \notin {"strip", "trystrip"}
    BY <1>2, <1>11
  <2> QED
    BY <1>6, <2>1, <2>2 DEF SettingsFire
<1>12. CASE s = "opencode"
  <2>1. \A k : Fires(s, k) = IF k.script \in {"ours", "older"} THEN Required ELSE {}
    BY <1>12 DEF Fires
  <2>2. e.script = "ours" \/ e.script = d.script
    BY <1>2 DEF Wrote
  <2> QED
    BY <2>1, <2>2
<1>13. CASE s \in Shells
  <2>1. W = {"rc"}
    BY <1>13 DEF Written, Wires, Shells
  <2>2. e.rc = RcInstall(s, d.rc)
    BY <2>1 DEF Wrote
  <2> QED
    BY <1>13, <2>2, ShellWhole
<1> QED
  BY <1>8, <1>9, <1>10, <1>11, <1>12, <1>13 DEF Clients, Shells

(* What is not fufu's, the same after a write.                             *)
Commanded(s, file) ==
  IF Readable(file) THEN [k \in Events |-> Foreign(s, file[k])] ELSE Hookless

LEMMA CommandedKept ==
  ASSUME NEW s \in Clients, NEW d \in Disks(s), NEW x, NEW m, NEW e,
         ~Refuses(s, x, d), Wrote(s, x, d, m, e)
  PROVE  /\ Commanded(s, e.settings) = Commanded(s, d.settings)
         /\ e.settings = Bad <=> d.settings = Bad
<1>1. d.settings \in {None, Bad} \union SettingsFiles
  BY DiskFiles
<1>2. CASE x = "wire"
  <2>1. e.settings = SettingsInstall(s, d.settings) /\ d.settings \in {None} \union SettingsFiles
    BY <1>1, <1>2 DEF Wrote, Refuses
  <2>2. /\ e.settings \in SettingsFiles
        /\ \A k \in Events : Foreign(s, e.settings[k])
                               = IF d.settings = None THEN {} ELSE Foreign(s, d.settings[k])
    BY <2>1, SettingsInstallFacts
  <2>3. Readable(e.settings) /\ e.settings # Bad
    BY <2>2, FilesAre DEF Readable
  <2>4. Commanded(s, e.settings) = [k \in Events |-> Foreign(s, e.settings[k])]
    BY <2>3 DEF Commanded
  <2>5. CASE d.settings = None
    <3>1. Commanded(s, d.settings) = [k \in Events |-> {}]
      BY <2>5 DEF Commanded, Readable, Hookless
    <3> QED
      BY <2>2, <2>3, <2>4, <2>5, <3>1, FilesAre
  <2>6. CASE d.settings # None
    <3>1. Readable(d.settings) /\ d.settings # Bad
      BY <2>1, <2>6, FilesAre DEF Readable
    <3>2. Commanded(s, d.settings) = [k \in Events |-> Foreign(s, d.settings[k])]
      BY <3>1 DEF Commanded
    <3> QED
      BY <2>2, <2>3, <2>4, <2>6, <3>1, <3>2
  <2> QED
    BY <2>5, <2>6
<1>3. CASE x \in {"strip", "trystrip"}
  <2>1. e.settings = Stripped(s, d)
    BY <1>3 DEF Wrote
  <2>2. CASE d.settings \in {None, Bad}
    BY <2>1, <2>2, StrippedFacts
  <2>3. CASE d.settings \in SettingsFiles
    <3>1. /\ e.settings \in SettingsFiles
          /\ \A k \in Events : Foreign(s, e.settings[k]) = Foreign(s, d.settings[k])
      BY <2>1, <2>3, StrippedFacts
    <3>2. Readable(e.settings) /\ Readable(d.settings) /\ e.settings # Bad /\ d.settings # Bad
      BY <2>3, <3>1, FilesAre DEF Readable
    <3> QED
      BY <3>1, <3>2 DEF Commanded
  <2> QED
    BY <1>1, <2>2, <2>3
<1>4. CASE x \notin {"wire", "strip", "trystrip"}
  <2>1. e.settings = d.settings
    BY <1>4 DEF Wrote
  <2> QED
    BY <2>1
<1> QED
  BY <1>2, <1>3, <1>4

LEMMA TheirsKept ==
  ASSUME NEW s \in Clients, NEW d \in Disks(s), NEW x, NEW m, NEW e, e \in Disks(s),
         x \in {"rc", "unrc"} => s \in Shells, x = "script" => s = "opencode",
         x \in {"register", "unregister"} => d.registry # Bad /\ e.registry # Bad,
         ~Refuses(s, x, d), Wrote(s, x, d, m, e)
  PROVE  Theirs(s, e) = Theirs(s, d)
<1>1. \A k : Theirs(s, k)
               = [commands |-> Commanded(s, k.settings),
                  broken |-> k.settings = Bad \/ k.market = Bad \/ k.registry = Bad,
                  relics |-> k.relics \cap {"mine"},
                  listed |-> k.market \notin {None, Bad} /\ "tower" \in k.market.plugins,
                  script |-> k.script = "theirs", lines |-> Unmarked(k.rc)]
  BY Zenon DEF Theirs, Commanded, Foreign
<1>2. /\ Commanded(s, e.settings) = Commanded(s, d.settings)
      /\ e.settings = Bad <=> d.settings = Bad
  BY CommandedKept
<1>3. /\ e.market = Bad <=> d.market = Bad
      /\ (e.market \notin {None, Bad} /\ "tower" \in e.market.plugins)
           <=> (d.market \notin {None, Bad} /\ "tower" \in d.market.plugins)
  <2>1. CASE x = "list"
    <3>1. d.market # Bad
      BY <2>1 DEF Refuses
    <3>2. e.market \in Markets /\ ("tower" \in e.market.plugins <=> d.market # None /\ "tower" \in d.market.plugins)
      BY <2>1, <3>1, MarketFacts DEF Wrote
    <3> QED
      BY <3>1, <3>2, FilesAre
  <2>2. CASE x = "unlist"
    <3>1. e.market = Unlisted(s, d)
      BY <2>2 DEF Wrote
    <3> QED
      BY <3>1, MarketFacts
  <2>3. CASE x \notin {"list", "unlist"}
    <3>1. e.market = d.market
      BY <2>3 DEF Wrote
    <3> QED
      BY <3>1
  <2> QED
    BY <2>1, <2>2, <2>3
<1>4. e.registry = Bad <=> d.registry = Bad
  BY DEF Wrote
<1>5. e.relics \cap {"mine"} = d.relics \cap {"mine"}
  <2>1. s = "claude" => "mine" \notin d.relics
    BY DiskFiles
  <2>2. \/ e.relics = d.relics \/ e.relics = d.relics \ {"skill"} \/ e.relics = d.relics \ {"mcp"}
        \/ s = "claude" /\ e.relics = {}
    BY DEF Wrote
  <2> QED
    BY <2>1, <2>2
<1>6. e.script = "theirs" <=> d.script = "theirs"
  <2>1. x = "script" => d.script # "theirs"
    <3>1. d.script = "theirs" => ScriptWiring(d) = "hand"
      BY FilesAre DEF Texts, ScriptWiring
    <3>2. s = "opencode" => PluginWiring(s, d) = ScriptWiring(d)
      BY DEF PluginWiring
    <3> QED
      BY <3>1, <3>2 DEF Refuses
  <2> QED
    BY <2>1, FilesAre DEF Wrote, Texts
<1>7. Unmarked(e.rc) = Unmarked(d.rc)
  <2>1. d.rc \in Seq(Lines(s))
    BY DiskFiles
  <2>2. e.rc = d.rc \/ (s \in Shells /\ (e.rc = RcInstall(s, d.rc) \/ e.rc = RcUninstall(d.rc)))
    BY DEF Wrote
  <2> QED
    BY <2>1, <2>2, RcInstallFacts, RcUninstallFacts
<1> QED
  BY <1>1, <1>2, <1>3, <1>4, <1>5, <1>6, <1>7

(* A repair takes from a running Claude only what its settings made up for. *)
LEMMA RepairKept ==
  ASSUME NEW v \in {"update", "fix"}, NEW f, NEW W, W = Written(v, "claude", f), NEW x \in W,
         NEW d \in Disks("claude"), NEW m, NEW e, ~Refuses("claude", x, d), Wrote("claude", x, d, m, e),
         PluginWiring("claude", f) = "wired" => Required \subseteq loaded
  PROVE  Running(d) \cap Required \subseteq Running(e)
<1>1. CASE PluginWiring("claude", f) = "wired"
  BY <1>1 DEF Running
<1>2. CASE PluginWiring("claude", f) # "wired"
  <2>1. "claude" \in Clients /\ v \in Verbs
    BY DEF Clients, Verbs
  <2>2. W = Rewires
    BY <1>2, <2>1, WiringFacts
  <2>3. x \notin {"strip", "trystrip"}
    BY <2>2 DEF Rewires
  <2>4. WiredEvents("claude", d.settings) \subseteq WiredEvents("claude", e.settings)
    BY <2>1, <2>3, WiredGrows
  <2> QED
    BY <2>4 DEF Running, SettingsFire
<1> QED
  BY <1>1, <1>2

-----------------------------------------------------------------------------
(***************************************************************************)
(* A kill, and what happens between the verbs, leave disks.                *)
(***************************************************************************)
LEMMA SubLines ==
  ASSUME NEW S, NEW p \in Seq(S), NEW i \in 1..(Len(p) + 1), NEW j \in 0..Len(p)
  PROVE  SubSeq(p, i, j) \in Seq(S)
<1>1. ASSUME NEW k \in Int, NEW a \in Int, i <= k, k <= j PROVE p[k] \in S
  BY <1>1
<1>2. \A k \in i..j : p[k] \in S
  OBVIOUS
<1> QED
  BY <1>2, SubSeqProperties

LEMMA KillType ==
  ASSUME NEW s \in Clients, NEW v \in Verbs, NEW f, NEW d \in Disks(s), NEW x \in Written(v, s, f),
         x \in AnyStep, NEW m, NEW k \in CutShort(s, x, d, m)
  PROVE  k \in Disks(s)
<1> DEFINE W == Written(v, s, f)
           to == IF Refuses(s, x, d) THEN d ELSE After(s, x, d, m)
<1>1. /\ x = "manifest" \/ x = "hooks" \/ x = "unplug" => s \in Plugins
      /\ x = "skill" => s \in Plugins \union {"opencode"}
      /\ x = "script" => s = "opencode"
      /\ x \in {"rc", "unrc"} => s \in Shells
  <2>1. W = Written(v, s, f) /\ x \in W
    OBVIOUS
  <2> HIDE DEF W
  <2> QED
    BY <2>1, WrittenFacts, WiringFacts
<1>2. \/ k = d
      \/ x = "manifest" /\ k = [d EXCEPT !.manifest = Torn]
      \/ x = "hooks" /\ k = [d EXCEPT !.hooks = Torn]
      \/ x = "skill" /\ k = [d EXCEPT !.skill = "older"]
      \/ x = "script" /\ k = [d EXCEPT !.script = Torn]
      \/ x \in {"rc", "unrc"} /\ \E n \in 0..(Len(to.rc) - 1) : k = [d EXCEPT !.rc = SubSeq(to.rc, 1, n)]
      \/ x = "unplug" /\ \E gone \in SUBSET {"manifest", "hooks", "skill"} :
           k = [d EXCEPT !.manifest = IF "manifest" \in gone THEN None ELSE @,
                         !.hooks = IF "hooks" \in gone THEN None ELSE @,
                         !.skill = IF "skill" \in gone THEN None ELSE @]
  BY Zenon DEF CutShort
<1>3. CASE k = d
  BY <1>3
<1>4. CASE x = "manifest" /\ k = [d EXCEPT !.manifest = Torn]
  BY <1>1, <1>4, DiskWith
<1>5. CASE x = "hooks" /\ k = [d EXCEPT !.hooks = Torn]
  BY <1>1, <1>5, DiskWith
<1>6. CASE x = "skill" /\ k = [d EXCEPT !.skill = "older"]
  BY <1>1, <1>6, DiskWith
<1>7. CASE x = "script" /\ k = [d EXCEPT !.script = Torn]
  BY <1>1, <1>7, DiskWith
<1>8. CASE x \in {"rc", "unrc"} /\ \E n \in 0..(Len(to.rc) - 1) : k = [d EXCEPT !.rc = SubSeq(to.rc, 1, n)]
  <2>1. to \in Disks(s)
    BY <1>8, AfterType
  <2>2. to.rc \in Seq(Lines(s))
    BY <2>1, DiskFiles
  <2> DEFINE p == to.rc
  <2>3. PICK n \in 0..(Len(p) - 1) : k = [d EXCEPT !.rc = SubSeq(p, 1, n)]
    BY <1>8
  <2>4. p \in Seq(Lines(s))
    BY <2>2
  <2> HIDE DEF p, to
  <2>5. SubSeq(p, 1, n) \in Seq(Lines(s))
    <3>1. n \in 0..Len(p) /\ 1 \in 1..(Len(p) + 1)
      BY <2>4
    <3> QED
      BY <2>4, <3>1, SubLines
  <2>6. \A y \in Seq(Lines(s)) : [d EXCEPT !.rc = y] \in Disks(s)
    BY <1>1, <1>8, DiskWith
  <2> QED
    BY <2>3, <2>5, <2>6
<1>9. CASE x = "unplug" /\ \E gone \in SUBSET {"manifest", "hooks", "skill"} :
             k = [d EXCEPT !.manifest = IF "manifest" \in gone THEN None ELSE @,
                           !.hooks = IF "hooks" \in gone THEN None ELSE @,
                           !.skill = IF "skill" \in gone THEN None ELSE @]
  <2>1. PICK gone \in SUBSET {"manifest", "hooks", "skill"} :
          k = [d EXCEPT !.manifest = IF "manifest" \in gone THEN None ELSE @,
                        !.hooks = IF "hooks" \in gone THEN None ELSE @,
                        !.skill = IF "skill" \in gone THEN None ELSE @]
    BY <1>9
  <2>2. s \in Plugins
    BY <1>1, <1>9
  <2> DEFINE a == [d EXCEPT !.manifest = IF "manifest" \in gone THEN None ELSE d.manifest]
             b == [a EXCEPT !.hooks = IF "hooks" \in gone THEN None ELSE d.hooks]
             c == [b EXCEPT !.skill = IF "skill" \in gone THEN None ELSE d.skill]
  <2>3. /\ d.manifest \in {None, Torn, "ours"} /\ d.hooks \in {None, Torn} \union HooksFiles
        /\ d.skill \in {None, "ours", "older"}
    BY DiskFiles
  <2>4. k = c
    BY <2>1 DEF Disks
  <2>5. a \in Disks(s)
    BY <2>2, <2>3, DiskWith
  <2> HIDE DEF a
  <2>6. b \in Disks(s)
    <3>1. \A y \in {None, Torn} \union HooksFiles : [a EXCEPT !.hooks = y] \in Disks(s)
      BY <2>2, <2>5, DiskWith
    <3> QED
      BY <2>3, <3>1
  <2> HIDE DEF b
  <2>7. c \in Disks(s)
    <3>1. \A y \in {None, "ours", "older"} : [b EXCEPT !.skill = y] \in Disks(s)
      BY <2>2, <2>6, DiskWith
    <3> QED
      BY <2>3, <3>1
  <2> QED
    BY <2>4, <2>7
<1> QED
  BY <1>2, <1>3, <1>4, <1>5, <1>6, <1>7, <1>8, <1>9

LEMMA AgeMoveType ==
  ASSUME NEW s \in Clients, NEW d \in Disks(s)
  PROVE  Age(d) \in Disks(s) /\ Move(d) \in Disks(s)
<1> DEFINE skill == IF d.skill = "ours" THEN "older" ELSE d.skill
           aged == IF d.script = "ours" THEN "older" ELSE d.script
           moved == IF d.hooks \in {None, Torn} THEN d.hooks
                    ELSE [e \in Events |-> IF d.hooks[e] = None THEN None ELSE "dead"]
           copied == IF d.cache = None THEN d.cache
                     ELSE [e \in Events |-> IF d.cache[e] = None THEN None ELSE "dead"]
           broken == IF d.script \in {"ours", "older"} THEN "dead" ELSE d.script
<1>1. /\ d.hooks \in For(s, Plugins, {None, Torn} \union HooksFiles, None)
      /\ d.skill \in For(s, Plugins \union {"opencode"}, {None, "ours", "older"}, None)
      /\ d.script \in For(s, {"opencode"}, {None, Torn, "ours", "older", "dead", "theirs"}, None)
      /\ d.cache \in For(s, {"codex"}, {None} \union HooksFiles, None)
  BY DEF Disks
<1>2. None \notin {"ours", "older"}
  BY FilesAre DEF Texts
<1>3. skill \in For(s, Plugins \union {"opencode"}, {None, "ours", "older"}, None)
  BY <1>1, <1>2 DEF For
<1>4. /\ aged \in For(s, {"opencode"}, {None, Torn, "ours", "older", "dead", "theirs"}, None)
      /\ broken \in For(s, {"opencode"}, {None, Torn, "ours", "older", "dead", "theirs"}, None)
  BY <1>1, <1>2 DEF For
<1>5. moved \in For(s, Plugins, {None, Torn} \union HooksFiles, None)
  <2>1. [e \in Events |-> IF d.hooks[e] = None THEN None ELSE "dead"] \in HooksFiles
    BY DEF HooksFiles
  <2> QED
    BY <1>1, <2>1 DEF For
<1>10. copied \in For(s, {"codex"}, {None} \union HooksFiles, None)
  <2>1. [e \in Events |-> IF d.cache[e] = None THEN None ELSE "dead"] \in HooksFiles
    BY DEF HooksFiles
  <2> QED
    BY <1>1, <2>1 DEF For
<1>6. Age(d) = [d EXCEPT !.skill = skill, !.script = aged]
  BY DEF Age, Disks
<1>7. Move(d) = [d EXCEPT !.hooks = moved, !.cache = copied, !.script = broken]
  BY DEF Move, Disks
<1> HIDE DEF skill, aged, moved, copied, broken
<1>8. Age(d) \in Disks(s)
  BY <1>3, <1>4, <1>6 DEF Disks
<1>9. Move(d) \in Disks(s)
  BY <1>4, <1>5, <1>7, <1>10 DEF Disks
<1> QED
  BY <1>8, <1>9

LEMMA MineType ==
  ASSUME NEW file \in {None} \union SettingsFiles, NEW g \in Mine(file)
  PROVE  g \in SettingsFiles
<1> DEFINE f == IF file = None THEN Hookless ELSE file
<1>1. f \in SettingsFiles
  BY HooklessIs
<1>2. \/ g = [f EXCEPT !["tool"] = f["tool"] \union {{"mine"}}]
      \/ \E entry \in f["tool"] : g = [f EXCEPT !["tool"] = (f["tool"] \ {entry}) \union {entry \union {"mine"}}]
  BY <1>1 DEF Mine, SettingsFiles
<1> HIDE DEF f
<1>3. "tool" \in Events /\ f["tool"] \in SUBSET SUBSET Commands /\ "mine" \in Commands
  BY <1>1 DEF Events, SettingsFiles, Commands
<1>4. \A y \in SUBSET SUBSET Commands : [f EXCEPT !["tool"] = y] \in SettingsFiles
  BY <1>1 DEF SettingsFiles
<1>5. f["tool"] \union {{"mine"}} \in SUBSET SUBSET Commands
  BY <1>3
<1>6. \A entry \in f["tool"] : (f["tool"] \ {entry}) \union {entry \union {"mine"}} \in SUBSET SUBSET Commands
  BY <1>3
<1> QED
  BY <1>2, <1>4, <1>5, <1>6

LEMMA EditType ==
  ASSUME NEW s \in Clients, NEW d \in Disks(s), NEW k \in Edits(s, d)
  PROVE  k \in Disks(s)
<1>1. \/ k \in {Age(d), Move(d)}
      \/ (s \in {"claude", "qwen"} \/ d.settings # None) /\
           \/ k = [d EXCEPT !.settings = None] \/ k = [d EXCEPT !.settings = Bad]
           \/ d.settings # Bad /\ \E f \in Mine(d.settings) : k = [d EXCEPT !.settings = f]
      \/ s \in {"copilot", "codex"} /\ d.market # Bad /\ \E t \in Tower(d.market) : k = [d EXCEPT !.market = t]
      \/ s = "codex" /\ k = [d EXCEPT !.cache = None]
      \/ s \in Shells /\ \E rc \in WithoutOne(d.rc) \union {Append(d.rc, ByHand("alias")), Append(d.rc, ByHand("other"))} :
           k = [d EXCEPT !.rc = rc]
  BY Zenon DEF Edits
<1>2. CASE k \in {Age(d), Move(d)}
  BY <1>2, AgeMoveType
<1>3. CASE (s \in {"claude", "qwen"} \/ d.settings # None) /\
             \/ k = [d EXCEPT !.settings = None] \/ k = [d EXCEPT !.settings = Bad]
             \/ d.settings # Bad /\ \E f \in Mine(d.settings) : k = [d EXCEPT !.settings = f]
  <2>1. s \in {"claude", "codex", "cursor", "qwen"} /\ d.settings \in {None, Bad} \union SettingsFiles
    BY <1>3, DiskFiles
  <2>2. \A y \in {None, Bad} \union SettingsFiles : [d EXCEPT !.settings = y] \in Disks(s)
    BY <2>1, DiskWith
  <2>3. d.settings # Bad => \A f \in Mine(d.settings) : f \in SettingsFiles
    BY <2>1, MineType
  <2> QED
    BY <1>3, <2>2, <2>3
<1>4. CASE s \in {"copilot", "codex"} /\ d.market # Bad /\ \E t \in Tower(d.market) : k = [d EXCEPT !.market = t]
  <2>1. d.market \in {None} \union Markets
    BY <1>4, DiskFiles
  <2>2. Tower(d.market) \subseteq Markets
    <3>1. CASE d.market = None
      BY <3>1 DEF Tower, Markets
    <3>2. CASE d.market # None
      <4>1. d.market \in Markets
        BY <2>1, <3>2
      <4> DEFINE k1 == d.market
      <4>2. k1 \in Markets
        BY <4>1
      <4>3. Tower(k1) = {[k1 EXCEPT !.plugins = IF "tower" \in @ THEN @ \ {"tower"} ELSE @ \union {"tower"}]}
        BY <3>2 DEF Tower
      <4> HIDE DEF k1
      <4>4. Tower(k1) \subseteq Markets
        BY <4>2, <4>3 DEF Markets
      <4> QED
        BY <4>4 DEF k1
    <3> QED
      BY <3>1, <3>2
  <2>3. \A y \in {None, Bad} \union Markets : [d EXCEPT !.market = y] \in Disks(s)
    BY <1>4, DiskWith
  <2> QED
    BY <1>4, <2>2, <2>3
<1>5. CASE s = "codex" /\ k = [d EXCEPT !.cache = None]
  BY <1>5, DiskWith
<1>6. CASE s \in Shells /\ \E rc \in WithoutOne(d.rc) \union {Append(d.rc, ByHand("alias")), Append(d.rc, ByHand("other"))} :
             k = [d EXCEPT !.rc = rc]
  <2> DEFINE p == d.rc
             S == Lines(s)
  <2>1. p \in Seq(S)
    BY DiskFiles
  <2>2. \A y \in Seq(S) : [d EXCEPT !.rc = y] \in Disks(s)
    BY <1>6, DiskWith
  <2>3. ByHand("alias") \in S /\ ByHand("other") \in S
    BY DEF ByHand, Lines, PlainLines
  <2> HIDE DEF S
  <2>4. WithoutOne(p) \subseteq Seq(S)
    <3> HIDE DEF p
    <3> SUFFICES ASSUME NEW i \in 1..Len(p) PROVE SubSeq(p, 1, i - 1) \o SubSeq(p, i + 1, Len(p)) \in Seq(S)
      BY DEF WithoutOne
    <3>1. Len(p) \in Nat /\ 1 \in 1..(Len(p) + 1) /\ i - 1 \in 0..Len(p)
          /\ i + 1 \in 1..(Len(p) + 1) /\ Len(p) \in 0..Len(p)
      BY <2>1
    <3>2. SubSeq(p, 1, i - 1) \in Seq(S) /\ SubSeq(p, i + 1, Len(p)) \in Seq(S)
      BY <2>1, <3>1, SubLines
    <3> QED
      BY <3>2
  <2>5. Append(p, ByHand("alias")) \in Seq(S) /\ Append(p, ByHand("other")) \in Seq(S)
    BY <2>1, <2>3
  <2> QED
    BY <1>6, <2>2, <2>4, <2>5
<1> QED
  BY <1>1, <1>2, <1>3, <1>4, <1>5, <1>6

-----------------------------------------------------------------------------
(***************************************************************************)
(* The invariant: a program half run.                                      *)
(***************************************************************************)

(* The writes left are a program's, in its order, and those that are not
   left have run.                                                          *)
AtWork(v, s, p, f, d, m) ==
  /\ p \in Seq(AnyStep) /\ p # << >> /\ InOrderOf(p)
  /\ f \in Disks(s) /\ ToSet(p) \subseteq Written(v, s, f)
  /\ Done(v, s, f, Written(v, s, f) \ ToSet(p), d, m)

DisksType(disks) ==
  /\ disks = [s \in DOMAIN disks |-> disks[s]] /\ DOMAIN disks \subseteq Clients
  /\ \A s \in DOMAIN disks : disks[s] \in Disks(s)

HooksInv ==
  /\ DisksType(disk) /\ spent \in [verbs : Nat, edits : Nat, kills : Nat]
  /\ verb \in Verbs \union {None} /\ queue \in Seq(DOMAIN disk) /\ memo \in Memos
  /\ verb # None => /\ queue # << >>
                    /\ AtWork(verb, Head(queue), steps, from, disk[Head(queue)], memo)

LEMMA AtWorkFirst ==
  ASSUME NEW s \in Clients, NEW v \in Verbs, NEW d \in Disks(s), NEW m
  PROVE  AtWork(v, s, StepsOf(v, s, d), d, d, m)
<1> DEFINE p == StepsOf(v, s, d)
           W == Written(v, s, d)
<1>1. p \in Seq(AnyStep) /\ p # << >> /\ InOrderOf(p) /\ ToSet(p) = W
  BY ProgramOf DEF Programs
<1>2. W \ ToSet(p) = {}
  BY <1>1
<1>3. Done(v, s, d, W \ ToSet(p), d, m)
  BY <1>2, NothingDone
<1> QED
  BY <1>1, <1>3 DEF AtWork

(* The write at hand, and what it leaves.                                  *)
LEMMA AtWorkNext ==
  ASSUME NEW s \in Clients, NEW v, v \in Verbs, v = verb, NEW p, NEW f, NEW d \in Disks(s), NEW m \in Memos,
         AtWork(v, s, p, f, d, m), NEW x, x = Head(p), NEW W, W = Written(v, s, f), NEW ran, ran = W \ ToSet(p)
  PROVE  /\ x \in W /\ x \in AnyStep /\ ran \in SUBSET W /\ x \notin ran /\ Ready(W, ran, x)
         /\ f \in Disks(s) /\ Done(v, s, f, ran, d, m)
         /\ ~Refuses(s, x, d) =>
              /\ Noted(x, d, m) \in Memos
              /\ \A e : e = After(s, x, d, m) \/ (x = "add" /\ e = d) =>
                   /\ e \in Disks(s)
                   /\ Len(p) # 1 => AtWork(v, s, Tail(p), f, e, Noted(x, d, m))
                   /\ Len(p) = 1 => Done(v, s, f, W, e, Noted(x, d, m))
<1>1. /\ p \in Seq(AnyStep) /\ p # << >> /\ InOrderOf(p)
      /\ f \in Disks(s) /\ ToSet(p) \subseteq W /\ Done(v, s, f, ran, d, m)
  BY DEF AtWork
<1>2. /\ x \in ToSet(p) /\ x \in AnyStep
      /\ Tail(p) \in Seq(AnyStep) /\ InOrderOf(Tail(p))
      /\ ToSet(Tail(p)) = ToSet(p) \ {x}
      /\ Len(p) = 1 => ToSet(p) = {x}
      /\ Len(p) # 1 => Tail(p) # << >>
      /\ \A a : <<a, x>> \in Before => a \notin ToSet(p)
  BY <1>1, TailFacts
<1>3. x \in W /\ ran \in SUBSET W /\ x \notin ran /\ Ready(W, ran, x)
  BY <1>1, <1>2 DEF Ready
<1>4. /\ W \ ToSet(Tail(p)) = ran \union {x}
      /\ Len(p) = 1 => W = ran \union {x}
      /\ ToSet(Tail(p)) \subseteq W
  BY <1>1, <1>2
<1>5. ASSUME ~Refuses(s, x, d)
      PROVE  /\ Noted(x, d, m) \in Memos
             /\ \A e : e = After(s, x, d, m) \/ (x = "add" /\ e = d) =>
                  /\ e \in Disks(s)
                  /\ Len(p) # 1 => AtWork(v, s, Tail(p), f, e, Noted(x, d, m))
                  /\ Len(p) = 1 => Done(v, s, f, W, e, Noted(x, d, m))
  <2>1. After(s, x, d, m) \in Disks(s) /\ Noted(x, d, m) \in Memos
    BY <1>1, <1>2, <1>3, <1>5, StepType
  <2>2. Done(v, s, f, ran \union {x}, After(s, x, d, m), Noted(x, d, m))
    BY <1>1, <1>2, <1>3, <1>5, StepDone
  <2>3. x = "add" => Done(v, s, f, ran \union {x}, d, Noted(x, d, m))
    <3>1. x = "add" => Noted(x, d, m) = m
      BY DEF Noted
    <3> QED
      BY <1>1, <3>1, FailedAdd
  <2>4. ASSUME NEW e, e = After(s, x, d, m) \/ (x = "add" /\ e = d)
        PROVE  e \in Disks(s) /\ Done(v, s, f, ran \union {x}, e, Noted(x, d, m))
    BY <2>1, <2>2, <2>3, <2>4
  <2>5. ASSUME NEW e, e = After(s, x, d, m) \/ (x = "add" /\ e = d)
        PROVE  /\ Len(p) # 1 => AtWork(v, s, Tail(p), f, e, Noted(x, d, m))
               /\ Len(p) = 1 => Done(v, s, f, W, e, Noted(x, d, m))
    BY <1>1, <1>2, <1>4, <2>4, <2>5 DEF AtWork
  <2> QED
    BY <2>1, <2>4, <2>5
<1> QED
  BY <1>1, <1>2, <1>3, <1>5

LEMMA TakeUpKeeps ==
  ASSUME NEW disks, DisksType(disks), NEW v \in Verbs, NEW targets \in Seq(DOMAIN disks),
         TakeUp(v, targets, disks)
  PROVE  /\ verb' \in Verbs \union {None} /\ queue' \in Seq(DOMAIN disks) /\ memo' \in Memos
         /\ verb' # None => /\ queue' # << >>
                            /\ AtWork(verb', Head(queue'), steps', from', disks[Head(queue')], memo')
<1>1. queue' = targets /\ memo' \in Memos
  BY DEF TakeUp, Memos
<1>2. CASE targets = << >>
  BY <1>1, <1>2 DEF TakeUp
<1>3. CASE targets # << >>
  <2>1. Head(targets) \in DOMAIN disks
    BY <1>3
  <2> DEFINE s == Head(targets)
             d == disks[s]
  <2>2. s \in Clients /\ d \in Disks(s)
    BY <2>1 DEF DisksType
  <2>3. verb' = v /\ steps' = StepsOf(v, s, d) /\ from' = d
    BY <1>3 DEF TakeUp
  <2>4. AtWork(v, s, StepsOf(v, s, d), d, d, memo')
    BY <2>2, AtWorkFirst
  <2> QED
    BY <1>1, <1>3, <2>3, <2>4
<1> QED
  BY <1>2, <1>3

LEMMA TargetsType ==
  ASSUME DOMAIN disk \subseteq Clients, NEW v \in Verbs, NEW targets \in Targets(v)
  PROVE  targets \in Seq(DOMAIN disk)
<1>1. All \in Seq(Clients)
  <2>1. Len(All) = 8 /\ DOMAIN All = 1..8 /\ All = [i \in 1..8 |-> All[i]]
    BY DEF All
  <2>2. \A i \in 1..8 : All[i] \in Clients
    BY DEF All, Clients
  <2> QED
    BY ONLY <2>1, <2>2, SeqDef
<1>2. ASSUME NEW slugs \in SUBSET DOMAIN disk PROVE InOrder(slugs) \in Seq(DOMAIN disk)
  <2>1. Only(All, slugs) \in Seq(Clients \cap slugs)
    BY <1>1, OnlyType
  <2>2. Clients \cap slugs \subseteq DOMAIN disk
    OBVIOUS
  <2>3. \A S, T : S \subseteq T => Seq(S) \subseteq Seq(T)
    OBVIOUS
  <2> QED
    BY <2>1, <2>2, <2>3 DEF InOrder
<1>3. Drifted \in Seq(DOMAIN disk) /\ (Drifted # << >> => Head(Drifted) \in DOMAIN disk)
  <2>1. Drifted \in Seq(DOMAIN disk)
    BY <1>2 DEF Drifted
  <2> QED
    BY <2>1
<1>4. CASE v = "update"
  <2>1. targets = InOrder({s \in DOMAIN disk : Feeds(Wiring(s, disk[s]))})
    BY <1>4 DEF Targets
  <2> QED
    BY <1>2, <2>1
<1>5. CASE v = "fix"
  <2>1. targets = InOrder({s \in DOMAIN disk : Fixable(s)})
                    \o (IF Drifted = << >> THEN << >> ELSE <<Head(Drifted)>>)
    BY <1>5 DEF Targets
  <2>2. InOrder({s \in DOMAIN disk : Fixable(s)}) \in Seq(DOMAIN disk)
    BY <1>2
  <2>3. (IF Drifted = << >> THEN << >> ELSE <<Head(Drifted)>>) \in Seq(DOMAIN disk)
    <3>1. << >> \in Seq(DOMAIN disk) /\ \A s \in DOMAIN disk : <<s>> \in Seq(DOMAIN disk)
      OBVIOUS
    <3> QED
      BY <1>3, <3>1
  <2> QED
    BY <2>1, <2>2, <2>3
<1>6. CASE v \notin {"update", "fix"}
  <2>1. targets \in {<<s>> : s \in DOMAIN disk} \union {InOrder(DOMAIN disk)}
    BY <1>6 DEF Targets
  <2>2. \A s \in DOMAIN disk : <<s>> \in Seq(DOMAIN disk)
    OBVIOUS
  <2> QED
    BY <1>2, <2>1, <2>2
<1> QED
  BY <1>4, <1>5, <1>6

(* One write, in the terms of the lemmas above.                            *)
WriteOf(s, d, x, e) ==
  /\ disk' = [disk EXCEPT ![s] = e]
  /\ IF Len(steps) = 1 THEN \E said : Finish("ok", said, disk')
     ELSE /\ steps' = Tail(steps) /\ memo' = Noted(x, d, memo) /\ done' = NoneDone
          /\ verb' = verb /\ queue' = queue /\ from' = from

LEMMA WriteIs ==
  ASSUME HooksInv, Write, NEW s, s = Head(queue), NEW d, d = disk[s], NEW x, x = Head(steps)
  PROVE  /\ verb \in Verbs /\ queue # << >> /\ s \in DOMAIN disk /\ s \in Clients /\ d \in Disks(s)
         /\ AtWork(verb, s, steps, from, d, memo)
         /\ loaded' = loaded /\ spent' = spent
         /\ \/ Refuses(s, x, d) /\ disk' = disk /\ Finish("failed", answer, disk)
            \/ /\ ~Refuses(s, x, d)
               /\ \E e : (e = After(s, x, d, memo) \/ (x = "add" /\ e = d)) /\ WriteOf(s, d, x, e)
<1>1. verb # None /\ verb \in Verbs /\ queue # << >> /\ queue \in Seq(DOMAIN disk)
  BY DEF Write, Idle, HooksInv
<1>2. s \in DOMAIN disk
  BY <1>1
<1>3. s \in Clients /\ d \in Disks(s)
  BY <1>2 DEF HooksInv, DisksType
<1>4. AtWork(verb, s, steps, from, d, memo)
  BY <1>1 DEF HooksInv
<1>5. loaded' = loaded /\ spent' = spent
  BY DEF Write
<1>6. CASE Refuses(s, x, d)
  BY <1>1, <1>2, <1>3, <1>4, <1>5, <1>6 DEF Write
<1>7. CASE ~Refuses(s, x, d)
  <2>1. \E a \in Answers(x, d) :
          LET disks == [disk EXCEPT ![s] = IF a = "added" THEN After(s, x, d, memo) ELSE d]
              said == IF x = "add" THEN a ELSE answer
          IN  /\ disk' = disks
              /\ IF Len(steps) = 1 THEN Finish("ok", said, disks)
                 ELSE /\ steps' = Tail(steps)
                      /\ memo' = CASE x = "load" -> [memo EXCEPT !.name = MarketName(d)]
                                   [] x = "unlist" -> [memo EXCEPT !.stays = Stays(d)]
                                   [] OTHER -> memo
                      /\ answer' = said
                      /\ done' = NoneDone
                      /\ UNCHANGED <<verb, queue, from>>
    BY <1>7, Zenon DEF Write
  <2>2. PICK a \in Answers(x, d) :
          LET disks == [disk EXCEPT ![s] = IF a = "added" THEN After(s, x, d, memo) ELSE d]
              said == IF x = "add" THEN a ELSE answer
          IN  /\ disk' = disks
              /\ IF Len(steps) = 1 THEN Finish("ok", said, disks)
                 ELSE /\ steps' = Tail(steps)
                      /\ memo' = CASE x = "load" -> [memo EXCEPT !.name = MarketName(d)]
                                   [] x = "unlist" -> [memo EXCEPT !.stays = Stays(d)]
                                   [] OTHER -> memo
                      /\ answer' = said
                      /\ done' = NoneDone
                      /\ UNCHANGED <<verb, queue, from>>
    BY <2>1, Zenon
  <2> DEFINE e == IF a = "added" THEN After(s, x, d, memo) ELSE d
             said == IF x = "add" THEN a ELSE answer
             disks == [disk EXCEPT ![s] = e]
  <2>3. e = After(s, x, d, memo) \/ (x = "add" /\ e = d)
    <3>1. x # "add" => a = "added"
      BY <2>2 DEF Answers
    <3> QED
      BY <3>1
  <2>4. /\ disk' = disks
        /\ Len(steps) = 1 => Finish("ok", said, disks)
        /\ Len(steps) # 1 => /\ steps' = Tail(steps) /\ done' = NoneDone
                             /\ verb' = verb /\ queue' = queue /\ from' = from
                             /\ memo' = CASE x = "load" -> [memo EXCEPT !.name = MarketName(d)]
                                          [] x = "unlist" -> [memo EXCEPT !.stays = Stays(d)]
                                          [] OTHER -> memo
    BY <2>2, Zenon
  <2>5. Len(steps) # 1 => memo' = Noted(x, d, memo)
    BY <2>4, Zenon DEF Noted
  <2>6. WriteOf(s, d, x, e)
    <3>1. Len(steps) = 1 => Finish("ok", said, disk')
      BY <2>4, Zenon
    <3> HIDE DEF e, said
    <3> QED
      BY <2>4, <2>5, <3>1 DEF WriteOf
  <2> QED
    BY <1>1, <1>2, <1>3, <1>4, <1>5, <1>7, <2>3, <2>6
<1> QED
  BY <1>6, <1>7

LEMMA DiskPut ==
  ASSUME DisksType(disk), NEW s \in DOMAIN disk, NEW e \in Disks(s), NEW disks, disks = [disk EXCEPT ![s] = e]
  PROVE  DisksType(disks) /\ DOMAIN disks = DOMAIN disk /\ disks[s] = e
         /\ \A r \in DOMAIN disk : r # s => disks[r] = disk[r]
BY DEF DisksType

(* What a finished slug leaves to do.                                      *)
LEMMA FinishKeeps ==
  ASSUME HooksInv, verb \in Verbs, queue # << >>, NEW disks, DisksType(disks), DOMAIN disks = DOMAIN disk,
         NEW fate, NEW said, Finish(fate, said, disks)
  PROVE  /\ verb' \in Verbs \union {None} /\ queue' \in Seq(DOMAIN disks) /\ memo' \in Memos
         /\ verb' # None => /\ queue' # << >>
                            /\ AtWork(verb', Head(queue'), steps', from', disks[Head(queue')], memo')
<1> DEFINE targets == IF fate = "failed" /\ verb # "fix" THEN << >> ELSE Tail(queue)
<1>1. targets \in Seq(DOMAIN disks)
  <2>1. queue \in Seq(DOMAIN disks)
    BY DEF HooksInv
  <2>2. Tail(queue) \in Seq(DOMAIN disks) /\ << >> \in Seq(DOMAIN disks)
    BY <2>1
  <2> QED
    BY <2>2
<1>2. TakeUp(verb, targets, disks)
  BY DEF Finish
<1> HIDE DEF targets
<1> QED
  BY <1>1, <1>2, TakeUpKeeps

LEMMA WriteInv == HooksInv /\ Write => HooksInv'
<1> SUFFICES ASSUME HooksInv, Write PROVE HooksInv'
  OBVIOUS
<1> DEFINE s == Head(queue)
           d == disk[s]
           x == Head(steps)
           W == Written(verb, s, from)
           ran == W \ ToSet(steps)
<1>1. /\ verb \in Verbs /\ queue # << >> /\ s \in DOMAIN disk /\ s \in Clients /\ d \in Disks(s)
      /\ AtWork(verb, s, steps, from, d, memo)
      /\ loaded' = loaded /\ spent' = spent
      /\ \/ Refuses(s, x, d) /\ disk' = disk /\ Finish("failed", answer, disk)
         \/ /\ ~Refuses(s, x, d)
            /\ \E e : (e = After(s, x, d, memo) \/ (x = "add" /\ e = d)) /\ WriteOf(s, d, x, e)
  BY Zenon, WriteIs
<1>2. DisksType(disk) /\ memo \in Memos /\ queue \in Seq(DOMAIN disk)
      /\ spent \in [verbs : Nat, edits : Nat, kills : Nat]
  BY DEF HooksInv
<1> HIDE DEF s, d, x, W, ran
<1>3. CASE Refuses(s, x, d) /\ disk' = disk /\ Finish("failed", answer, disk)
  <2>1. /\ verb' \in Verbs \union {None} /\ queue' \in Seq(DOMAIN disk) /\ memo' \in Memos
        /\ verb' # None => /\ queue' # << >>
                           /\ AtWork(verb', Head(queue'), steps', from', disk[Head(queue')], memo')
    BY <1>1, <1>2, <1>3, FinishKeeps
  <2> QED
    BY <1>1, <1>2, <1>3, <2>1 DEF HooksInv
<1>4. ASSUME NEW e, e = After(s, x, d, memo) \/ (x = "add" /\ e = d), WriteOf(s, d, x, e), ~Refuses(s, x, d)
      PROVE  HooksInv'
  <2>1. /\ e \in Disks(s) /\ Noted(x, d, memo) \in Memos
        /\ Len(steps) # 1 => AtWork(verb, s, Tail(steps), from, e, Noted(x, d, memo))
    <3>1. x = Head(steps) /\ W = Written(verb, s, from) /\ ran = W \ ToSet(steps)
      BY DEF x, W, ran
    <3> DEFINE v == verb
               p == steps
               f == from
    <3>2. /\ s \in Clients /\ v \in Verbs /\ v = verb /\ d \in Disks(s) /\ memo \in Memos
          /\ AtWork(v, s, p, f, d, memo) /\ x = Head(p) /\ W = Written(v, s, f) /\ ran = W \ ToSet(p)
      BY <1>1, <1>2, <3>1
    <3> HIDE DEF v, p, f
    <3>3. /\ Noted(x, d, memo) \in Memos
          /\ \A k : k = After(s, x, d, memo) \/ (x = "add" /\ k = d) =>
               /\ k \in Disks(s)
               /\ Len(p) # 1 => AtWork(v, s, Tail(p), f, k, Noted(x, d, memo))
      BY <1>4, <3>2, AtWorkNext
    <3> QED
      BY <1>4, <3>3 DEF v, p, f
  <2>2. disk' = [disk EXCEPT ![s] = e]
    BY <1>4 DEF WriteOf
  <2>3. DisksType(disk') /\ DOMAIN disk' = DOMAIN disk /\ disk'[s] = e
    BY <1>1, <1>2, <2>1, <2>2, DiskPut
  <2>4. CASE Len(steps) = 1
    <3>1. PICK said : Finish("ok", said, disk')
      BY <1>4, <2>4 DEF WriteOf
    <3>2. /\ verb' \in Verbs \union {None} /\ queue' \in Seq(DOMAIN disk') /\ memo' \in Memos
          /\ verb' # None => /\ queue' # << >>
                             /\ AtWork(verb', Head(queue'), steps', from', disk'[Head(queue')], memo')
      BY <1>1, <2>3, <3>1, FinishKeeps
    <3> QED
      BY <1>1, <1>2, <2>3, <3>2 DEF HooksInv
  <2>5. CASE Len(steps) # 1
    <3>1. /\ steps' = Tail(steps) /\ memo' = Noted(x, d, memo)
          /\ verb' = verb /\ queue' = queue /\ from' = from
      BY <1>4, <2>5 DEF WriteOf
    <3>2. AtWork(verb', Head(queue'), steps', from', disk'[Head(queue')], memo')
      BY <2>1, <2>3, <2>5, <3>1 DEF s
    <3> QED
      BY <1>1, <1>2, <2>1, <2>3, <3>1, <3>2 DEF HooksInv
  <2> QED
    BY <2>4, <2>5
<1> QED
  BY <1>1, <1>3, <1>4

(* The write at hand, with all that is known of it.                        *)
LEMMA WriteKnown ==
  ASSUME HooksInv, Write, NEW s, s = Head(queue), NEW d, d = disk[s], NEW x, x = Head(steps),
         NEW W, W = Written(verb, s, from), NEW ran, ran = W \ ToSet(steps)
  PROVE  /\ x \in W /\ x \in AnyStep /\ ran \in SUBSET W /\ x \notin ran /\ Ready(W, ran, x)
         /\ from \in Disks(s) /\ Done(verb, s, from, ran, d, memo) /\ memo \in Memos
         /\ ~Refuses(s, x, d) =>
              \A e : e = After(s, x, d, memo) \/ (x = "add" /\ e = d) =>
                /\ e \in Disks(s)
                /\ Len(steps) = 1 => Done(verb, s, from, W, e, Noted(x, d, memo))
<1> DEFINE v == verb
           p == steps
           f == from
<1>1. /\ s \in Clients /\ v \in Verbs /\ v = verb /\ d \in Disks(s) /\ memo \in Memos
      /\ AtWork(v, s, p, f, d, memo) /\ x = Head(p) /\ W = Written(v, s, f) /\ ran = W \ ToSet(p)
  BY WriteIs DEF HooksInv
<1> HIDE DEF v, p, f
<1>2. /\ x \in W /\ x \in AnyStep /\ ran \in SUBSET W /\ x \notin ran /\ Ready(W, ran, x)
      /\ f \in Disks(s) /\ Done(v, s, f, ran, d, memo)
  BY ONLY <1>1, AtWorkNext
<1>3. ~Refuses(s, x, d) =>
        \A e : e = After(s, x, d, memo) \/ (x = "add" /\ e = d) =>
          /\ e \in Disks(s)
          /\ Len(p) = 1 => Done(v, s, f, W, e, Noted(x, d, memo))
  BY ONLY <1>1, AtWorkNext
<1> QED
  BY <1>1, <1>2, <1>3 DEF v, p, f

(* What a write that is not refused makes of its own disk.                 *)
LEMMA OwnDiskKept ==
  ASSUME HooksInv, Write, NEW s, s = Head(queue), NEW d, d = disk[s], NEW x, x = Head(steps),
         ~Refuses(s, x, d), NEW e, e = After(s, x, d, memo)
  PROVE  /\ verb # "unhook" /\ AddedOn(s, d) => Fires(s, d) \cap Required \subseteq Fires(s, e)
         /\ Theirs(s, e) = Theirs(s, d)
         /\ verb \in {"update", "fix"} /\ s = "claude"
              /\ (PluginWiring("claude", from) = "wired" => Required \subseteq loaded)
              => Running(d) \cap Required \subseteq Running(e)
<1> DEFINE W == Written(verb, s, from)
           ran == W \ ToSet(steps)
           v == verb
           f == from
<1>1. v \in Verbs /\ s \in Clients /\ d \in Disks(s)
  BY WriteIs
<1>2. /\ x \in W /\ x \in AnyStep /\ ran \in SUBSET W /\ x \notin ran /\ Ready(W, ran, x)
      /\ f \in Disks(s) /\ Done(v, s, f, ran, d, memo) /\ memo \in Memos /\ e \in Disks(s)
  <2>1. W = Written(verb, s, from) /\ ran = W \ ToSet(steps)
    OBVIOUS
  <2> HIDE DEF W, ran
  <2> QED
    BY <2>1, WriteKnown
<1>3. W = Written(v, s, f) /\ v = verb
  OBVIOUS
<1>4. Wrote(s, x, d, memo, e)
  BY <1>1, <1>2, AfterWrote
<1> HIDE DEF W, ran, v, f
<1>5. v # "unhook" /\ AddedOn(s, d) => Fires(s, d) \cap Required \subseteq Fires(s, e)
  BY <1>1, <1>2, <1>3, <1>4, CaptureKept
<1>6. Theirs(s, e) = Theirs(s, d)
  <2>1. /\ x \in {"rc", "unrc"} => s \in Shells
        /\ x = "script" => s = "opencode"
        /\ x \in {"register", "unregister"} => s = "copilot"
        /\ s = "copilot" => "load" \in W
    BY <1>1, <1>2, <1>3, WrittenFacts
  <2>2. x \in {"register", "unregister"} => "load" \in ran
    <3>1. <<"load", "register">> \in Before /\ <<"load", "unregister">> \in Before
      BY DEF Before
    <3> QED
      BY <1>2, <2>1, <3>1 DEF Ready
  <2>3. Done(v, s, f, ran \union {x}, e, Noted(x, d, memo))
    BY <1>1, <1>2, <1>3, StepDone
  <2>4. x \in {"register", "unregister"} => d.registry # Bad /\ e.registry # Bad
    BY <1>2, <2>2, <2>3 DEF Done, MarketDone
  <2> QED
    BY <1>1, <1>2, <1>4, <2>1, <2>4, TheirsKept
<1>7. ASSUME v \in {"update", "fix"}, s = "claude", PluginWiring("claude", f) = "wired" => Required \subseteq loaded
      PROVE  Running(d) \cap Required \subseteq Running(e)
  BY <1>1, <1>2, <1>3, <1>4, <1>7, RepairKept
<1> QED
  BY <1>5, <1>6, <1>7 DEF v, f

LEMMA WriteKeeps ==
  ASSUME HooksInv, Write
  PROVE  /\ verb # "unhook" =>
              \A r \in DOMAIN disk :
                Added(r) => Fires(r, disk[r]) \intersect Required \subseteq Fires(r, disk'[r])
         /\ \A r \in DOMAIN disk : Theirs(r, disk'[r]) = Theirs(r, disk[r])
         /\ verb \in {"update", "fix"} /\ Head(queue) = "claude"
              /\ (PluginWiring("claude", from) = "wired" => Required \subseteq loaded)
              => Running(disk["claude"]) \intersect Required \subseteq Running(disk'["claude"])
<1> DEFINE s == Head(queue)
           d == disk[s]
           x == Head(steps)
<1>1. /\ s \in DOMAIN disk /\ s \in Clients /\ d \in Disks(s)
      /\ \/ Refuses(s, x, d) /\ disk' = disk /\ Finish("failed", answer, disk)
         \/ /\ ~Refuses(s, x, d)
            /\ \E e : (e = After(s, x, d, memo) \/ (x = "add" /\ e = d)) /\ WriteOf(s, d, x, e)
  BY Zenon, WriteIs
<1>2. DisksType(disk)
  BY DEF HooksInv
<1>3. \A r \in DOMAIN disk : Added(r) => AddedOn(r, disk[r])
  BY DEF Added, AddedOn
<1>4. \A e : e = After(s, x, d, memo) /\ ~Refuses(s, x, d) =>
         /\ verb # "unhook" /\ AddedOn(s, d) => Fires(s, d) \cap Required \subseteq Fires(s, e)
         /\ Theirs(s, e) = Theirs(s, d)
         /\ verb \in {"update", "fix"} /\ s = "claude"
              /\ (PluginWiring("claude", from) = "wired" => Required \subseteq loaded)
              => Running(d) \cap Required \subseteq Running(e)
  <2>1. s = Head(queue) /\ d = disk[s] /\ x = Head(steps)
    OBVIOUS
  <2> HIDE DEF s, d, x
  <2> QED
    BY <2>1, OwnDiskKept
<1>5. d = disk[s] /\ s = Head(queue)
  OBVIOUS
<1> HIDE DEF s, d, x
<1>6. CASE disk' = disk
  BY <1>6
<1>7. ASSUME NEW e, e = After(s, x, d, memo) \/ (x = "add" /\ e = d), WriteOf(s, d, x, e), ~Refuses(s, x, d)
      PROVE  /\ verb # "unhook" =>
                  \A r \in DOMAIN disk :
                    Added(r) => Fires(r, disk[r]) \intersect Required \subseteq Fires(r, disk'[r])
             /\ \A r \in DOMAIN disk : Theirs(r, disk'[r]) = Theirs(r, disk[r])
             /\ verb \in {"update", "fix"} /\ Head(queue) = "claude"
                  /\ (PluginWiring("claude", from) = "wired" => Required \subseteq loaded)
                  => Running(disk["claude"]) \intersect Required \subseteq Running(disk'["claude"])
  <2>1. disk' = [disk EXCEPT ![s] = e]
    BY <1>7 DEF WriteOf
  <2>2. disk'[s] = e /\ \A r \in DOMAIN disk : r # s => disk'[r] = disk[r]
    BY <1>1, <1>2, <2>1 DEF DisksType
  <2>3. /\ verb # "unhook" /\ AddedOn(s, d) => Fires(s, d) \cap Required \subseteq Fires(s, e)
        /\ Theirs(s, e) = Theirs(s, d)
        /\ verb \in {"update", "fix"} /\ s = "claude"
             /\ (PluginWiring("claude", from) = "wired" => Required \subseteq loaded)
             => Running(d) \cap Required \subseteq Running(e)
    BY <1>4, <1>7
  <2>4. verb # "unhook" =>
          \A r \in DOMAIN disk : Added(r) => Fires(r, disk[r]) \cap Required \subseteq Fires(r, disk'[r])
    BY <1>1, <1>3, <1>5, <2>2, <2>3
  <2>5. \A r \in DOMAIN disk : Theirs(r, disk'[r]) = Theirs(r, disk[r])
    BY <1>1, <1>5, <2>2, <2>3
  <2> QED
    BY <1>1, <1>5, <2>2, <2>3, <2>4, <2>5
<1> QED
  BY <1>1, <1>6, <1>7

(* What an add that is behind a verb came to (Write, Answers): Codex's copy is
   the plugin, or the add failed, or it was skipped over a plugin that stood. *)
AddTold(f, d, a) ==
  \/ AddedOn("codex", d)
  \/ a = "failed"
  \/ a = "skipped" /\ f.hooks = Whole

AddSaid ==
  verb # None /\ verb # "unhook" /\ Head(queue) = "codex" /\ "add" \notin ToSet(steps) =>
    AddTold(from, disk["codex"], answer)

LEMMA TakeUpSaid ==
  ASSUME NEW disks, DisksType(disks), NEW v \in Verbs, NEW targets \in Seq(DOMAIN disks),
         TakeUp(v, targets, disks)
  PROVE  AddSaid'
<1>1. CASE targets = << >>
  BY <1>1 DEF TakeUp, AddSaid
<1>2. CASE targets # << >>
  <2> DEFINE s == Head(targets)
             d == disks[s]
  <2>1. s \in DOMAIN disks
    BY <1>2
  <2>2. s \in Clients /\ d \in Disks(s)
    BY <2>1 DEF DisksType
  <2>3. verb' = v /\ steps' = StepsOf(v, s, d) /\ queue' = targets
    BY <1>2 DEF TakeUp
  <2>4. v # "unhook" /\ s = "codex" => "add" \in ToSet(StepsOf(v, s, d))
    <3>1. ToSet(StepsOf(v, s, d)) = Written(v, s, d)
      BY <2>2, ProgramOf DEF Programs
    <3>2. v # "unhook" /\ s = "codex" => Written(v, s, d) = Wires["codex"]
      BY DEF Written
    <3>3. "add" \in Wires["codex"]
      BY DEF Wires
    <3> QED
      BY <3>1, <3>2, <3>3
  <2> QED
    BY <2>3, <2>4 DEF AddSaid
<1> QED
  BY <1>1, <1>2

LEMMA FinishSaid ==
  ASSUME HooksInv, verb \in Verbs, queue # << >>, NEW disks, DisksType(disks), DOMAIN disks = DOMAIN disk,
         NEW fate, NEW said, Finish(fate, said, disks)
  PROVE  AddSaid'
<1> DEFINE targets == IF fate = "failed" /\ verb # "fix" THEN << >> ELSE Tail(queue)
<1>1. targets \in Seq(DOMAIN disks)
  <2>1. queue \in Seq(DOMAIN disks)
    BY DEF HooksInv
  <2>2. Tail(queue) \in Seq(DOMAIN disks) /\ << >> \in Seq(DOMAIN disks)
    BY <2>1
  <2> QED
    BY <2>2
<1>2. TakeUp(verb, targets, disks)
  BY DEF Finish
<1> HIDE DEF targets
<1> QED
  BY <1>1, <1>2, TakeUpSaid

(* One write of a verb that wires Codex: what is known of the add after it. *)
LEMMA WriteTold ==
  ASSUME HooksInv, AddSaid, Write, NEW d, d = disk["codex"], NEW x, x = Head(steps),
         Head(queue) = "codex", verb # "unhook", ~Refuses("codex", x, d)
  PROVE  \E e, said :
           /\ disk'["codex"] = e /\ DisksType(disk') /\ DOMAIN disk' = DOMAIN disk
           /\ ToSet(steps) \subseteq {x} \union ToSet(Tail(steps))
           /\ x = "add" \/ "add" \notin ToSet(steps) => AddTold(from, e, said)
           /\ Len(steps) = 1 => ToSet(steps) = {x} /\ Finish("ok", said, disk')
           /\ Len(steps) # 1 => /\ steps' = Tail(steps) /\ answer' = said /\ done' = NoneDone
                                /\ verb' = verb /\ queue' = queue /\ from' = from
<1> DEFINE s == "codex"
           W == Written(verb, s, from)
           ran == W \ ToSet(steps)
<1>1. /\ verb \in Verbs /\ verb # None /\ queue # << >> /\ s \in DOMAIN disk /\ s \in Clients /\ d \in Disks(s)
      /\ AtWork(verb, s, steps, from, d, memo) /\ DisksType(disk)
  BY WriteIs, FilesAre DEF HooksInv, Texts
<1>2. /\ x \in W /\ x \in AnyStep /\ Ready(W, ran, x) /\ Done(verb, s, from, ran, d, memo)
      /\ \A e : e = After(s, x, d, memo) \/ (x = "add" /\ e = d) => e \in Disks(s)
  <2>1. s = Head(queue) /\ d = disk[s] /\ x = Head(steps) /\ W = Written(verb, s, from)
        /\ ran = W \ ToSet(steps)
    OBVIOUS
  <2> HIDE DEF s, W, ran
  <2>2. ~Refuses(s, x, d)
    BY DEF s
  <2> QED
    BY <2>1, <2>2, WriteKnown
<1>3. PICK a \in Answers(x, d) :
        LET disks == [disk EXCEPT !["codex"] = IF a = "added" THEN After("codex", x, d, memo) ELSE d]
            said == IF x = "add" THEN a ELSE answer
        IN  /\ disk' = disks
            /\ IF Len(steps) = 1 THEN Finish("ok", said, disks)
               ELSE /\ steps' = Tail(steps)
                    /\ memo' = CASE x = "load" -> [memo EXCEPT !.name = MarketName(d)]
                                 [] x = "unlist" -> [memo EXCEPT !.stays = Stays(d)]
                                 [] OTHER -> memo
                    /\ answer' = said
                    /\ done' = NoneDone
                    /\ UNCHANGED <<verb, queue, from>>
  BY Zenon DEF Write
<1> DEFINE e == IF a = "added" THEN After(s, x, d, memo) ELSE d
           said == IF x = "add" THEN a ELSE answer
<1>4. /\ disk' = [disk EXCEPT ![s] = e]
      /\ Len(steps) = 1 => Finish("ok", said, disk')
      /\ Len(steps) # 1 => /\ steps' = Tail(steps) /\ answer' = said /\ done' = NoneDone
                           /\ verb' = verb /\ queue' = queue /\ from' = from
  BY <1>3, Zenon
<1>5. e \in Disks(s)
  <2>1. x # "add" => a = "added"
    BY <1>3 DEF Answers
  <2> QED
    BY <1>2, <2>1
<1>6. /\ ToSet(steps) \subseteq {x} \union ToSet(Tail(steps))
      /\ Len(steps) = 1 => ToSet(steps) = {x}
  <2>1. steps \in Seq(AnyStep) /\ steps # << >> /\ InOrderOf(steps)
    BY <1>1 DEF AtWork
  <2>2. /\ ToSet(Tail(steps)) = ToSet(steps) \ {Head(steps)}
        /\ Len(steps) = 1 => ToSet(steps) = {Head(steps)}
    BY <2>1, TailFacts
  <2> QED
    BY <2>2
<1>7. Wrote(s, x, d, memo, After(s, x, d, memo))
  BY <1>1, <1>2, AfterWrote
<1>8. ASSUME x = "add"
      PROVE  AddTold(from, e, said)
  <2>1. "hooks" \in ran
    <3>1. <<"hooks", "add">> \in Before /\ "hooks" \in W
      BY <1>1 DEF Before, Written, Wires
    <3> QED
      BY <1>2, <1>8, <3>1 DEF Ready
  <2>2. d.hooks = Whole
    BY <1>2, <2>1 DEF Done, PluginDone
  <2>3. a \in {"added", "failed", "skipped"} /\ (a = "skipped" => Unmoved(d))
    BY <1>3, <1>8, AnswersAssumption DEF Answers
  <2>4. CASE a = "added"
    <3>1. e.cache = Whole
      BY <1>7, <1>8, <2>2, <2>4 DEF Wrote
    <3>2. \A k \in Required : Whole[k] = "now"
      BY DEF Required, Whole, Events
    <3>3. Whole # None
      BY WholeIs, FilesAre
    <3> QED
      BY <3>1, <3>2, <3>3 DEF AddTold, AddedOn
  <2>5. CASE a = "skipped"
    BY <1>8, <2>2, <2>3, <2>5 DEF AddTold, Unmoved
  <2>6. CASE a = "failed"
    BY <1>8, <2>6 DEF AddTold
  <2> QED
    BY <2>3, <2>4, <2>5, <2>6
<1>9. ASSUME x # "add", "add" \notin ToSet(steps)
      PROVE  AddTold(from, e, said)
  <2>1. AddTold(from, d, answer)
    BY <1>1, <1>9 DEF AddSaid
  <2>2. a = "added" /\ said = answer
    BY <1>3, <1>9 DEF Answers
  <2>3. e.cache = d.cache
    BY <1>7, <1>9, <2>2 DEF Wrote
  <2> QED
    BY <2>1, <2>2, <2>3 DEF AddTold, AddedOn
<1>10. DisksType(disk') /\ DOMAIN disk' = DOMAIN disk /\ disk'[s] = e
  <2> HIDE DEF e, s
  <2> QED
    BY <1>1, <1>4, <1>5, DiskPut
<1>11. x = "add" \/ "add" \notin ToSet(steps) => AddTold(from, e, said)
  BY <1>8, <1>9
<1> HIDE DEF e, said
<1> QED
  BY <1>4, <1>6, <1>10, <1>11

LEMMA WriteSaid == HooksInv /\ AddSaid /\ Write => AddSaid'
<1> SUFFICES ASSUME HooksInv, AddSaid, Write PROVE AddSaid'
  OBVIOUS
<1> DEFINE s == Head(queue)
           d == disk[s]
           x == Head(steps)
<1>1. /\ verb \in Verbs /\ queue # << >> /\ s \in DOMAIN disk /\ s \in Clients /\ d \in Disks(s)
      /\ \/ Refuses(s, x, d) /\ disk' = disk /\ Finish("failed", answer, disk)
         \/ /\ ~Refuses(s, x, d)
            /\ \E e : (e = After(s, x, d, memo) \/ (x = "add" /\ e = d)) /\ WriteOf(s, d, x, e)
  BY Zenon, WriteIs
<1>2. DisksType(disk)
  BY DEF HooksInv
<1>3. CASE Refuses(s, x, d)
  BY <1>1, <1>2, <1>3, FinishSaid
<1>4. CASE ~Refuses(s, x, d)
  <2>1. PICK e : (e = After(s, x, d, memo) \/ (x = "add" /\ e = d)) /\ WriteOf(s, d, x, e)
    BY <1>1, <1>4
  <2>2. e \in Disks(s)
    <3> DEFINE W == Written(verb, s, from)
               ran == W \ ToSet(steps)
    <3>1. /\ s = Head(queue) /\ d = disk[s] /\ x = Head(steps)
          /\ W = Written(verb, s, from) /\ ran = W \ ToSet(steps)
      OBVIOUS
    <3> HIDE DEF s, d, x, W, ran
    <3>2. \A k : k = After(s, x, d, memo) \/ (x = "add" /\ k = d) => k \in Disks(s)
      BY <1>4, <3>1, WriteKnown
    <3> QED
      BY <2>1, <3>2
  <2>3. DisksType(disk') /\ DOMAIN disk' = DOMAIN disk
    <3>1. disk' = [disk EXCEPT ![s] = e]
      BY <2>1 DEF WriteOf
    <3> HIDE DEF s, d, x
    <3> QED
      BY <1>1, <1>2, <2>2, <3>1, DiskPut
  <2>4. CASE Len(steps) = 1
    <3>1. PICK said : Finish("ok", said, disk')
      BY <2>1, <2>4 DEF WriteOf
    <3> QED
      BY <1>1, <2>3, <3>1, FinishSaid
  <2>5. CASE Len(steps) # 1 /\ s = "codex" /\ verb # "unhook"
    <3>1. PICK k, said :
             /\ disk'["codex"] = k
             /\ ToSet(steps) \subseteq {x} \union ToSet(Tail(steps))
             /\ x = "add" \/ "add" \notin ToSet(steps) => AddTold(from, k, said)
             /\ steps' = Tail(steps) /\ answer' = said
             /\ verb' = verb /\ queue' = queue /\ from' = from
      BY <1>4, <2>5, WriteTold
    <3> QED
      BY <3>1 DEF AddSaid
  <2>6. CASE Len(steps) # 1 /\ ~(s = "codex" /\ verb # "unhook")
    <3>1. verb' = verb /\ queue' = queue
      BY <2>1, <2>6 DEF WriteOf
    <3> QED
      BY <2>6, <3>1 DEF AddSaid
  <2> QED
    BY <2>4, <2>5, <2>6
<1> QED
  BY <1>3, <1>4

(* What a finished slug ends with.                                         *)
LEMMA WriteConverges == HooksInv /\ AddSaid /\ Write => HookConverges'
<1> SUFFICES ASSUME HooksInv, AddSaid, Write PROVE HookConverges'
  OBVIOUS
<1> DEFINE s == Head(queue)
           d == disk[s]
           x == Head(steps)
           W == Written(verb, s, from)
           ran == W \ ToSet(steps)
<1>1. /\ verb \in Verbs /\ s \in DOMAIN disk /\ s \in Clients /\ d \in Disks(s)
      /\ \/ Refuses(s, x, d) /\ disk' = disk /\ Finish("failed", answer, disk)
         \/ /\ ~Refuses(s, x, d)
            /\ \E e : (e = After(s, x, d, memo) \/ (x = "add" /\ e = d)) /\ WriteOf(s, d, x, e)
  BY Zenon, WriteIs
<1>2. /\ x \in W /\ ran \in SUBSET W /\ x \notin ran /\ Ready(W, ran, x)
      /\ from \in Disks(s) /\ Done(verb, s, from, ran, d, memo) /\ memo \in Memos
      /\ ~Refuses(s, x, d) =>
           \A e : e = After(s, x, d, memo) \/ (x = "add" /\ e = d) =>
             /\ e \in Disks(s)
             /\ Len(steps) = 1 => Done(verb, s, from, W, e, Noted(x, d, memo))
  <2>1. s = Head(queue) /\ d = disk[s] /\ x = Head(steps) /\ W = Written(verb, s, from)
        /\ ran = W \ ToSet(steps)
    OBVIOUS
  <2> HIDE DEF s, d, x, W, ran
  <2> QED
    BY <2>1, WriteKnown
<1>3. s = Head(queue) /\ d = disk[s] /\ W = Written(verb, s, from) /\ DisksType(disk)
  BY DEF HooksInv
<1> DEFINE v == verb
           f == from
<1>4. v \in Verbs /\ v = verb /\ f = from /\ W = Written(v, s, f) /\ f \in Disks(s)
  BY <1>1, <1>2, <1>3
<1> HIDE DEF s, d, x, W, ran, v, f
<1>5. CASE Refuses(s, x, d) /\ disk' = disk /\ Finish("failed", answer, disk)
  <2>1. done'.slug = s /\ done'.verb = v /\ done'.fate = "failed" /\ done'.from = f
    BY <1>3, <1>4, <1>5 DEF Finish
  <2>2. v # "unhook" => Refusable(s, f)
    BY <1>1, <1>2, <1>4, <1>5, RefusedWhy
  <2>3. HookEndsWhole'
    BY <2>1, <2>2 DEF HookEndsWhole
  <2>4. UnhookTakesAll'
    BY <2>1 DEF UnhookTakesAll
  <2> QED
    BY <2>3, <2>4 DEF HookConverges
<1>6. ASSUME NEW e, e = After(s, x, d, memo) \/ (x = "add" /\ e = d), WriteOf(s, d, x, e), ~Refuses(s, x, d)
      PROVE  HookConverges'
  <2>1. e \in Disks(s) /\ (Len(steps) = 1 => Done(v, s, f, W, e, Noted(x, d, memo)))
    BY <1>2, <1>4, <1>6
  <2>2. disk'[s] = e
    BY <1>1, <1>3, <1>6 DEF WriteOf, DisksType
  <2>3. CASE Len(steps) # 1
    <3>1. done'.verb = None /\ None \notin Verbs
      BY <1>6, <2>3, FilesAre DEF WriteOf, NoneDone, Texts
    <3> QED
      BY <3>1 DEF HookConverges, HookEndsWhole, UnhookTakesAll, Verbs
  <2>4. CASE Len(steps) = 1
    <3>1. done'.slug = s /\ done'.verb = v /\ done'.fate = "ok" /\ done'.from = f
      BY <1>3, <1>4, <1>6, <2>4 DEF WriteOf, Finish
    <3>2. v # "unhook" => HandWritten(s, f) \/ HalfAmbient(s, f) \/ WholeOn(s, e)
      BY <1>1, <1>4, <2>1, <2>4, EndsWhole
    <3>3. v = "unhook" => ~OursLeft(s, e, MarketName(f))
      <4>1. v = "unhook" => W = Unwires[s]
        BY <1>4 DEF Written
      <4> QED
        BY <1>1, <1>4, <2>1, <2>4, <4>1, EndsGone
    <3>4. v # "unhook" /\ WholeOn(s, e) =>
            \/ /\ s = "codex" /\ done'.answer \in {"failed", "skipped"}
               /\ done'.answer = "skipped" => f.hooks = Whole
            \/ Required \subseteq Fires(s, e)
      <4>1. CASE s # "codex"
        BY <4>1 DEF WholeOn, AddedOn
      <4>2. CASE s = "codex" /\ v # "unhook"
        <5>1. PICK said :
                 /\ "add" \in {x} \/ "add" \notin ToSet(steps) => AddTold(f, e, said)
                 /\ ToSet(steps) = {x} /\ Finish("ok", said, disk')
          BY <1>3, <1>4, <1>6, <2>2, <2>4, <4>2, WriteTold DEF x
        <5>2. AddTold(f, e, said) /\ done'.answer = said
          BY <5>1 DEF Finish
        <5>3. \/ AddedOn(s, e)
              \/ /\ s = "codex" /\ done'.answer \in {"failed", "skipped"}
                 /\ done'.answer = "skipped" => f.hooks = Whole
          BY <4>2, <5>2 DEF AddTold
        <5> QED
          BY <5>3 DEF WholeOn
      <4> QED
        BY <4>1, <4>2
    <3>5. HookEndsWhole'
      BY <2>2, <3>1, <3>2, <3>4 DEF HookEndsWhole, WholeOn, CopyBehind
    <3>6. UnhookTakesAll'
      BY <2>2, <3>1, <3>3 DEF UnhookTakesAll
    <3> QED
      BY <3>5, <3>6 DEF HookConverges
  <2> QED
    BY <2>3, <2>4
<1> QED
  BY <1>1, <1>5, <1>6

-----------------------------------------------------------------------------
(***************************************************************************)
(* The other steps, and the theorems.                                      *)
(***************************************************************************)
(* Every step but a write starts afresh: nothing has just been finished.   *)
LEMMA FreshConverges == done'.verb = None => HookConverges'
<1>1. None \notin Verbs
  BY FilesAre DEF Texts
<1> QED
  BY <1>1 DEF HookConverges, HookEndsWhole, UnhookTakesAll, Verbs

LEMMA InitInv == Init => HooksInv /\ AddSaid /\ HookConverges
<1> SUFFICES ASSUME Init PROVE HooksInv /\ AddSaid /\ HookConverges
  OBVIOUS
<1>1. ToSet(All) = Clients
  BY ClientsAre
<1>2. DisksType(disk)
  BY <1>1, StoriesAssumption DEF Init, DisksType
<1>3. /\ verb = None /\ queue = << >> /\ memo \in Memos /\ done = NoneDone
      /\ spent \in [verbs : Nat, edits : Nat, kills : Nat]
  BY DEF Init, Memos
<1>4. HooksInv
  BY <1>2, <1>3 DEF HooksInv
<1>5. None \notin Verbs
  BY FilesAre DEF Texts
<1>6. HookConverges
  BY <1>3, <1>5 DEF HookConverges, HookEndsWhole, UnhookTakesAll, NoneDone, Verbs
<1>7. AddSaid
  BY <1>3 DEF AddSaid
<1> QED
  BY <1>4, <1>6, <1>7

LEMMA RunInv ==
  ASSUME HooksInv, NEW v \in Verbs, Run(v)
  PROVE  HooksInv' /\ AddSaid'
<1>1. PICK targets \in Targets(v) : targets # << >> /\ TakeUp(v, targets, disk)
  BY DEF Run
<1>2. DisksType(disk) /\ DOMAIN disk \subseteq Clients /\ disk' = disk
  BY DEF HooksInv, DisksType, Run
<1>3. targets \in Seq(DOMAIN disk)
  BY <1>2, TargetsType
<1>4. /\ verb' \in Verbs \union {None} /\ queue' \in Seq(DOMAIN disk) /\ memo' \in Memos
      /\ verb' # None => /\ queue' # << >>
                         /\ AtWork(verb', Head(queue'), steps', from', disk[Head(queue')], memo')
  BY <1>1, <1>2, <1>3, TakeUpKeeps
<1>5. spent' \in [verbs : Nat, edits : Nat, kills : Nat]
  BY DEF Run, HooksInv
<1>6. DisksType(disk')
  BY <1>2
<1>7. AddSaid'
  BY <1>1, <1>2, <1>3, TakeUpSaid
<1> QED
  BY <1>2, <1>4, <1>5, <1>6, <1>7 DEF HooksInv

LEMMA KillInv == HooksInv /\ Kill => HooksInv' /\ AddSaid'
<1> SUFFICES ASSUME HooksInv, Kill PROVE HooksInv' /\ AddSaid'
  OBVIOUS
<1> DEFINE s == Head(queue)
           d == disk[s]
           x == Head(steps)
           W == Written(verb, s, from)
           ran == W \ ToSet(steps)
           v == verb
           f == from
           p == steps
           m == memo
<1>1. verb \in Verbs /\ queue # << >> /\ queue \in Seq(DOMAIN disk) /\ memo \in Memos /\ DisksType(disk)
  BY DEF Kill, Idle, HooksInv
<1>2. s \in DOMAIN disk
  BY <1>1
<1>3. s \in Clients /\ d \in Disks(s)
  BY <1>1, <1>2 DEF DisksType
<1>4. AtWork(v, s, p, f, d, m)
  BY <1>1, FilesAre DEF HooksInv, Texts
<1>5. PICK k \in CutShort(s, x, d, m) : disk' = [disk EXCEPT ![s] = k]
  BY DEF Kill
<1>6. /\ v = verb /\ v \in Verbs /\ m \in Memos /\ x = Head(p) /\ W = Written(v, s, f) /\ ran = W \ ToSet(p)
  BY <1>1
<1> HIDE DEF s, d, x, W, ran, v, f, p, m
<1>7. x \in W /\ x \in AnyStep
  BY ONLY <1>3, <1>4, <1>6, AtWorkNext
<1>8. k \in Disks(s)
  BY <1>3, <1>5, <1>6, <1>7, KillType
<1>9. DisksType(disk')
  BY <1>1, <1>2, <1>5, <1>8, DiskPut
<1>10. verb' = None /\ queue' = << >> /\ memo' \in Memos
  BY DEF Kill, TakeUp, Memos
<1>11. spent' \in [verbs : Nat, edits : Nat, kills : Nat]
  BY DEF Kill, HooksInv
<1> QED
  BY <1>9, <1>10, <1>11 DEF HooksInv, AddSaid

LEMMA OutsideInv == HooksInv /\ Outside => HooksInv' /\ AddSaid'
<1> SUFFICES ASSUME HooksInv, Outside PROVE HooksInv' /\ AddSaid'
  OBVIOUS
<1>1. PICK s \in DOMAIN disk : \E d \in Edits(s, disk[s]) \ {disk[s]} : disk' = [disk EXCEPT ![s] = d]
  BY DEF Outside
<1>2. PICK d \in Edits(s, disk[s]) : disk' = [disk EXCEPT ![s] = d]
  BY <1>1
<1>3. s \in Clients /\ disk[s] \in Disks(s) /\ DisksType(disk)
  BY DEF HooksInv, DisksType
<1>4. d \in Disks(s)
  BY <1>3, EditType
<1>5. DisksType(disk') /\ DOMAIN disk' = DOMAIN disk
  BY <1>2, <1>3, <1>4, DiskPut
<1>6. verb = None /\ verb' = verb /\ queue' = queue /\ memo' = memo
  BY DEF Outside, Idle
<1>7. spent' \in [verbs : Nat, edits : Nat, kills : Nat]
  BY DEF Outside, HooksInv
<1> QED
  BY <1>5, <1>6, <1>7 DEF HooksInv, AddSaid

LEMMA SameInv ==
  ASSUME HooksInv, AddSaid, UNCHANGED <<disk, verb, queue, steps, memo, from, answer, spent>>
  PROVE  HooksInv' /\ AddSaid'
BY DEF HooksInv, AddSaid

LEMMA NextInv ==
  HooksInv /\ AddSaid /\ HookConverges /\ [Next]_vars => HooksInv' /\ AddSaid' /\ HookConverges'
<1> SUFFICES ASSUME HooksInv, AddSaid, HookConverges, [Next]_vars
             PROVE  HooksInv' /\ AddSaid' /\ HookConverges'
  OBVIOUS
<1>1. ASSUME NEW v \in Verbs, Run(v) PROVE HooksInv' /\ AddSaid' /\ HookConverges'
  BY <1>1, RunInv, FreshConverges DEF Run, NoneDone
<1>2. CASE Write
  BY <1>2, WriteInv, WriteSaid, WriteConverges
<1>3. CASE Kill
  BY <1>3, KillInv, FreshConverges DEF Kill, NoneDone
<1>4. CASE Outside
  BY <1>4, OutsideInv, FreshConverges DEF Outside, NoneDone
<1>5. CASE Restart
  BY <1>5, SameInv, FreshConverges DEF Restart, NoneDone
<1>6. CASE UNCHANGED vars
  <2>1. HooksInv' /\ AddSaid'
    BY <1>6, SameInv DEF vars
  <2>2. HookConverges'
    BY <1>6 DEF vars, HookConverges, HookEndsWhole, UnhookTakesAll, CopyBehind
  <2> QED
    BY <2>1, <2>2
<1> QED
  BY <1>1, <1>2, <1>3, <1>4, <1>5, <1>6 DEF Next

(* A step that counts against a bound is not one of the writes.            *)
LEMMA Counted ==
  ASSUME HooksInv
  PROVE  /\ \A v \in Verbs : Run(v) => spent' # spent /\ verb = None
         /\ Kill => spent' # spent /\ spent'.kills # spent.kills
         /\ Outside => spent' # spent /\ verb = None
<1>1. spent \in [verbs : Nat, edits : Nat, kills : Nat]
  BY DEF HooksInv
<1>2. \A v \in Verbs : Run(v) => spent'.verbs = spent.verbs + 1 /\ verb = None
  BY <1>1 DEF Run, Idle
<1>3. Kill => spent'.kills = spent.kills + 1
  BY <1>1 DEF Kill
<1>4. Outside => spent'.edits = spent.edits + 1 /\ verb = None
  BY <1>1 DEF Outside, Idle
<1> QED
  BY <1>1, <1>2, <1>3, <1>4

LEMMA StepKeepsCapture ==
  HooksInv /\ [Next]_vars =>
    [Writing(Verbs \ {"unhook"}) =>
       \A s \in DOMAIN disk :
         Added(s) => Fires(s, disk[s]) \intersect Required \subseteq Fires(s, disk'[s])]_vars
<1> SUFFICES ASSUME HooksInv, Next, Writing(Verbs \ {"unhook"}), NEW s \in DOMAIN disk, Added(s)
             PROVE  Fires(s, disk[s]) \intersect Required \subseteq Fires(s, disk'[s])
  OBVIOUS
<1>1. spent' = spent /\ loaded' = loaded /\ verb # "unhook"
  BY DEF Writing
<1>2. CASE Write
  BY <1>1, <1>2, WriteKeeps
<1>3. ~Restart
  BY <1>1 DEF Restart
<1> QED
  BY <1>1, <1>2, <1>3, Counted DEF Next

LEMMA StepKeepsTheirs ==
  HooksInv /\ [Next]_vars =>
    [~Idle /\ spent'.kills = spent.kills =>
       \A s \in DOMAIN disk : Theirs(s, disk'[s]) = Theirs(s, disk[s])]_vars
<1> SUFFICES ASSUME HooksInv, Next, ~Idle, spent'.kills = spent.kills, NEW s \in DOMAIN disk
             PROVE  Theirs(s, disk'[s]) = Theirs(s, disk[s])
  OBVIOUS
<1>1. CASE Write
  BY <1>1, WriteKeeps
<1>2. CASE Restart
  BY <1>2 DEF Restart
<1> QED
  BY <1>1, <1>2, Counted DEF Next, Idle

LEMMA StepKeepsRunning ==
  HooksInv /\ [Next]_vars =>
    [Writing({"update", "fix"}) /\ Head(queue) = "claude"
       /\ (PluginWiring("claude", from) = "wired" => Required \subseteq loaded)
     => Running(disk["claude"]) \intersect Required \subseteq Running(disk'["claude"])]_vars
<1> SUFFICES ASSUME HooksInv, Next, Writing({"update", "fix"}), Head(queue) = "claude",
                    PluginWiring("claude", from) = "wired" => Required \subseteq loaded
             PROVE  Running(disk["claude"]) \intersect Required \subseteq Running(disk'["claude"])
  OBVIOUS
<1>1. spent' = spent /\ loaded' = loaded /\ verb \in {"update", "fix"}
  BY DEF Writing
<1>2. CASE Write
  BY <1>1, <1>2, WriteKeeps
<1>3. ~Restart
  BY <1>1 DEF Restart
<1> QED
  BY <1>1, <1>2, <1>3, Counted DEF Next

(* However often a client's wiring is written, rewritten, repaired and taken
   out, killed on the way and edited in between: every file on a client's disk
   is one its adapter knows, the writes a verb has left are those of the
   program act() chose, in their order, and what those already made are for
   (the plugin standing, the old entries gone, the marketplace listed) is
   on the disk (verbs.rs:190-243, and the adapters' install and uninstall). *)
THEOREM HalfDone == Spec => []HooksInv
<1>1. Init => HooksInv /\ AddSaid /\ HookConverges
  BY InitInv
<1>2. HooksInv /\ AddSaid /\ HookConverges /\ [Next]_vars => (HooksInv /\ AddSaid /\ HookConverges)'
  BY NextInv
<1> QED
  BY <1>1, <1>2, PTL DEF Spec

(* For any machines to start from, any answers of Codex, and any number of
   verbs, edits and kills: a verb that wires a client and runs to its end
   leaves it wired whole, or refuses because of a file that reads as the
   user's, a script of OpenCode's cut short among them; but Codex may be left
   on an older copy of its plugin, only when the add failed in this verb or
   was skipped over a plugin that already stood, and an rc file that had one
   of zsh's two lines keeps the one.  An unhook that succeeds leaves nothing
   that reads as fufu's, whatever an earlier verb left half done.           *)
THEOREM VerbsConverge == Spec => []HookConverges
<1>1. Init => HooksInv /\ AddSaid /\ HookConverges
  BY InitInv
<1>2. HooksInv /\ AddSaid /\ HookConverges /\ [Next]_vars => (HooksInv /\ AddSaid /\ HookConverges)'
  BY NextInv
<1> QED
  BY <1>1, <1>2, PTL DEF Spec

(* No single write of a verb that wires, refreshes or repairs a client costs
   it an event capture depends on; none of any verb's touches what is the
   user's or another tool's; and a repair leaves the Claude Code that is
   running with the capture it has.                                        *)
THEOREM WritesKeep == Spec => EveryWriteKeeps
<1>1. Spec => []HooksInv
  BY HalfDone
<1>2. Spec => CaptureStays
  BY <1>1, StepKeepsCapture, PTL DEF Spec, CaptureStays
<1>3. Spec => ForeignKept
  BY <1>1, StepKeepsTheirs, PTL DEF Spec, ForeignKept
<1>4. Spec => RepairNeverDarkens
  BY <1>1, StepKeepsRunning, PTL DEF Spec, RepairNeverDarkens
<1> QED
  BY <1>2, <1>3, <1>4 DEF EveryWriteKeeps

-----------------------------------------------------------------------------
(* What rides an invocation, proved for every number of processes, agents and stories:
   no saved copy takes a lane's clock back, and neither the briefing's marker nor a
   word's one slot is spent in silence.

   Both arguments are about what a process carries between a load and a save, so both
   rest on the order of its steps: which step follows which, and what it can be about
   to say at each.                                                                   *)

Everyone == Procs \union {Child}

Known == Sessions \union {"none", "local"}
Words == {"notice", "word", "refusal", "due", "Disabled", "Fresh"}
Stamps == [age : 0..Oldest, every : {"off", "short", "long", "unset"},
           latest : Nat, notified : Nat, failing : BOOLEAN]
Markers == [session : Known, agents : Seq(Agents)]
Tallies == [session : Known, named : BOOLEAN]
EventsHeard == [kind : {"SessionStart", "ContextStart", "BeforeTool", "none"},
           session : Known, agent : Agents, word : BOOLEAN]
Moves == {<<"agent", "brief">>, <<"agent", "stamp">>, <<"agent", "print">>,
          <<"git", "correct">>, <<"git", "tally">>,
          <<"fetch", "look">>, <<"fetch", "save">>, <<"fetch", "record">>,
          <<"fetch", "sync">>, <<"fetch", "stamp">>,
          <<"trim", "look">>, <<"trim", "save">>, <<"trim", "sync">>, <<"trim", "stamp">>,
          <<"check", "look">>, <<"check", "save">>, <<"check", "spawn">>,
          <<"check", "pending">>, <<"check", "mark">>, <<"check", "sync">>,
          <<"check", "refresh">>, <<"check", "begin">>, <<"check", "answer">>}
Flights == [todo : Seq(Moves), event : EventsHeard, marker : Markers, tally : Tallies,
            file : Stamps, says : SUBSET Words]

-----------------------------------------------------------------------------
(* The order of a process's steps.                                          *)

Opens(b) == b \in {<<"fetch", "look">>, <<"trim", "look">>, <<"check", "look">>,
                   <<"check", "pending">>}

FollowsStep(a, b) ==
  \/ a = <<"agent", "brief">> /\ b = <<"git", "correct">>
  \/ a = <<"git", "correct">> /\ b = <<"git", "tally">>
  \/ a = <<"git", "tally">> /\ b \in {<<"agent", "stamp">>, <<"agent", "print">>}
  \/ a = <<"agent", "stamp">> /\ b = <<"agent", "print">>
  \/ a \in {<<"agent", "print">>, <<"fetch", "record">>, <<"trim", "save">>,
            <<"check", "spawn">>} /\ Opens(b)
  \/ a \in {<<"fetch", "look">>, <<"fetch", "sync">>, <<"fetch", "stamp">>}
       /\ b = <<"fetch", "save">>
  \/ a \in {<<"trim", "look">>, <<"trim", "sync">>, <<"trim", "stamp">>}
       /\ b = <<"trim", "save">>
  \/ a \in {<<"check", "look">>, <<"check", "sync">>, <<"check", "mark">>}
       /\ b = <<"check", "save">>
  \/ a = <<"fetch", "save">> /\ b = <<"fetch", "record">>
  \/ a = <<"check", "save">> /\ b = <<"check", "spawn">>
  \/ a = <<"check", "pending">> /\ b = <<"check", "mark">>
  \/ a = <<"check", "refresh">> /\ b = <<"check", "begin">>
  \/ a = <<"check", "begin">> /\ b = <<"check", "answer">>

Closes(a) ==
  a \in {<<"agent", "print">>, <<"fetch", "record">>, <<"fetch", "save">>, <<"trim", "save">>,
         <<"check", "save">>, <<"check", "spawn">>, <<"check", "answer">>}

StepsInOrder(todo) ==
  /\ todo # <<>> => Closes(todo[Len(todo)])
  /\ \A k \in 1..(Len(todo) - 1) : FollowsStep(todo[k], todo[k + 1])

(* What a process can be about to say at its next step.                     *)
SaysAt(step) ==
  IF step = <<"git", "correct">> THEN {"notice"}
  ELSE IF step \in {<<"git", "tally">>, <<"agent", "stamp">>, <<"agent", "print">>}
  THEN {"notice", "word", "refusal"}
  ELSE IF step \in {<<"fetch", "save">>, <<"trim", "save">>, <<"check", "save">>}
  THEN {"due", "Disabled", "Fresh"}
  ELSE {}

WellFormed(r) ==
  /\ r \in Flights
  /\ StepsInOrder(r.todo)
  /\ r.says \subseteq (IF r.todo = <<>> THEN {} ELSE SaysAt(r.todo[1]))
  /\ ~({"word", "refusal"} \subseteq r.says)

TypeOK ==
  /\ story \in AmbientStories
  /\ marker \in Markers
  /\ tally \in Tallies
  /\ stamp \in [Lanes -> Stamps]
  /\ live \in [Lanes -> {"off", "short", "long"}]
  /\ policy \in Policies
  /\ release \in Nat
  /\ proc \in [Everyone -> Flights]
  /\ since \in [Lanes -> [run : 0..Oldest, off : 0..Oldest]]

Shape == TypeOK /\ \A p \in Everyone : WellFormed(proc[p])

-----------------------------------------------------------------------------
(* A copy in flight is honest too, unless its save starts the clock anew.    *)
HonestIn(clock, age) == age >= clock.run \/ age >= clock.off
Restarts(r, lane) == "Disabled" \in r.says \/ ("due" \in r.says /\ lane # "check")
Writes(r, lane) ==
  /\ r.todo # <<>>
  /\ \/ r.todo[1] = <<lane, "save">> /\ ~Restarts(r, lane)
     \/ lane = "fetch" /\ r.todo[1] = <<"fetch", "record">>
     \/ lane = "check" /\ r.todo[1] = <<"check", "answer">>
CopyIsHonest(r, clocks) ==
  \A lane \in Lanes : Writes(r, lane) => HonestIn(clocks[lane], r.file.age)
LaneInv == StampIsHonest /\ \A p \in Everyone : CopyIsHonest(proc[p], since)

-----------------------------------------------------------------------------
(* A session whose word was named heard it, will, or could not; so of the copies. *)
Heard(session) ==
  \/ session \in coached \union hushed
  \/ \E p \in Procs : proc[p].event.session = session /\ "word" \in proc[p].says
Tallying(r) == r.todo # <<>> /\ r.todo[1] = <<"git", "tally">>
WordInv ==
  /\ SpentIsSaid
  /\ \A p \in Procs : Tallying(proc[p]) /\ proc[p].tally.named => Heard(proc[p].tally.session)

(* An audience the marker remembers was told, is being told, or was cut off; so of
   the copies that will be saved.                                           *)
HasHeard(audience) == audience \in told \union lost \union BeingTold
AllReached(m) == \A agent \in ToSet(m.agents) : HasHeard(<<m.session, agent>>)
CarriesNotice(r) == "notice" \in r.says /\ Channel(r.event)
MarkerInv ==
  /\ AllReached(marker)
  /\ \A p \in Procs : CarriesNotice(proc[p]) => AllReached(proc[p].marker)
  /\ \A p \in Procs : "notice" \in proc[p].says => Briefs(proc[p].event)


IInv == Shape /\ LaneInv /\ WordInv /\ MarkerInv

-----------------------------------------------------------------------------
(* Plans are in order.                                                      *)

LEMMA StepsOfTwo ==
  ASSUME NEW lane, NEW a, NEW b
  PROVE  Steps(lane, <<a, b>>) = IF lane = story.lane THEN <<<<lane, a>>, <<lane, b>>>> ELSE <<>>
BY DEF Steps

LEMMA StepsOfThree ==
  ASSUME NEW lane, NEW a, NEW b, NEW c
  PROVE  Steps(lane, <<a, b, c>>) =
           IF lane = story.lane THEN <<<<lane, a>>, <<lane, b>>, <<lane, c>>>> ELSE <<>>
BY DEF Steps

LEMMA Joined ==
  ASSUME NEW s \in Seq(Moves), NEW t \in Seq(Moves), StepsInOrder(s), StepsInOrder(t),
         s # <<>> /\ t # <<>> => FollowsStep(s[Len(s)], t[1])
  PROVE  s \o t \in Seq(Moves) /\ StepsInOrder(s \o t)
<1> DEFINE u == s \o t
<1>1. /\ u \in Seq(Moves) /\ Len(u) = Len(s) + Len(t)
      /\ \A k \in 1..Len(s) : u[k] = s[k]
      /\ \A k \in 1..Len(t) : u[Len(s) + k] = t[k]
  OBVIOUS
<1>2. ASSUME u # <<>> PROVE Closes(u[Len(u)])
  <2>1. CASE t = <<>>
    BY <1>1, <1>2, <2>1 DEF StepsInOrder
  <2>2. CASE t # <<>>
    BY <1>1, <2>2 DEF StepsInOrder
  <2> QED
    BY <2>1, <2>2
<1>3. ASSUME NEW k \in 1..(Len(u) - 1) PROVE FollowsStep(u[k], u[k + 1])
  <2>1. CASE k < Len(s)
    <3>1. k \in 1..(Len(s) - 1) /\ k \in 1..Len(s) /\ k + 1 \in 1..Len(s)
      BY <2>1
    <3> QED
      BY <1>1, <3>1 DEF StepsInOrder
  <2>2. CASE k = Len(s)
    <3>1. k \in 1..Len(s) /\ 1 \in 1..Len(t) /\ s # <<>> /\ t # <<>>
      BY <1>1, <2>2
    <3> QED
      BY <1>1, <2>2, <3>1
  <2>3. CASE k > Len(s)
    <3> DEFINE j == k - Len(s)
    <3>1. j \in 1..(Len(t) - 1) /\ j \in 1..Len(t) /\ j + 1 \in 1..Len(t)
          /\ k = Len(s) + j /\ k + 1 = Len(s) + (j + 1)
      BY <1>1, <2>3
    <3>2. u[k] = t[j] /\ u[k + 1] = t[j + 1]
      BY <1>1, <3>1
    <3> QED
      BY <3>1, <3>2 DEF StepsInOrder
  <2> QED
    BY <1>1, <2>1, <2>2, <2>3
<1> QED
  BY <1>1, <1>2, <1>3 DEF StepsInOrder

(* A block of a plan: it opens what follows anything, and closes so that    *)
(* anything follows.                                                        *)
Ends(a) == a \in {<<"agent", "print">>, <<"fetch", "record">>, <<"trim", "save">>,
                  <<"check", "spawn">>}
Plan(s) == s \in Seq(Moves) /\ StepsInOrder(s)
Ending(s) == Plan(s) /\ (s # <<>> => Ends(s[Len(s)]))
Opening(s) == Plan(s) /\ (s # <<>> => Opens(s[1]))

(* What an invocation may start with: nothing is loaded yet.                *)
Starts(b) == Opens(b) \/ b \in {<<"agent", "brief">>, <<"git", "correct">>,
                                <<"fetch", "sync">>, <<"trim", "sync">>, <<"check", "sync">>,
                                <<"fetch", "stamp">>, <<"trim", "stamp">>,
                                <<"check", "refresh">>}
Starting(s) == Plan(s) /\ (s # <<>> => Starts(s[1]))

LEMMA Chains ==
  ASSUME NEW s, NEW t, Ending(s), Opening(t)
  PROVE  /\ Plan(s \o t)
         /\ Ending(t) => Ending(s \o t)
         /\ Starting(s) => Starting(s \o t)
<1>1. s # <<>> /\ t # <<>> => FollowsStep(s[Len(s)], t[1])
  BY DEF Ending, Opening, Ends, FollowsStep
<1>2. Plan(s \o t)
  BY <1>1, Joined DEF Plan, Ending, Opening
<1>3. ASSUME Ending(t), s \o t # <<>> PROVE Ends((s \o t)[Len(s \o t)])
  <2>1. s \in Seq(Moves) /\ t \in Seq(Moves)
    BY DEF Ending, Opening, Plan
  <2>2. CASE t = <<>>
    BY <1>3, <2>1, <2>2 DEF Ending
  <2>3. CASE t # <<>>
    <3>1. (s \o t)[Len(s \o t)] = t[Len(t)]
      BY <2>1, <2>3
    <3> QED
      BY <1>3, <2>3, <3>1 DEF Ending
  <2> QED
    BY <2>2, <2>3
<1>4. ASSUME Starting(s), s \o t # <<>> PROVE Starts((s \o t)[1])
  <2>1. s \in Seq(Moves) /\ t \in Seq(Moves)
    BY DEF Ending, Opening, Plan
  <2>2. CASE s = <<>>
    <3>1. s \o t = t
      BY <2>1, <2>2
    <3> QED
      BY <1>4, <3>1 DEF Opening, Starts
  <2>3. CASE s # <<>>
    <3>1. (s \o t)[1] = s[1]
      BY <2>1, <2>3
    <3> QED
      BY <1>4, <2>3, <3>1 DEF Starting
  <2> QED
    BY <2>2, <2>3
<1> QED
  BY <1>2, <1>3, <1>4 DEF Ending, Starting

LEMMA Blocks ==
  /\ Ending(MaybeFetch) /\ Opening(MaybeFetch)
  /\ Ending(MaybeTrim) /\ Opening(MaybeTrim)
  /\ Ending(MaybeSpawnCheck) /\ Opening(MaybeSpawnCheck)
  /\ Opening(Announce)
  /\ Ending(Speak) /\ Starting(Speak)
  /\ Ending(Correct \o <<<<"agent", "print">>>>) /\ Starting(Correct \o <<<<"agent", "print">>>>)
<1>0. Ending(<<>>) /\ Opening(<<>>)
  BY DEF Ending, Opening, Plan, StepsInOrder, Ends, Opens, Closes, Moves, FollowsStep
<1>1. Ending(MaybeFetch) /\ Opening(MaybeFetch)
  <2> DEFINE plan == <<<<"fetch", "look">>, <<"fetch", "save">>, <<"fetch", "record">>>>
  <2>1. MaybeFetch = IF "fetch" = story.lane THEN plan ELSE <<>>
    BY StepsOfTwo, StepsOfThree DEF MaybeFetch, MaybeTrim, MaybeSpawnCheck, Announce
  <2>2. Ending(plan) /\ Opening(plan)
    BY DEF Ending, Opening, Plan, StepsInOrder, Ends, Opens, Closes, Moves, FollowsStep
  <2> HIDE DEF plan
  <2> QED
    BY <1>0, <2>1, <2>2
<1>2. Ending(MaybeTrim) /\ Opening(MaybeTrim)
  <2> DEFINE plan == <<<<"trim", "look">>, <<"trim", "save">>>>
  <2>1. MaybeTrim = IF "trim" = story.lane THEN plan ELSE <<>>
    BY StepsOfTwo, StepsOfThree DEF MaybeFetch, MaybeTrim, MaybeSpawnCheck, Announce
  <2>2. Ending(plan) /\ Opening(plan)
    BY DEF Ending, Opening, Plan, StepsInOrder, Ends, Opens, Closes, Moves, FollowsStep
  <2> HIDE DEF plan
  <2> QED
    BY <1>0, <2>1, <2>2
<1>3. Ending(MaybeSpawnCheck) /\ Opening(MaybeSpawnCheck)
  <2> DEFINE plan == <<<<"check", "look">>, <<"check", "save">>, <<"check", "spawn">>>>
  <2>1. MaybeSpawnCheck = IF "check" = story.lane THEN plan ELSE <<>>
    BY StepsOfTwo, StepsOfThree DEF MaybeFetch, MaybeTrim, MaybeSpawnCheck, Announce
  <2>2. Ending(plan) /\ Opening(plan)
    BY DEF Ending, Opening, Plan, StepsInOrder, Ends, Opens, Closes, Moves, FollowsStep
  <2> HIDE DEF plan
  <2> QED
    BY <1>0, <2>1, <2>2
<1>4. Opening(Announce)
  <2> DEFINE plan == <<<<"check", "pending">>, <<"check", "mark">>, <<"check", "save">>>>
  <2>1. Announce = IF "check" = story.lane THEN plan ELSE <<>>
    BY StepsOfTwo, StepsOfThree DEF MaybeFetch, MaybeTrim, MaybeSpawnCheck, Announce
  <2>2. Opening(plan)
    BY DEF Ending, Opening, Plan, StepsInOrder, Ends, Opens, Closes, Moves, FollowsStep
  <2> HIDE DEF plan
  <2> QED
    BY <1>0, <2>1, <2>2
<1>5. Ending(Speak) /\ Starting(Speak)
  BY DEF Ending, Opening, Plan, StepsInOrder, Ends, Opens, Closes, Moves, FollowsStep, Speak, Correct,
         Starting, Starts
<1>6. Ending(Correct \o <<<<"agent", "print">>>>) /\ Starting(Correct \o <<<<"agent", "print">>>>)
  BY DEF Ending, Opening, Plan, StepsInOrder, Ends, Opens, Closes, Moves, FollowsStep, Correct,
         Starting, Starts
<1> QED
  BY <1>1, <1>2, <1>3, <1>4, <1>5, <1>6

LEMMA Plans ==
  /\ Starting(MaybeSpawnCheck \o MaybeFetch \o MaybeTrim \o Announce)
  /\ Starting(Speak \o MaybeSpawnCheck \o MaybeTrim)
  /\ Starting(Correct \o <<<<"agent", "print">>>> \o MaybeSpawnCheck \o MaybeTrim \o Announce)
<1>1. ASSUME NEW s, Opening(s) PROVE Starting(s)
  BY <1>1 DEF Opening, Starting, Starts
<1>2. Starting(MaybeSpawnCheck \o MaybeFetch \o MaybeTrim \o Announce)
  <2>1. Ending(MaybeSpawnCheck \o MaybeFetch) /\ Starting(MaybeSpawnCheck \o MaybeFetch)
    BY <1>1, Blocks, Chains
  <2>2. Ending(MaybeSpawnCheck \o MaybeFetch \o MaybeTrim)
        /\ Starting(MaybeSpawnCheck \o MaybeFetch \o MaybeTrim)
    BY <2>1, Blocks, Chains
  <2> QED
    BY <2>2, Blocks, Chains
<1>3. Starting(Speak \o MaybeSpawnCheck \o MaybeTrim)
  <2>1. Ending(Speak \o MaybeSpawnCheck) /\ Starting(Speak \o MaybeSpawnCheck)
    BY Blocks, Chains
  <2> QED
    BY <2>1, Blocks, Chains
<1>4. Starting(Correct \o <<<<"agent", "print">>>> \o MaybeSpawnCheck \o MaybeTrim \o Announce)
  <2> DEFINE first == Correct \o <<<<"agent", "print">>>>
  <2>0. Ending(first) /\ Starting(first)
    BY Blocks
  <2> HIDE DEF first
  <2>1. Ending(first \o MaybeSpawnCheck) /\ Starting(first \o MaybeSpawnCheck)
    BY <2>0, Blocks, Chains
  <2>2. Ending(first \o MaybeSpawnCheck \o MaybeTrim)
        /\ Starting(first \o MaybeSpawnCheck \o MaybeTrim)
    BY <2>1, Blocks, Chains
  <2>3. Starting(first \o MaybeSpawnCheck \o MaybeTrim \o Announce)
    BY <2>2, Blocks, Chains
  <2> QED
    BY <2>3 DEF first
<1> QED
  BY <1>2, <1>3, <1>4

LEMMA ShortPlans ==
  ASSUME NEW lane \in Lanes
  PROVE  /\ Starting(Steps(lane, <<"sync", "save">>))
         /\ lane # "check" => Starting(Steps(lane, <<"stamp", "save">>))
         /\ Starting(Steps("check", <<"refresh", "begin", "answer">>))
<1> DEFINE sync == <<<<lane, "sync">>, <<lane, "save">>>>
           mark == <<<<lane, "stamp">>, <<lane, "save">>>>
           child == <<<<"check", "refresh">>, <<"check", "begin">>, <<"check", "answer">>>>
<1>1. /\ Steps(lane, <<"sync", "save">>) = IF lane = story.lane THEN sync ELSE <<>>
      /\ Steps(lane, <<"stamp", "save">>) = IF lane = story.lane THEN mark ELSE <<>>
      /\ Steps("check", <<"refresh", "begin", "answer">>) =
           IF "check" = story.lane THEN child ELSE <<>>
  BY StepsOfTwo, StepsOfThree
<1>2. Starting(<<>>) /\ Starting(sync) /\ (lane # "check" => Starting(mark)) /\ Starting(child)
  BY DEF Starting, Starts, Plan, StepsInOrder, Opens, Closes, Moves, FollowsStep, Lanes
<1> HIDE DEF sync, mark, child
<1> QED
  BY <1>1, <1>2

(* What is left of a plan is one.                                           *)
LEMMA Skipped ==
  ASSUME NEW r \in Flights, StepsInOrder(r.todo), NEW n \in 1..3
  PROVE  /\ Skipping(r, n) \in Flights /\ StepsInOrder(Skipping(r, n).todo)
         /\ Len(r.todo) <= n => Skipping(r, n) = Resting
         /\ Len(r.todo) > n =>
              /\ Skipping(r, n) = [r EXCEPT !.todo = Skipping(r, n).todo]
              /\ Skipping(r, n).todo # <<>>
              /\ Skipping(r, n).todo[1] = r.todo[n + 1]
<1> DEFINE s == r.todo
           t == SubSeq(s, n + 1, Len(s))
<1>0. s \in Seq(Moves) /\ Len(s) \in Nat
  BY DEF Flights
<1>1. Resting \in Flights /\ StepsInOrder(Resting.todo)
  <2>1. NoEvent \in EventsHeard
    BY AmbientStoriesAssumption DEF NoEvent, EventsHeard, Known
  <2>2. Unbriefed \in Markers /\ Untallied \in Tallies /\ Unstamped \in Stamps
    BY DEF Unbriefed, Markers, Untallied, Tallies, Unstamped, Stamps, Oldest, Known
  <2>3. <<>> \in Seq(Moves) /\ {} \in SUBSET Words
    OBVIOUS
  <2> QED
    BY <2>1, <2>2, <2>3 DEF Resting, Flights, StepsInOrder
<1>2. CASE Len(s) <= n
  BY <1>1, <1>2 DEF Skipping
<1>3. CASE Len(s) > n
  <2>1. t \in Seq(Moves) /\ Len(t) = Len(s) - n /\ \A k \in 1..Len(t) : t[k] = s[n + k]
    BY <1>0, <1>3
  <2>2. Skipping(r, n) = [r EXCEPT !.todo = t]
    BY <1>0, <1>3 DEF Skipping
  <2> HIDE DEF t
  <2>3. t # <<>> /\ t[1] = s[n + 1]
    <3>1. 1 \in 1..Len(t)
      BY <1>0, <1>3, <2>1
    <3> QED
      BY <2>1, <3>1
  <2>4. Closes(t[Len(t)])
    <3>1. Len(t) \in 1..Len(t) /\ n + Len(t) = Len(s) /\ s # <<>>
      BY <1>0, <1>3, <2>1
    <3> QED
      BY <2>1, <3>1 DEF StepsInOrder
  <2>5. ASSUME NEW k \in 1..(Len(t) - 1) PROVE FollowsStep(t[k], t[k + 1])
    <3>1. /\ n + k \in 1..(Len(s) - 1) /\ n + (k + 1) = (n + k) + 1
          /\ k \in 1..Len(t) /\ k + 1 \in 1..Len(t)
      BY <1>0, <1>3, <2>1
    <3>2. t[k] = s[n + k]
      BY <2>1, <3>1
    <3>3. t[k + 1] = s[n + (k + 1)]
      BY <2>1, <3>1
    <3>4. FollowsStep(s[n + k], s[(n + k) + 1])
      BY <3>1 DEF StepsInOrder
    <3> QED
      BY <3>1, <3>2, <3>3, <3>4
  <2>6. StepsInOrder(t)
    BY <2>4, <2>5 DEF StepsInOrder
  <2>7. [r EXCEPT !.todo = t] \in Flights /\ [r EXCEPT !.todo = t].todo = t
    BY <2>1 DEF Flights
  <2> QED
    BY <1>3, <2>2, <2>3, <2>6, <2>7
<1> QED
  BY <1>0, <1>2, <1>3

-----------------------------------------------------------------------------
(* A step is one process's: what the others carry is what they carried.     *)

LEMMA Shaped ==
  ASSUME Shape, NEW p \in Everyone, NEW r, WellFormed(r), proc' = [proc EXCEPT ![p] = r]
  PROVE  /\ proc' \in [Everyone -> Flights]
         /\ \A q \in Everyone : WellFormed(proc'[q])
         /\ proc'[p] = r
         /\ \A q \in Everyone : q # p => proc'[q] = proc[q]
BY DEF Shape, TypeOK, WellFormed

(* Clocks only start anew, and what a step saves is honest.                 *)
LEMMA LaneStep ==
  ASSUME Shape, LaneInv, NEW p \in Everyone, NEW r, WellFormed(r),
         proc' = [proc EXCEPT ![p] = r],
         since' \in [Lanes -> [run : 0..Oldest, off : 0..Oldest]],
         stamp' \in [Lanes -> Stamps],
         \A l \in Lanes : /\ since'[l].run \in {0, since[l].run}
                          /\ since'[l].off \in {0, since[l].off},
         \A l \in Lanes : stamp'[l] = stamp[l] \/ HonestIn(since'[l], stamp'[l].age),
         CopyIsHonest(r, since')
  PROVE  LaneInv'
<1>1. ASSUME NEW l \in Lanes, NEW age \in 0..Oldest, HonestIn(since[l], age)
      PROVE  HonestIn(since'[l], age)
  BY <1>1 DEF HonestIn, Oldest, Shape, TypeOK
<1>2. StampIsHonest'
  <2> SUFFICES ASSUME NEW l \in Lanes PROVE HonestIn(since'[l], stamp'[l].age)
    BY DEF StampIsHonest, HonestIn
  <2>1. HonestIn(since[l], stamp[l].age) /\ stamp[l].age \in 0..Oldest
    BY DEF LaneInv, StampIsHonest, HonestIn, Shape, TypeOK, Stamps
  <2> QED
    BY <1>1, <2>1
<1>3. ASSUME NEW q \in Everyone PROVE CopyIsHonest(proc'[q], since')
  <2>1. CASE q = p
    BY <2>1, Shaped
  <2>2. CASE q # p
    <3>1. proc'[q] = proc[q] /\ proc[q].file.age \in 0..Oldest
      BY <2>2, Shaped DEF Shape, TypeOK, Flights, Stamps
    <3>2. CopyIsHonest(proc[q], since)
      BY DEF LaneInv
    <3> QED
      BY <1>1, <3>1, <3>2 DEF CopyIsHonest
  <2> QED
    BY <2>1, <2>2
<1> QED
  BY <1>2, <1>3 DEF LaneInv

LEMMA HeardStays ==
  ASSUME Shape, NEW p \in Everyone, NEW r, WellFormed(r), proc' = [proc EXCEPT ![p] = r],
         coached \subseteq coached', hushed \subseteq hushed',
         "word" \in proc[p].says =>
           \/ "word" \in r.says /\ r.event = proc[p].event
           \/ proc[p].event.session \in coached' \union hushed',
         NEW session, Heard(session)
  PROVE  Heard(session)'
<1>1. CASE session \in coached \union hushed
  BY <1>1 DEF Heard
<1>2. ASSUME NEW q \in Procs, proc[q].event.session = session, "word" \in proc[q].says
      PROVE  Heard(session)'
  BY <1>2, Shaped DEF Heard, Everyone
<1> QED
  BY <1>1, <1>2 DEF Heard

LEMMA WordStep ==
  ASSUME Shape, WordInv, NEW p \in Everyone, NEW r, WellFormed(r),
         proc' = [proc EXCEPT ![p] = r],
         \A session : Heard(session) => Heard(session)',
         tally' = tally \/ (p \in Procs /\ Tallying(proc[p]) /\ tally' = proc[p].tally),
         p \in Procs /\ Tallying(r) /\ r.tally.named => Heard(r.tally.session)'
  PROVE  WordInv'
<1>1. (tally.named => Heard(tally.session))'
  BY DEF WordInv, SpentIsSaid, Heard
<1>2. ASSUME NEW q \in Procs, Tallying(proc[q])', proc'[q].tally.named
      PROVE  Heard(proc[q].tally.session)'
  <2>1. CASE q = p
    BY <1>2, <2>1, Shaped
  <2>2. CASE q # p
    BY <1>2, <2>2, Shaped DEF WordInv, Everyone
  <2> QED
    BY <2>1, <2>2
<1> QED
  BY <1>1, <1>2 DEF WordInv, SpentIsSaid, Heard

LEMMA ReachedStays ==
  ASSUME Shape, NEW p \in Everyone, NEW r, WellFormed(r), proc' = [proc EXCEPT ![p] = r],
         story' = story,
         \A audience \in told \union lost : HasHeard(audience)',
         \A audience :
           /\ p \in Procs /\ Telling(proc[p])
           /\ audience = <<proc[p].event.session, Audience(proc[p].event)>>
           => HasHeard(audience)',
         NEW audience, HasHeard(audience)
  PROVE  HasHeard(audience)'
<1>1. CASE audience \in told \union lost
  BY <1>1
<1>2. ASSUME NEW q \in Procs, Telling(proc[q]),
             audience = <<proc[q].event.session, Audience(proc[q].event)>>
      PROVE  HasHeard(audience)'
  <2>1. CASE q = p
    BY <1>2, <2>1
  <2>2. CASE q # p
    <3>1. proc'[q] = proc[q]
      BY <2>2, Shaped DEF Everyone
    <3>2. Telling(proc[q])'
      BY <1>2, <3>1 DEF Telling, Channel
    <3> QED
      BY <1>2, <3>1, <3>2 DEF HasHeard, BeingTold, Audience
  <2> QED
    BY <2>1, <2>2
<1> QED
  BY <1>1, <1>2 DEF HasHeard, BeingTold

LEMMA MarkerStep ==
  ASSUME Shape, MarkerInv, NEW p \in Everyone, NEW r, WellFormed(r),
         proc' = [proc EXCEPT ![p] = r], story' = story,
         \A audience : HasHeard(audience) => HasHeard(audience)',
         marker' = marker \/ (p \in Procs /\ CarriesNotice(proc[p]) /\ marker' = proc[p].marker),
         p \in Procs /\ "notice" \in r.says /\ Channel(r.event) =>
           \A agent \in ToSet(r.marker.agents) : HasHeard(<<r.marker.session, agent>>)',
         p \in Procs /\ "notice" \in r.says => Briefs(r.event)
  PROVE  MarkerInv'
<1>1. AllReached(marker)'
  BY DEF MarkerInv, AllReached
<1>2. ASSUME NEW q \in Procs, CarriesNotice(proc[q])' PROVE AllReached(proc[q].marker)'
  <2>1. CASE q = p
    BY <1>2, <2>1, Shaped DEF AllReached, CarriesNotice, Channel
  <2>2. CASE q # p
    <3>1. proc'[q] = proc[q]
      BY <2>2, Shaped DEF Everyone
    <3>2. CarriesNotice(proc[q])
      BY <1>2, <3>1 DEF CarriesNotice, Channel
    <3>3. AllReached(proc[q].marker)
      BY <3>2 DEF MarkerInv
    <3> QED
      BY <3>1, <3>3 DEF AllReached
  <2> QED
    BY <2>1, <2>2
<1>3. ASSUME NEW q \in Procs, "notice" \in proc'[q].says PROVE Briefs(proc'[q].event)
  BY <1>3, Shaped DEF MarkerInv, Everyone
<1> QED
  BY <1>1, <1>2, <1>3 DEF MarkerInv, Briefs

(* A step that says nothing and has nothing to say.                         *)
LEMMA QuietStep ==
  ASSUME IInv, NEW p \in Everyone, NEW r, WellFormed(r), proc' = [proc EXCEPT ![p] = r],
         UNCHANGED <<story, marker, tally, heard>>,
         {"word", "notice"} \intersect proc[p].says = {},
         proc[p].todo = <<>> \/ Head(proc[p].todo) # <<"agent", "brief">>,
         {"word", "notice"} \intersect r.says = {}, ~Tallying(r)
  PROVE  WordInv' /\ MarkerInv'
<1> USE DEF IInv, heard
<1>1. \A session : Heard(session) => Heard(session)'
  BY HeardStays
<1>2. ASSUME NEW audience \in told \union lost PROVE HasHeard(audience)'
  BY <1>2 DEF HasHeard
<1>3. ~Telling(proc[p])
  BY DEF Telling
<1>4. \A audience : HasHeard(audience) => HasHeard(audience)'
  BY <1>2, <1>3, ReachedStays
<1> QED
  BY <1>1, <1>4, WordStep, MarkerStep

(* A step that neither saves a stamp nor goes on to.                        *)
LEMMA MuteStep ==
  ASSUME IInv, NEW p \in Everyone, NEW r, WellFormed(r), proc' = [proc EXCEPT ![p] = r],
         UNCHANGED <<stamp, since>>, \A lane \in Lanes : ~Writes(r, lane)
  PROVE  LaneInv'
BY LaneStep DEF IInv, Shape, TypeOK, CopyIsHonest

LEMMA RestingFits ==
  /\ WellFormed(Resting) /\ ~Tallying(Resting) /\ \A lane \in Lanes : ~Writes(Resting, lane)
  /\ {"word", "notice"} \intersect Resting.says = {}
<1>1. <<>> \in Seq(Moves) /\ Resting \in Flights
  <2>1. NoEvent \in EventsHeard
    BY AmbientStoriesAssumption DEF NoEvent, EventsHeard, Known
  <2>2. Unbriefed \in Markers /\ Untallied \in Tallies /\ Unstamped \in Stamps
    BY DEF Unbriefed, Markers, Untallied, Tallies, Unstamped, Stamps, Oldest, Known
  <2> QED
    BY <2>1, <2>2 DEF Resting, Flights
<1> QED
  BY <1>1 DEF Resting, WellFormed, StepsInOrder, Tallying, Writes

(* Where a process is, and what may come next.                              *)
LEMMA Heads ==
  ASSUME NEW r, WellFormed(r), r.todo # <<>>
  PROVE  /\ r.todo \in Seq(Moves) /\ Head(r.todo) = r.todo[1]
         /\ r.says \subseteq SaysAt(r.todo[1])
         /\ ~Closes(r.todo[1]) => Len(r.todo) > 1
         /\ \A n \in 1..3 : Len(r.todo) > n => FollowsStep(r.todo[n], r.todo[n + 1])
<1>1. r.todo \in Seq(Moves) /\ Len(r.todo) \in Nat \ {0}
  BY DEF WellFormed, Flights
<1>2. ~Closes(r.todo[1]) => Len(r.todo) > 1
  BY <1>1 DEF WellFormed, StepsInOrder
<1> QED
  BY <1>1, <1>2 DEF WellFormed, StepsInOrder

LEMMA AfterLook ==
  ASSUME NEW r, WellFormed(r), r.todo # <<>>, NEW lane \in Lanes,
         r.todo[1] = <<lane, "look">>
  PROVE  /\ Len(r.todo) > 1 /\ r.todo[2] = <<lane, "save">>
         /\ Len(r.todo) > 1 + StepsAfter(lane) => Opens(r.todo[2 + StepsAfter(lane)])
<1> USE Heads DEF FollowsStep, Closes, Opens, StepsAfter, Lanes
<1>1. Len(r.todo) > 1 /\ Len(r.todo) \in Nat
  OBVIOUS
<1>2. r.todo[2] = <<lane, "save">>
  BY <1>1
<1>3. CASE lane = "trim"
  BY <1>1, <1>2, <1>3
<1>4. CASE lane # "trim"
  <2>1. Len(r.todo) > 2 => r.todo[3] \in {<<"fetch", "record">>, <<"check", "spawn">>}
    BY <1>1, <1>2, <1>4
  <2> QED
    BY <1>1, <1>4, <2>1
<1> QED
  BY <1>1, <1>2, <1>3, <1>4

LEMMA AfterSave ==
  ASSUME NEW r, WellFormed(r), r.todo # <<>>, NEW lane \in Lanes,
         r.todo[1] = <<lane, "save">>
  PROVE  /\ Len(r.todo) > StepsAfter(lane) => Opens(r.todo[1 + StepsAfter(lane)])
         /\ Len(r.todo) > 1 => CASE lane = "fetch" -> r.todo[2] = <<"fetch", "record">>
                                 [] lane = "check" -> r.todo[2] = <<"check", "spawn">>
                                 [] OTHER -> Opens(r.todo[2])
<1> USE Heads DEF FollowsStep, Closes, Opens, StepsAfter, Lanes
<1>1. Len(r.todo) \in Nat
  OBVIOUS
<1>2. Len(r.todo) > 1 => CASE lane = "fetch" -> r.todo[2] = <<"fetch", "record">>
                           [] lane = "check" -> r.todo[2] = <<"check", "spawn">>
                           [] OTHER -> Opens(r.todo[2])
  BY <1>1
<1>3. Len(r.todo) > 2 /\ lane # "trim" => Opens(r.todo[3])
  BY <1>1, <1>2
<1> QED
  BY <1>1, <1>2, <1>3

LEMMA GoesOn ==
  ASSUME NEW r \in Flights, StepsInOrder(r.todo), NEW n \in 1..3,
         ~({"word", "refusal"} \subseteq r.says),
         Len(r.todo) > n => r.says \subseteq SaysAt(r.todo[n + 1])
  PROVE  /\ WellFormed(Skipping(r, n))
         /\ \/ Skipping(r, n) = Resting
            \/ /\ Len(r.todo) > n
               /\ Skipping(r, n) = [r EXCEPT !.todo = Skipping(r, n).todo]
               /\ Skipping(r, n).todo # <<>>
               /\ Skipping(r, n).todo[1] = r.todo[n + 1]
<1> DEFINE s == Skipping(r, n)
<1>0. Len(r.todo) \in Nat
  BY DEF Flights
<1>1. CASE Len(r.todo) <= n
  <2>1. s = Resting
    BY <1>1, Skipped
  <2> QED
    BY <2>1, RestingFits
<1>2. CASE Len(r.todo) > n
  <2>1. /\ s \in Flights /\ StepsInOrder(s.todo) /\ s = [r EXCEPT !.todo = s.todo]
        /\ s.todo # <<>> /\ s.todo[1] = r.todo[n + 1]
    BY <1>2, Skipped
  <2> HIDE DEF s
  <2>2. s.says = r.says
    BY <2>1 DEF Flights
  <2>3. WellFormed(s)
    BY <1>2, <2>1, <2>2 DEF WellFormed
  <2> QED
    BY <1>2, <2>1, <2>3 DEF s
<1> QED
  BY <1>0, <1>1, <1>2

LEMMA ShapeStep ==
  ASSUME Shape, NEW p \in Everyone, NEW r, WellFormed(r), proc' = [proc EXCEPT ![p] = r],
         story' = story, marker' \in Markers, tally' \in Tallies,
         stamp' \in [Lanes -> Stamps], live' \in [Lanes -> {"off", "short", "long"}],
         UNCHANGED <<policy, release>>,
         since' \in [Lanes -> [run : 0..Oldest, off : 0..Oldest]]
  PROVE  Shape'
BY Shaped DEF Shape, TypeOK, WellFormed

Beginning(todo, event) == [Resting EXCEPT !.todo = todo, !.event = event]

LEMMA Started ==
  ASSUME NEW todo, Starting(todo), todo # <<>>, NEW event \in EventsHeard,
         NEW r, r = Beginning(todo, event)
  PROVE  /\ WellFormed(r) /\ ~Tallying(r) /\ \A lane \in Lanes : ~Writes(r, lane)
         /\ r.says = {} /\ r.todo = todo /\ r.event = event
<1>1. r \in Flights /\ r.says = {} /\ r.todo = todo /\ r.event = event
  BY RestingFits DEF Beginning, Starting, Plan, WellFormed, Flights, Resting
<1>2. WellFormed(r)
  BY <1>1 DEF Starting, Plan, WellFormed
<1> QED
  BY <1>1, <1>2 DEF Starting, Starts, Opens, Tallying, Writes, Lanes

(* An invocation that neither speaks nor has anything to save yet.          *)
LEMMA StartStep ==
  ASSUME IInv, NEW p \in Procs, NEW todo, Starting(todo), NEW event \in EventsHeard,
         Start(p, todo, event), UNCHANGED <<story, files, policy, release, heard, since>>,
         live' \in [Lanes -> {"off", "short", "long"}]
  PROVE  IInv'
<1>1. PICK r : r = Beginning(todo, event)
  OBVIOUS
<1>2. proc' = [proc EXCEPT ![p] = r] /\ todo # <<>> /\ proc[p].todo = <<>>
  BY <1>1 DEF Start, Goes, AtRest, Beginning
<1>3. /\ WellFormed(r) /\ ~Tallying(r) /\ \A lane \in Lanes : ~Writes(r, lane)
      /\ r.says = {}
  BY <1>1, <1>2, Started
<1>4. p \in Everyone /\ proc[p].says = {}
  BY <1>2 DEF Everyone, IInv, Shape, WellFormed
<1>5. Shape'
  BY <1>2, <1>3, <1>4, ShapeStep DEF IInv, Shape, TypeOK, files
<1>6. LaneInv'
  BY <1>2, <1>3, <1>4, MuteStep DEF files
<1>7. WordInv' /\ MarkerInv'
  BY <1>2, <1>3, <1>4, QuietStep DEF files
<1> QED
  BY <1>5, <1>6, <1>7 DEF IInv

LEMMA SilentStarts ==
  ASSUME IInv, NEW p \in Procs,
         Verb(p) \/ Git(p) \/ \E lane \in Lanes : Config(p, lane) \/ Manual(p, lane)
  PROVE  IInv'
<1> USE DEF settings
<1>0. live \in [Lanes -> {"off", "short", "long"}] /\ NoEvent \in EventsHeard
      /\ [NoEvent EXCEPT !.session = "local", !.word = TRUE] \in EventsHeard
  BY AmbientStoriesAssumption DEF IInv, Shape, TypeOK, NoEvent, EventsHeard, Known
<1>1. CASE Verb(p)
  BY <1>0, <1>1, Plans, StartStep DEF Verb
<1>2. CASE Git(p)
  BY <1>0, <1>2, Plans, StartStep DEF Git
<1>3. ASSUME NEW lane \in Lanes, Config(p, lane) PROVE IInv'
  <2>1. live' \in [Lanes -> {"off", "short", "long"}]
    BY <1>0, <1>3 DEF Config
  <2> QED
    BY <1>0, <1>3, <2>1, ShortPlans, StartStep DEF Config
<1>4. ASSUME NEW lane \in Lanes, Manual(p, lane) PROVE IInv'
  BY <1>0, <1>4, ShortPlans, StartStep DEF Manual
<1> QED
  BY <1>1, <1>2, <1>3, <1>4

-----------------------------------------------------------------------------
(* The lanes.                                                               *)

LEMMA StampedAge ==
  ASSUME TypeOK, NEW lane \in Lanes
  PROVE  /\ Stamped(lane, stamp[lane]) \in Stamps
         /\ \/ Stamped(lane, stamp[lane]).age = stamp[lane].age
            \/ DueByLive(lane, stamp[lane]) = "Disabled"
            \/ DueByLive(lane, stamp[lane]) = "Due" /\ lane # "check"
         /\ DueByLive(lane, stamp[lane]) \in {"Disabled", "Fresh", "Due"}
<1>1. stamp[lane] \in Stamps /\ live[lane] \in {"off", "short", "long"}
  BY DEF TypeOK
<1>2. DueByLive(lane, stamp[lane]) \in {"Disabled", "Fresh", "Due"}
  BY DEF DueByLive
<1>3. CASE \/ DueByLive(lane, stamp[lane]) = "Disabled"
           \/ DueByLive(lane, stamp[lane]) = "Due" /\ lane # "check"
  <2> DEFINE anew == [stamp[lane] EXCEPT !.every = live[lane], !.age = 0]
  <2>1. Stamped(lane, stamp[lane]) = anew
    BY <1>3 DEF Stamped
  <2>2. anew \in Stamps
    <3>1. 0 \in 0..Oldest /\ live[lane] \in {"off", "short", "long", "unset"}
      BY <1>1 DEF Oldest
    <3> QED
      BY <1>1, <3>1 DEF Stamps
  <2> HIDE DEF anew
  <2> QED
    BY <1>2, <1>3, <2>1, <2>2
<1>4. CASE ~(\/ DueByLive(lane, stamp[lane]) = "Disabled"
             \/ DueByLive(lane, stamp[lane]) = "Due" /\ lane # "check")
  <2> DEFINE same == [stamp[lane] EXCEPT !.every = live[lane], !.age = stamp[lane].age]
  <2>1. Stamped(lane, stamp[lane]) = same
    BY <1>1, <1>4 DEF Stamped, Stamps
  <2>2. same \in Stamps /\ same.age = stamp[lane].age
    BY <1>1 DEF Stamps, Oldest
  <2> HIDE DEF same
  <2> QED
    BY <1>2, <2>1, <2>2
<1> QED
  BY <1>3, <1>4

(* A process at a lane's step has nothing to say to anyone.                 *)
LaneSteps ==
  {<<"fetch", "look">>, <<"fetch", "save">>, <<"fetch", "record">>, <<"fetch", "sync">>,
   <<"fetch", "stamp">>, <<"trim", "look">>, <<"trim", "save">>, <<"trim", "sync">>,
   <<"trim", "stamp">>, <<"check", "look">>, <<"check", "save">>, <<"check", "spawn">>,
   <<"check", "pending">>, <<"check", "mark">>, <<"check", "sync">>,
   <<"check", "refresh">>, <<"check", "begin">>, <<"check", "answer">>}

LEMMA LaneStepFits ==
  ASSUME IInv, NEW p \in Everyone, proc[p].todo # <<>>, Head(proc[p].todo) \in LaneSteps,
         NEW r, WellFormed(r), proc' = [proc EXCEPT ![p] = r],
         r.todo = <<>> \/ r.todo[1] \in LaneSteps,
         UNCHANGED <<story, marker, tally, settings, heard>>,
         stamp' \in [Lanes -> Stamps],
         since' \in [Lanes -> [run : 0..Oldest, off : 0..Oldest]],
         \A l \in Lanes : /\ since'[l].run \in {0, since[l].run}
                          /\ since'[l].off \in {0, since[l].off},
         \A l \in Lanes : stamp'[l] = stamp[l] \/ HonestIn(since'[l], stamp'[l].age),
         CopyIsHonest(r, since')
  PROVE  IInv'
<1>1. WellFormed(proc[p])
  BY DEF IInv, Shape
<1>2. {"word", "notice"} \intersect proc[p].says = {}
  BY <1>1, Heads DEF LaneSteps, SaysAt
<1>3. {"word", "notice"} \intersect r.says = {} /\ ~Tallying(r)
  <2>1. CASE r.todo = <<>>
    BY <2>1 DEF Tallying, WellFormed
  <2>2. CASE r.todo # <<>>
    <3>1. r.todo[1] \in LaneSteps /\ r.says \subseteq SaysAt(r.todo[1])
      BY <2>2, Heads
    <3>2. SaysAt(r.todo[1]) \intersect {"word", "notice"} = {} /\ r.todo[1] # <<"git", "tally">>
      BY <3>1 DEF LaneSteps, SaysAt
    <3> QED
      BY <3>1, <3>2 DEF Tallying
  <2> QED
    BY <2>1, <2>2
<1>4. WordInv' /\ MarkerInv'
  <2>1. Head(proc[p].todo) # <<"agent", "brief">>
    BY DEF LaneSteps
  <2> QED
    BY <1>2, <1>3, <2>1, QuietStep
<1>5. LaneInv'
  BY LaneStep DEF IInv
<1>6. Shape'
  BY ShapeStep DEF IInv, Shape, TypeOK, settings
<1> QED
  BY <1>4, <1>5, <1>6 DEF IInv

LEMMA LookStep ==
  ASSUME IInv, NEW p \in Procs, NEW lane \in Lanes, Look(p, lane)
  PROVE  IInv'
<1> DEFINE was == proc[p]
           now == Stamped(lane, stamp[lane])
           says == DueByLive(lane, stamp[lane])
<1>1. /\ p \in Everyone /\ was \in Flights /\ WellFormed(was) /\ was.todo # <<>>
      /\ was.todo[1] = <<lane, "look">> /\ Head(was.todo) = <<lane, "look">>
      /\ was.says = {} /\ StepsInOrder(was.todo)
  <2>1. WellFormed(was) /\ was.todo # <<>> /\ Head(was.todo) = <<lane, "look">> /\ p \in Everyone
    BY DEF IInv, Shape, Look, At, AtRest, Everyone
  <2> QED
    BY <2>1, Heads DEF SaysAt, WellFormed, Lanes
<1>2. now \in Stamps /\ says \in {"Disabled", "Fresh", "Due"}
      /\ (now.age = stamp[lane].age \/ says = "Disabled" \/ (says = "Due" /\ lane # "check"))
  BY StampedAge DEF IInv, Shape
<1>3. /\ Len(was.todo) > 1 /\ was.todo[2] = <<lane, "save">>
      /\ Len(was.todo) > 1 + StepsAfter(lane) => Opens(was.todo[2 + StepsAfter(lane)])
  BY <1>1, AfterLook
<1>4. \E r : /\ WellFormed(r) /\ Goes(p, r)
             /\ r.todo = <<>> \/ r.todo[1] \in LaneSteps
             /\ CopyIsHonest(r, since)
  <2>1. CASE ~DueByCache(stamp[lane])
    <3>1. Goes(p, Skipping(was, 1 + StepsAfter(lane)))
      BY <2>1 DEF Look
    <3>2. 1 + StepsAfter(lane) \in 1..3 /\ 1 + StepsAfter(lane) + 1 = 2 + StepsAfter(lane)
      BY DEF StepsAfter
    <3>3. PICK r : r = Skipping(was, 1 + StepsAfter(lane))
      OBVIOUS
    <3>4. WellFormed(r) /\ (r = Resting \/ (r.todo # <<>> /\ Opens(r.todo[1])))
      BY <1>1, <1>3, <3>2, <3>3, GoesOn
    <3> QED
      BY <3>1, <3>3, <3>4, RestingFits DEF Opens, LaneSteps, CopyIsHonest, Writes, Lanes, Resting
  <2>2. CASE DueByCache(stamp[lane])
    <3>1. PICK said : /\ said = IF says = "Due" THEN {"due"} ELSE {says}
                      /\ Goes(p, Skipping([was EXCEPT !.file = now, !.says = said], 1))
      BY <2>2 DEF Look, Then
    <3>2. PICK with : with = [was EXCEPT !.file = now, !.says = said]
      OBVIOUS
    <3>3. /\ with \in Flights /\ with.todo = was.todo /\ with.file = now /\ with.says = said
      BY <1>1, <1>2, <3>1, <3>2 DEF Flights, Words
    <3>4. said \subseteq SaysAt(was.todo[2]) /\ ~({"word", "refusal"} \subseteq said)
      BY <1>2, <1>3, <3>1 DEF SaysAt, Lanes
    <3>5. PICK r : r = Skipping(with, 1)
      OBVIOUS
    <3>6. /\ WellFormed(r) /\ r = [with EXCEPT !.todo = r.todo]
          /\ r.todo # <<>> /\ r.todo[1] = <<lane, "save">>
      <4>1. Len(with.todo) > 1 /\ StepsInOrder(with.todo) /\ with.todo[2] = <<lane, "save">>
        BY <1>1, <1>3, <3>3
      <4>2. /\ Skipping(with, 1) = [with EXCEPT !.todo = Skipping(with, 1).todo]
            /\ Skipping(with, 1).todo # <<>> /\ Skipping(with, 1).todo[1] = with.todo[1 + 1]
        BY <3>3, <4>1, Skipped
      <4>3. WellFormed(Skipping(with, 1))
        BY <3>3, <3>4, <4>1, GoesOn
      <4> QED
        BY <3>5, <4>1, <4>2, <4>3
    <3>7. r.file = now /\ r.says = said
      BY <3>3, <3>6 DEF Flights
    <3>8. CopyIsHonest(r, since)
      <4> SUFFICES ASSUME NEW l \in Lanes, Writes(r, l) PROVE HonestIn(since[l], now.age)
        BY <3>7 DEF CopyIsHonest
      <4>1. l = lane /\ ~Restarts(r, lane)
        BY <3>6 DEF Writes, Lanes
      <4>2. now.age = stamp[lane].age
        BY <1>2, <3>1, <3>7, <4>1 DEF Restarts
      <4> QED
        BY <4>1, <4>2 DEF IInv, LaneInv, StampIsHonest, HonestIn
    <3> QED
      BY <3>1, <3>2, <3>5, <3>6, <3>8 DEF LaneSteps, Lanes
  <2> QED
    BY <2>1, <2>2
<1>5. PICK r : /\ WellFormed(r) /\ proc' = [proc EXCEPT ![p] = r]
               /\ r.todo = <<>> \/ r.todo[1] \in LaneSteps
               /\ CopyIsHonest(r, since)
  BY <1>4 DEF Goes
<1>6. UNCHANGED <<story, marker, tally, stamp, settings, heard, since>>
  BY DEF Look, files
<1>7. Head(was.todo) \in LaneSteps
  BY <1>1 DEF LaneSteps, Lanes
<1> QED
  BY <1>1, <1>5, <1>6, <1>7, LaneStepFits DEF IInv, Shape, TypeOK

LEMMA AtStep ==
  ASSUME IInv, NEW p \in Everyone, NEW step \in LaneSteps, At(p, step)
  PROVE  /\ proc[p] \in Flights /\ WellFormed(proc[p]) /\ StepsInOrder(proc[p].todo)
         /\ proc[p].todo # <<>> /\ proc[p].todo[1] = step /\ Head(proc[p].todo) = step
         /\ proc[p].says \subseteq SaysAt(step)
<1>1. WellFormed(proc[p]) /\ proc[p].todo # <<>> /\ Head(proc[p].todo) = step
  BY DEF IInv, Shape, At, AtRest
<1> QED
  BY <1>1, Heads DEF WellFormed

LEMMA Processes == \A p \in Procs : p \in Everyone /\ p # Child
BY ProcsAssumption DEF Everyone

LEMMA SaveStep ==
  ASSUME IInv, NEW p \in Procs, NEW lane \in Lanes, Save(p, lane)
  PROVE  IInv'
<1> DEFINE was == proc[p]
           mute == [was EXCEPT !.says = {}]
           bare == [mute EXCEPT !.file = Unstamped]
<1>0. p \in Everyone /\ <<lane, "save">> \in LaneSteps
  BY Processes DEF LaneSteps, Lanes
<1>1. /\ was \in Flights /\ WellFormed(was) /\ StepsInOrder(was.todo) /\ was.todo # <<>>
      /\ was.todo[1] = <<lane, "save">> /\ Head(was.todo) = <<lane, "save">>
  BY <1>0, AtStep DEF Save
<1>2. /\ Len(was.todo) > StepsAfter(lane) => Opens(was.todo[1 + StepsAfter(lane)])
      /\ Len(was.todo) > 1 =>
           /\ lane = "fetch" => was.todo[2] = <<"fetch", "record">>
           /\ lane # "fetch" => was.todo[2] = <<"check", "spawn">> \/ Opens(was.todo[2])
  BY <1>1, AfterSave
<1>3. /\ since' \in [Lanes -> [run : 0..Oldest, off : 0..Oldest]]
      /\ \A l \in Lanes : /\ since'[l].run \in {0, since[l].run}
                          /\ since'[l].off \in {0, since[l].off}
      /\ Restarts(was, lane) => since'[lane].run = 0 \/ since'[lane].off = 0
  <2> DEFINE clock == [run |-> IF "due" \in was.says /\ lane # "check" THEN 0 ELSE since[lane].run,
                       off |-> IF "Disabled" \in was.says THEN 0 ELSE since[lane].off]
  <2>1. since \in [Lanes -> [run : 0..Oldest, off : 0..Oldest]]
    BY DEF IInv, Shape, TypeOK
  <2>2. since' = [since EXCEPT ![lane] = clock]
    BY <2>1 DEF Save
  <2>3. /\ clock \in [run : 0..Oldest, off : 0..Oldest]
        /\ clock.run \in {0, since[lane].run} /\ clock.off \in {0, since[lane].off}
        /\ Restarts(was, lane) => clock.run = 0 \/ clock.off = 0
    BY <2>1 DEF Oldest, Restarts
  <2> HIDE DEF clock
  <2> QED
    BY <2>1, <2>2, <2>3
<1>4. HonestIn(since'[lane], was.file.age)
  <2>1. was.file.age \in 0..Oldest /\ since[lane].run \in 0..Oldest /\ since[lane].off \in 0..Oldest
    BY <1>1 DEF Flights, Stamps, IInv, Shape, TypeOK
  <2>2. CASE Restarts(was, lane)
    BY <1>3, <2>1, <2>2 DEF HonestIn, Oldest
  <2>3. CASE ~Restarts(was, lane)
    <3>1. HonestIn(since[lane], was.file.age)
      BY <1>0, <1>1, <2>3 DEF Writes, IInv, LaneInv, CopyIsHonest
    <3> QED
      BY <1>3, <2>1, <3>1 DEF HonestIn, Oldest
  <2> QED
    BY <2>2, <2>3
<1>5. /\ mute \in Flights /\ mute.todo = was.todo /\ mute.says = {} /\ mute.file = was.file
      /\ bare \in Flights /\ bare.todo = was.todo /\ bare.says = {}
  <2>1. Unstamped \in Stamps
    BY DEF Unstamped, Stamps, Oldest
  <2> QED
    BY <1>1, <2>1 DEF Flights
<1>6. \E r : /\ WellFormed(r) /\ Goes(p, r)
             /\ r.todo = <<>> \/ r.todo[1] \in LaneSteps
             /\ CopyIsHonest(r, since')
  <2>1. CASE was.says \intersect {"Disabled", "Fresh"} # {}
    <3>1. Goes(p, Skipping(mute, StepsAfter(lane)))
      BY <2>1 DEF Save
    <3>2. PICK r : r = Skipping(mute, StepsAfter(lane))
      OBVIOUS
    <3>3. StepsAfter(lane) \in 1..3 /\ StepsAfter(lane) + 1 = 1 + StepsAfter(lane)
      BY DEF StepsAfter
    <3>4. WellFormed(r) /\ (r = Resting \/ (r.todo # <<>> /\ Opens(r.todo[1])))
      <4> DEFINE n == StepsAfter(lane)
      <4>1. /\ StepsInOrder(mute.todo) /\ ~({"word", "refusal"} \subseteq mute.says)
            /\ Len(mute.todo) > n => mute.says \subseteq SaysAt(mute.todo[n + 1])
            /\ Len(mute.todo) > n => Opens(mute.todo[n + 1])
        BY <1>1, <1>2, <1>5, <3>3
      <4> HIDE DEF mute, n
      <4>2. /\ WellFormed(Skipping(mute, n))
            /\ \/ Skipping(mute, n) = Resting
               \/ /\ Len(mute.todo) > n /\ Skipping(mute, n).todo # <<>>
                  /\ Skipping(mute, n).todo[1] = mute.todo[n + 1]
        BY ONLY <1>5, <3>3, <4>1, GoesOn DEF n
      <4> QED
        BY ONLY <3>2, <4>1, <4>2 DEF n
    <3> QED
      BY <3>1, <3>2, <3>4, RestingFits DEF Opens, LaneSteps, CopyIsHonest, Writes, Lanes, Resting
  <2>2. CASE was.says \intersect {"Disabled", "Fresh"} = {} /\ lane = "fetch"
    <3>1. Goes(p, Skipping(mute, 1))
      BY <2>2 DEF Save, Then
    <3>2. PICK r : r = Skipping(mute, 1)
      OBVIOUS
    <3>3. /\ WellFormed(r)
          /\ \/ r = Resting
             \/ r.file = was.file /\ r.todo # <<>> /\ r.todo[1] = <<"fetch", "record">>
      <4>1. /\ WellFormed(r)
            /\ \/ r = Resting
               \/ /\ Len(mute.todo) > 1 /\ r = [mute EXCEPT !.todo = r.todo]
                  /\ r.todo # <<>> /\ r.todo[1] = mute.todo[1 + 1]
        <5> HIDE DEF mute
        <5>1. 1 \in 1..3 /\ StepsInOrder(mute.todo) /\ \A step : mute.says \subseteq SaysAt(step)
              /\ ~({"word", "refusal"} \subseteq mute.says)
          BY <1>1, <1>5
        <5> QED
          BY <1>5, <3>2, <5>1, GoesOn
      <4>2. r = [mute EXCEPT !.todo = r.todo] => r.file = mute.file
        BY <1>5 DEF Flights
      <4> QED
        BY <1>2, <1>5, <2>2, <4>1, <4>2
    <3>4. CopyIsHonest(r, since')
      <4> SUFFICES ASSUME NEW l \in Lanes, Writes(r, l) PROVE HonestIn(since'[l], r.file.age)
        BY DEF CopyIsHonest
      <4>1. r.file = was.file /\ r.todo # <<>> /\ r.todo[1] = <<"fetch", "record">>
        BY <3>3, RestingFits
      <4>2. l = lane
        BY <2>2, <4>1 DEF Writes, Lanes
      <4> QED
        BY <1>4, <4>1, <4>2
    <3> QED
      BY <3>1, <3>2, <3>3, <3>4 DEF LaneSteps, Resting
  <2>3. CASE was.says \intersect {"Disabled", "Fresh"} = {} /\ lane # "fetch"
    <3>1. Goes(p, Skipping(bare, 1))
      BY <2>3 DEF Save, Then
    <3>2. PICK r : r = Skipping(bare, 1)
      OBVIOUS
    <3>3. /\ WellFormed(r)
          /\ \/ r = Resting
             \/ /\ r.todo # <<>>
                /\ r.todo[1] = <<"check", "spawn">> \/ Opens(r.todo[1])
      <4>1. /\ WellFormed(r)
            /\ \/ r = Resting
               \/ /\ Len(bare.todo) > 1
                  /\ r.todo # <<>> /\ r.todo[1] = bare.todo[1 + 1]
        <5> HIDE DEF bare
        <5>1. 1 \in 1..3 /\ StepsInOrder(bare.todo) /\ \A step : bare.says \subseteq SaysAt(step)
              /\ ~({"word", "refusal"} \subseteq bare.says)
          BY <1>1, <1>5
        <5> QED
          BY <1>5, <3>2, <5>1, GoesOn
      <4> QED
        BY <1>2, <1>5, <2>3, <4>1
    <3>4. CopyIsHonest(r, since')
      BY <3>3, RestingFits DEF CopyIsHonest, Writes, Lanes, Opens
    <3> QED
      BY <3>1, <3>2, <3>3, <3>4 DEF Opens, LaneSteps, Resting
  <2> QED
    BY <2>1, <2>2, <2>3
<1>7. PICK r : /\ WellFormed(r) /\ proc' = [proc EXCEPT ![p] = r]
               /\ r.todo = <<>> \/ r.todo[1] \in LaneSteps
               /\ CopyIsHonest(r, since')
  BY <1>6 DEF Goes
<1>8. /\ stamp' \in [Lanes -> Stamps]
      /\ \A l \in Lanes : stamp'[l] = stamp[l] \/ HonestIn(since'[l], stamp'[l].age)
  <2>1. stamp' = [stamp EXCEPT ![lane] = was.file] /\ stamp \in [Lanes -> Stamps] /\ was.file \in Stamps
    BY <1>1 DEF Save, IInv, Shape, TypeOK, Flights
  <2> QED
    BY <1>4, <2>1
<1>9. UNCHANGED <<story, marker, tally, settings, heard>>
  BY DEF Save
<1> QED
  BY <1>0, <1>1, <1>3, <1>7, <1>8, <1>9, LaneStepFits

(* The step after a lane's, with the file it leaves the process holding.    *)
LEMMA LaneThen ==
  ASSUME IInv, NEW p \in Everyone, NEW step \in LaneSteps, At(p, step),
         NEW with \in Flights, with.todo = proc[p].todo, with.says = {}, Goes(p, Then(with)),
         UNCHANGED <<story, marker, tally, settings, heard>>,
         stamp' \in [Lanes -> Stamps],
         since' \in [Lanes -> [run : 0..Oldest, off : 0..Oldest]],
         \A l \in Lanes : /\ since'[l].run \in {0, since[l].run}
                          /\ since'[l].off \in {0, since[l].off},
         \A l \in Lanes : stamp'[l] = stamp[l] \/ HonestIn(since'[l], stamp'[l].age),
         \A l \in Lanes :
           \/ FollowsStep(step, <<l, "save">>)
           \/ l = "fetch" /\ FollowsStep(step, <<"fetch", "record">>)
           \/ l = "check" /\ FollowsStep(step, <<"check", "answer">>)
           => HonestIn(since'[l], with.file.age)
  PROVE  IInv'
<1>1. /\ proc[p] \in Flights /\ WellFormed(proc[p]) /\ StepsInOrder(proc[p].todo)
      /\ proc[p].todo # <<>> /\ proc[p].todo[1] = step /\ Head(proc[p].todo) = step
  BY AtStep
<1>2. PICK r : r = Skipping(with, 1)
  OBVIOUS
<1>3. proc' = [proc EXCEPT ![p] = r]
  BY <1>2 DEF Goes, Then
<1>4. /\ WellFormed(r)
      /\ \/ r = Resting
         \/ r.todo # <<>> /\ FollowsStep(step, r.todo[1]) /\ r.file = with.file
  <2>1. StepsInOrder(with.todo) /\ with.says \subseteq {} /\ 1 \in 1..3
    BY <1>1
  <2>2. /\ WellFormed(r)
        /\ \/ r = Resting
           \/ /\ Len(with.todo) > 1 /\ r = [with EXCEPT !.todo = r.todo]
              /\ r.todo # <<>> /\ r.todo[1] = with.todo[1 + 1]
    BY <1>2, <2>1, GoesOn
  <2>3. r = [with EXCEPT !.todo = r.todo] => r.file = with.file
    BY DEF Flights
  <2>4. Len(proc[p].todo) > 1 => FollowsStep(step, proc[p].todo[1 + 1])
    BY <1>1, Heads
  <2> QED
    BY <2>2, <2>3, <2>4
<1>5. CopyIsHonest(r, since')
  <2>1. CASE r = Resting
    BY <2>1, RestingFits DEF CopyIsHonest
  <2>2. CASE r.todo # <<>> /\ FollowsStep(step, r.todo[1]) /\ r.file = with.file
    BY <2>2 DEF CopyIsHonest, Writes
  <2> QED
    BY <1>4, <2>1, <2>2
<1>6. r.todo = <<>> \/ r.todo[1] \in LaneSteps
  <2>1. \A b : FollowsStep(step, b) => b \in LaneSteps
    BY DEF FollowsStep, LaneSteps, Opens
  <2> QED
    BY <1>4, <2>1 DEF Resting
<1> QED
  BY <1>1, <1>3, <1>4, <1>5, <1>6, LaneStepFits

LEMMA SyncStep ==
  ASSUME IInv, NEW p \in Procs, NEW lane \in Lanes, Sync(p, lane)
  PROVE  IInv'
<1> DEFINE with == [proc[p] EXCEPT !.file = [stamp[lane] EXCEPT !.every = live[lane]]]
<1>1. p \in Everyone /\ At(p, <<lane, "sync">>) /\ <<lane, "sync">> \in LaneSteps
  BY Processes DEF Sync, LaneSteps, Lanes
<1>2. /\ proc[p] \in Flights /\ stamp[lane] \in Stamps /\ live[lane] \in {"off", "short", "long"}
      /\ proc[p].says = {}
  BY <1>1, AtStep DEF IInv, Shape, TypeOK, SaysAt, Lanes
<1>3. /\ [stamp[lane] EXCEPT !.every = live[lane]] \in Stamps
      /\ [stamp[lane] EXCEPT !.every = live[lane]].age = stamp[lane].age
  BY <1>2 DEF Stamps
<1>4. /\ with \in Flights /\ with.todo = proc[p].todo /\ with.says = {}
      /\ with.file.age = stamp[lane].age
  BY <1>2, <1>3 DEF Flights
<1>5. Goes(p, Then(with)) /\ UNCHANGED <<story, marker, tally, settings, heard, stamp, since>>
  BY DEF Sync, files
<1>6. \A l \in Lanes :
        /\ HonestIn(since[l], stamp[l].age)
        /\ FollowsStep(<<lane, "sync">>, <<l, "save">>) => l = lane
  BY DEF FollowsStep, Lanes, Opens, IInv, LaneInv, StampIsHonest, HonestIn
<1>7. /\ ~FollowsStep(<<lane, "sync">>, <<"fetch", "record">>)
      /\ ~FollowsStep(<<lane, "sync">>, <<"check", "answer">>)
  BY DEF FollowsStep, Opens
<1> HIDE DEF with
<1> QED
  BY <1>1, <1>4, <1>5, <1>6, <1>7, LaneThen DEF IInv, Shape, TypeOK

(* The work has just been done: the clock starts with the copy, not the save. *)
LEMMA ManualStampStep ==
  ASSUME IInv, NEW p \in Procs, NEW lane \in Lanes, ManualStamp(p, lane)
  PROVE  IInv'
<1>1. p \in Everyone /\ At(p, <<lane, "stamp">>)
  BY Processes DEF ManualStamp
<1>2. <<lane, "stamp">> \in LaneSteps
  <2>1. <<lane, "stamp">> \in Moves
    BY <1>1, Heads DEF IInv, Shape, At, AtRest
  <2> QED
    BY <2>1 DEF LaneSteps, Moves, Lanes
<1>3. /\ proc[p] \in Flights /\ stamp[lane] \in Stamps /\ proc[p].says = {}
      /\ since \in [Lanes -> [run : 0..Oldest, off : 0..Oldest]]
  BY <1>1, <1>2, AtStep DEF IInv, Shape, TypeOK, SaysAt, Lanes
<1>4. PICK failing \in BOOLEAN :
        Goes(p, Then([proc[p] EXCEPT !.file = [stamp[lane] EXCEPT !.age = 0, !.failing = failing]]))
  BY DEF ManualStamp
<1> DEFINE copy == [stamp[lane] EXCEPT !.age = 0, !.failing = failing]
           with == [proc[p] EXCEPT !.file = copy]
<1>5. copy \in Stamps /\ copy.age = 0
  <2>1. 0 \in 0..Oldest
    BY DEF Oldest
  <2> QED
    BY <1>3, <2>1 DEF Stamps
<1> HIDE DEF copy
<1>6. /\ with \in Flights /\ with.todo = proc[p].todo /\ with.says = {} /\ with.file.age = 0
  BY <1>3, <1>5 DEF Flights
<1>7. UNCHANGED <<story, marker, tally, settings, heard, stamp>>
      /\ since' = [since EXCEPT ![lane].run = 0]
  BY DEF ManualStamp, files
<1>8. /\ since' \in [Lanes -> [run : 0..Oldest, off : 0..Oldest]]
      /\ \A l \in Lanes : /\ since'[l].run \in {0, since[l].run}
                          /\ since'[l].off \in {0, since[l].off}
      /\ HonestIn(since'[lane], 0)
  <2>1. 0 \in 0..Oldest
    BY DEF Oldest
  <2> QED
    BY <1>3, <1>7, <2>1 DEF HonestIn
<1>9. /\ ~FollowsStep(<<lane, "stamp">>, <<"fetch", "record">>)
      /\ ~FollowsStep(<<lane, "stamp">>, <<"check", "answer">>)
      /\ \A l \in Lanes : FollowsStep(<<lane, "stamp">>, <<l, "save">>) => l = lane
  BY DEF FollowsStep, Opens, Lanes
<1>10. Goes(p, Then(with))
  BY <1>4 DEF copy
<1> HIDE DEF with
<1> QED
  BY <1>1, <1>2, <1>6, <1>7, <1>8, <1>9, <1>10, LaneThen DEF IInv, Shape, TypeOK

LEMMA MarkStep ==
  ASSUME IInv, NEW p \in Procs, MarkNotified(p)
  PROVE  IInv'
<1> DEFINE copy == [stamp["check"] EXCEPT !.notified = stamp["check"].latest]
           with == [proc[p] EXCEPT !.file = copy]
<1>1. /\ p \in Everyone /\ At(p, <<"check", "mark">>) /\ <<"check", "mark">> \in LaneSteps
  BY Processes DEF MarkNotified, LaneSteps
<1>2. proc[p] \in Flights /\ stamp["check"] \in Stamps /\ proc[p].says = {}
  BY <1>1, AtStep DEF IInv, Shape, TypeOK, SaysAt, Lanes
<1>3. copy \in Stamps /\ copy.age = stamp["check"].age
  BY <1>2 DEF Stamps
<1>4. Goes(p, Then(with)) /\ UNCHANGED <<story, marker, tally, settings, heard, stamp, since>>
  BY DEF MarkNotified, files
<1> HIDE DEF copy
<1>5. /\ with \in Flights /\ with.todo = proc[p].todo /\ with.says = {}
      /\ with.file.age = stamp["check"].age
  BY <1>2, <1>3 DEF Flights
<1>6. \A l \in Lanes :
        /\ HonestIn(since[l], stamp[l].age)
        /\ FollowsStep(<<"check", "mark">>, <<l, "save">>) => l = "check"
  BY DEF FollowsStep, Lanes, Opens, IInv, LaneInv, StampIsHonest, HonestIn
<1>7. /\ ~FollowsStep(<<"check", "mark">>, <<"fetch", "record">>)
      /\ ~FollowsStep(<<"check", "mark">>, <<"check", "answer">>)
  BY DEF FollowsStep, Opens
<1> HIDE DEF with
<1> QED
  BY <1>1, <1>4, <1>5, <1>6, <1>7, LaneThen DEF IInv, Shape, TypeOK

LEMMA PendingStep ==
  ASSUME IInv, NEW p \in Procs, Pending(p)
  PROVE  IInv'
<1>1. /\ p \in Everyone /\ At(p, <<"check", "pending">>) /\ <<"check", "pending">> \in LaneSteps
  BY Processes DEF Pending, LaneSteps
<1>2. /\ proc[p] \in Flights /\ proc[p].says = {} /\ proc[p].todo # <<>>
      /\ Head(proc[p].todo) = <<"check", "pending">>
  BY <1>1, AtStep DEF SaysAt
<1>3. UNCHANGED <<story, marker, tally, settings, heard, stamp, since>>
  BY DEF Pending, files
<1>4. CASE Goes(p, Resting)
  <2>1. CopyIsHonest(Resting, since')
    BY RestingFits DEF CopyIsHonest
  <2>2. Resting.todo = <<>> /\ WellFormed(Resting)
    BY RestingFits DEF Resting
  <2> QED
    BY <1>1, <1>2, <1>3, <1>4, <2>1, <2>2, LaneStepFits DEF IInv, Shape, TypeOK, Goes
<1>5. CASE Goes(p, Then(proc[p]))
  <2>1. /\ ~FollowsStep(<<"check", "pending">>, <<"fetch", "record">>)
        /\ ~FollowsStep(<<"check", "pending">>, <<"check", "answer">>)
        /\ \A l \in Lanes : ~FollowsStep(<<"check", "pending">>, <<l, "save">>)
    BY DEF FollowsStep, Opens
  <2> QED
    BY <1>1, <1>2, <1>3, <1>5, <2>1, LaneThen DEF IInv, Shape, TypeOK
<1> QED
  BY <1>4, <1>5 DEF Pending

LEMMA RecordStep ==
  ASSUME IInv, NEW p \in Procs, Record(p)
  PROVE  IInv'
<1> DEFINE with == [proc[p] EXCEPT !.file = Unstamped]
<1>1. /\ p \in Everyone /\ At(p, <<"fetch", "record">>) /\ <<"fetch", "record">> \in LaneSteps
  BY Processes DEF Record, LaneSteps
<1>2. /\ proc[p] \in Flights /\ proc[p].says = {} /\ proc[p].todo # <<>>
      /\ proc[p].todo[1] = <<"fetch", "record">>
  BY <1>1, AtStep DEF SaysAt
<1>3. PICK failing \in BOOLEAN :
        stamp' = [stamp EXCEPT !["fetch"] = [proc[p].file EXCEPT !.failing = failing]]
  BY DEF Record
<1> DEFINE copy == [proc[p].file EXCEPT !.failing = failing]
<1>4. copy \in Stamps /\ copy.age = proc[p].file.age
  BY <1>2 DEF Flights, Stamps
<1> HIDE DEF copy
<1>5. HonestIn(since["fetch"], copy.age)
  BY <1>1, <1>2, <1>4 DEF Writes, IInv, LaneInv, CopyIsHonest, Lanes
<1>6. Goes(p, Then(with)) /\ UNCHANGED <<story, marker, tally, settings, heard, since>>
  BY DEF Record
<1>7. /\ stamp' \in [Lanes -> Stamps]
      /\ \A l \in Lanes : stamp'[l] = stamp[l] \/ HonestIn(since'[l], stamp'[l].age)
  <2>1. stamp' = [stamp EXCEPT !["fetch"] = copy] /\ stamp \in [Lanes -> Stamps]
    BY <1>3 DEF copy, IInv, Shape, TypeOK
  <2> QED
    BY <1>4, <1>5, <1>6, <2>1
<1>8. with \in Flights /\ with.todo = proc[p].todo /\ with.says = {}
  <2>1. Unstamped \in Stamps
    BY DEF Unstamped, Stamps, Oldest
  <2> QED
    BY <1>2, <2>1 DEF Flights
<1>9. /\ ~FollowsStep(<<"fetch", "record">>, <<"fetch", "record">>)
      /\ ~FollowsStep(<<"fetch", "record">>, <<"check", "answer">>)
      /\ \A l \in Lanes : ~FollowsStep(<<"fetch", "record">>, <<l, "save">>)
  BY DEF FollowsStep, Opens
<1> HIDE DEF with
<1> QED
  BY <1>1, <1>6, <1>7, <1>8, <1>9, LaneThen DEF IInv, Shape, TypeOK

LEMMA SpawnStep ==
  ASSUME IInv, NEW p \in Procs, Spawn(p)
  PROVE  IInv'
<1> DEFINE plan == Steps("check", <<"refresh", "begin", "answer">>)
<1>1. /\ p \in Everyone /\ Child \in Everyone /\ p # Child
      /\ At(p, <<"check", "spawn">>) /\ <<"check", "spawn">> \in LaneSteps
  BY Processes DEF Spawn, LaneSteps, Everyone
<1>2. /\ proc[p] \in Flights /\ WellFormed(proc[p]) /\ StepsInOrder(proc[p].todo)
      /\ proc[p].says = {} /\ proc[p].todo # <<>>
      /\ proc[p].todo[1] = <<"check", "spawn">> /\ Head(proc[p].todo) = <<"check", "spawn">>
  BY <1>1, AtStep DEF SaysAt
<1>3. PICK r : r = Skipping(proc[p], 1)
  OBVIOUS
<1>4. PICK c : c = [Resting EXCEPT !.todo = plan]
  OBVIOUS
<1>5. proc' = [proc EXCEPT ![p] = r, ![Child] = c] /\ proc \in [Everyone -> Flights]
  BY <1>3, <1>4 DEF Spawn, Then, IInv, Shape, TypeOK
<1>6. /\ WellFormed(r)
      /\ r.todo = <<>> \/ Opens(r.todo[1])
      /\ {"word", "notice"} \intersect r.says = {}
  <2>1. /\ WellFormed(r)
        /\ \/ r = Resting
           \/ /\ Len(proc[p].todo) > 1 /\ r = [proc[p] EXCEPT !.todo = r.todo]
              /\ r.todo # <<>> /\ r.todo[1] = proc[p].todo[1 + 1]
    <3>1. proc[p].says \subseteq {} /\ 1 \in 1..3
      BY <1>2
    <3> QED
      BY <1>2, <1>3, <3>1, GoesOn
  <2>2. Len(proc[p].todo) > 1 => Opens(proc[p].todo[1 + 1])
    <3>1. Len(proc[p].todo) > 1 => FollowsStep(<<"check", "spawn">>, proc[p].todo[1 + 1])
      BY <1>2, Heads
    <3> QED
      BY <3>1 DEF FollowsStep
  <2>3. r = [proc[p] EXCEPT !.todo = r.todo] => r.says = {}
    BY <1>2 DEF Flights
  <2> QED
    BY <2>1, <2>2, <2>3, RestingFits DEF Resting
<1>7. /\ WellFormed(c)
      /\ c.todo = <<>> \/ c.todo[1] = <<"check", "refresh">>
  <2>1. Starting(plan) /\ (plan # <<>> => plan[1] = <<"check", "refresh">>)
    <3>1. "check" \in Lanes
      BY DEF Lanes
    <3>2. plan = IF "check" = story.lane
                 THEN <<<<"check", "refresh">>, <<"check", "begin">>, <<"check", "answer">>>>
                 ELSE <<>>
      BY StepsOfThree
    <3> QED
      BY <3>1, <3>2, ShortPlans
  <2> HIDE DEF plan
  <2>2. c \in Flights /\ c.todo = plan /\ c.says = {}
    BY <1>4, <2>1, RestingFits DEF Starting, Plan, WellFormed, Flights, Resting
  <2> QED
    BY <2>1, <2>2 DEF WellFormed, Starting, Plan
<1>8. /\ proc'[p] = r /\ proc'[Child] = c /\ proc' \in [Everyone -> Flights]
      /\ \A q \in Everyone \ {p, Child} : proc'[q] = proc[q]
  <2>1. r \in Flights /\ c \in Flights
    BY <1>6, <1>7 DEF WellFormed
  <2> QED
    BY <1>1, <1>5, <2>1
<1>9. UNCHANGED <<story, marker, tally, stamp, settings, heard, since>>
  BY DEF Spawn, files
<1>10. Shape'
  <2>1. \A q \in Everyone : WellFormed(proc'[q])
    BY <1>6, <1>7, <1>8 DEF IInv, Shape
  <2> QED
    BY <1>8, <1>9, <2>1 DEF IInv, Shape, TypeOK, settings
<1>11. LaneInv'
  <2>1. CopyIsHonest(r, since) /\ CopyIsHonest(c, since)
    BY <1>6, <1>7 DEF CopyIsHonest, Writes, Opens, Lanes
  <2>2. \A q \in Everyone : CopyIsHonest(proc'[q], since')
    BY <1>8, <1>9, <2>1 DEF IInv, LaneInv
  <2> QED
    BY <1>9, <2>2 DEF IInv, LaneInv, StampIsHonest
<1>12. \A q \in Procs \ {p} : proc'[q] = proc[q]
  BY <1>8, Processes
<1>13. WordInv'
  <2>1. ASSUME NEW session, Heard(session) PROVE Heard(session)'
    BY <1>2, <1>9, <1>12, <2>1 DEF Heard, heard
  <2>2. ~Tallying(r)
    BY <1>6 DEF Tallying, Opens
  <2>3. (tally.named => Heard(tally.session))'
    BY <1>9, <2>1 DEF IInv, WordInv, SpentIsSaid, Heard
  <2>4. ASSUME NEW q \in Procs, Tallying(proc[q])', proc'[q].tally.named
        PROVE  Heard(proc[q].tally.session)'
    BY <1>8, <1>12, <2>1, <2>2, <2>4 DEF IInv, WordInv
  <2> QED
    BY <2>3, <2>4 DEF WordInv, SpentIsSaid, Heard
<1>14. MarkerInv'
  <2>1. ASSUME NEW q \in Procs, Telling(proc[q]) PROVE proc'[q] = proc[q] /\ Telling(proc[q])'
    <3>1. ~Telling(proc[p])
      BY <1>2 DEF Telling
    <3>2. proc'[q] = proc[q]
      BY <1>12, <2>1, <3>1
    <3> QED
      BY <1>9, <2>1, <3>2 DEF Telling, Channel
  <2>2. ASSUME NEW audience, HasHeard(audience) PROVE HasHeard(audience)'
    BY <1>9, <2>1, <2>2 DEF HasHeard, BeingTold, heard, Audience
  <2>3. AllReached(marker)'
    BY <1>9, <2>2 DEF IInv, MarkerInv, AllReached
  <2>4. ASSUME NEW q \in Procs, CarriesNotice(proc[q])' PROVE AllReached(proc[q].marker)'
    <3>1. q # p
      BY <1>6, <1>8, <2>4 DEF CarriesNotice
    <3>2. proc'[q] = proc[q]
      BY <1>12, <3>1
    <3>3. CarriesNotice(proc[q])
      BY <1>9, <2>4, <3>2 DEF CarriesNotice, Channel
    <3> QED
      BY <2>2, <3>2, <3>3 DEF IInv, MarkerInv, AllReached
  <2>5. ASSUME NEW q \in Procs, "notice" \in proc'[q].says PROVE Briefs(proc'[q].event)
    BY <1>6, <1>8, <1>12, <2>5 DEF IInv, MarkerInv
  <2> QED
    BY <2>3, <2>4, <2>5 DEF MarkerInv, Briefs
<1> QED
  BY <1>10, <1>11, <1>13, <1>14 DEF IInv

LEMMA RefreshStep == IInv /\ Refresh => IInv'
<1> SUFFICES ASSUME IInv, Refresh PROVE IInv'
  OBVIOUS
<1> DEFINE was == proc[Child]
<1>0. /\ Child \in Everyone /\ UNCHANGED <<story, marker, tally, settings, heard>>
      /\ "check" \in Lanes
      /\ stamp \in [Lanes -> Stamps] /\ live \in [Lanes -> {"off", "short", "long"}]
      /\ since \in [Lanes -> [run : 0..Oldest, off : 0..Oldest]]
      /\ release \in Nat /\ 0 \in 0..Oldest
  BY DEF Refresh, Everyone, IInv, Shape, TypeOK, Oldest, Lanes
<1>1. CASE At(Child, <<"check", "refresh">>)
  <2> DEFINE copy == [stamp["check"] EXCEPT !.age = 0, !.every = live["check"]]
             with == [was EXCEPT !.file = copy]
  <2>0. /\ <<"check", "refresh">> \in LaneSteps /\ ~At(Child, <<"check", "begin">>)
        /\ ~At(Child, <<"check", "answer">>)
    BY <1>1 DEF LaneSteps, At
  <2>1. was \in Flights /\ was.says = {}
    <3>1. SaysAt(<<"check", "refresh">>) = {}
      BY DEF SaysAt
    <3> QED
      BY <1>0, <1>1, <2>0, <3>1, AtStep
  <2>2. copy \in Stamps
    <3>1. live["check"] \in {"off", "short", "long", "unset"} /\ stamp["check"] \in Stamps
      BY <1>0
    <3>2. 0 \in 0..Oldest
      BY <1>0
    <3> QED
      BY ONLY <3>1, <3>2 DEF Stamps
  <2>3. Goes(Child, Then(with)) /\ UNCHANGED <<stamp, since>>
    BY <2>0 DEF Refresh
  <2> HIDE DEF copy
  <2>4. with \in Flights /\ with.todo = was.todo /\ with.says = {}
    BY <2>1, <2>2 DEF Flights
  <2>5. /\ ~FollowsStep(<<"check", "refresh">>, <<"fetch", "record">>)
        /\ ~FollowsStep(<<"check", "refresh">>, <<"check", "answer">>)
        /\ \A l \in Lanes : ~FollowsStep(<<"check", "refresh">>, <<l, "save">>)
    BY DEF FollowsStep, Opens
  <2> HIDE DEF with
  <2> QED
    BY <1>0, <1>1, <2>0, <2>3, <2>4, <2>5, LaneThen
<1>2. CASE At(Child, <<"check", "begin">>)
  <2>0. /\ <<"check", "begin">> \in LaneSteps /\ ~At(Child, <<"check", "refresh">>)
        /\ ~At(Child, <<"check", "answer">>)
    BY <1>2 DEF LaneSteps, At
  <2>1. was \in Flights /\ was.says = {}
    <3>1. SaysAt(<<"check", "begin">>) = {}
      BY DEF SaysAt
    <3> QED
      BY <1>0, <1>2, <2>0, <3>1, AtStep
  <2>2. /\ Goes(Child, Then(was)) /\ stamp' = [stamp EXCEPT !["check"] = was.file]
        /\ since' = [since EXCEPT !["check"].run = 0]
    BY <2>0 DEF Refresh
  <2>3. was.file \in Stamps /\ was.file.age \in 0..Oldest
    BY <2>1 DEF Flights, Stamps
  <2>4. /\ since' \in [Lanes -> [run : 0..Oldest, off : 0..Oldest]]
        /\ \A l \in Lanes : /\ since'[l].run \in {0, since[l].run}
                            /\ since'[l].off \in {0, since[l].off}
        /\ HonestIn(since'["check"], was.file.age)
    BY <1>0, <2>2, <2>3 DEF HonestIn
  <2>5. /\ stamp' \in [Lanes -> Stamps]
        /\ \A l \in Lanes : stamp'[l] = stamp[l] \/ HonestIn(since'[l], stamp'[l].age)
    BY <1>0, <2>2, <2>3, <2>4
  <2>6. /\ ~FollowsStep(<<"check", "begin">>, <<"fetch", "record">>)
        /\ \A l \in Lanes : ~FollowsStep(<<"check", "begin">>, <<l, "save">>)
    BY DEF FollowsStep, Opens
  <2> QED
    BY <1>0, <1>2, <2>0, <2>1, <2>2, <2>4, <2>5, <2>6, LaneThen
<1>3. CASE At(Child, <<"check", "answer">>)
  <2>0. /\ <<"check", "answer">> \in LaneSteps /\ ~At(Child, <<"check", "refresh">>)
        /\ ~At(Child, <<"check", "begin">>)
    BY <1>3 DEF LaneSteps, At
  <2>1. /\ was \in Flights /\ was.says = {} /\ was.todo # <<>>
        /\ was.todo[1] = <<"check", "answer">>
    <3>1. SaysAt(<<"check", "answer">>) = {}
      BY DEF SaysAt
    <3> QED
      BY <1>0, <1>3, <2>0, <3>1, AtStep
  <2>2. Goes(Child, Then(was)) /\ since' = since
    BY <2>0 DEF Refresh
  <2>3. was.file \in Stamps /\ HonestIn(since["check"], was.file.age)
    BY <1>0, <2>1 DEF Flights, Writes, IInv, LaneInv, CopyIsHonest
  <2>4. \E copy \in Stamps : copy.age = was.file.age /\ stamp' = [stamp EXCEPT !["check"] = copy]
    <3>1. CASE stamp' = [stamp EXCEPT !["check"] = was.file]
      BY <2>3, <3>1
    <3>2. CASE stamp' = [stamp EXCEPT !["check"] = [was.file EXCEPT !.latest = release]]
      <4> DEFINE copy == [was.file EXCEPT !.latest = release]
      <4>1. copy \in Stamps /\ copy.age = was.file.age
        BY <1>0, <2>3 DEF Stamps
      <4> HIDE DEF copy
      <4> QED
        BY <3>2, <4>1 DEF copy
    <3> QED
      BY <2>0, <3>1, <3>2 DEF Refresh
  <2>5. /\ stamp' \in [Lanes -> Stamps]
        /\ \A l \in Lanes : stamp'[l] = stamp[l] \/ HonestIn(since'[l], stamp'[l].age)
    BY <1>0, <2>2, <2>3, <2>4
  <2>6. /\ ~FollowsStep(<<"check", "answer">>, <<"fetch", "record">>)
        /\ ~FollowsStep(<<"check", "answer">>, <<"check", "answer">>)
        /\ \A l \in Lanes : ~FollowsStep(<<"check", "answer">>, <<l, "save">>)
    BY DEF FollowsStep, Opens
  <2> QED
    BY <1>0, <1>3, <2>0, <2>1, <2>2, <2>5, <2>6, LaneThen
<1> QED
  BY <1>1, <1>2, <1>3 DEF Refresh

-----------------------------------------------------------------------------
(* The briefing and the correction.                                         *)

LEMMA SpeechNext ==
  ASSUME NEW r, WellFormed(r), r.todo # <<>>
  PROVE  /\ r.todo[1] = <<"agent", "brief">> =>
              Len(r.todo) > 1 /\ r.todo[2] = <<"git", "correct">>
         /\ r.todo[1] = <<"git", "correct">> =>
              /\ Len(r.todo) > 1 /\ r.todo[2] = <<"git", "tally">>
              /\ Len(r.todo) > 2 /\ r.todo[3] \in {<<"agent", "stamp">>, <<"agent", "print">>}
         /\ r.todo[1] = <<"git", "tally">> =>
              Len(r.todo) > 1 /\ r.todo[2] \in {<<"agent", "stamp">>, <<"agent", "print">>}
         /\ r.todo[1] = <<"agent", "stamp">> =>
              Len(r.todo) > 1 /\ r.todo[2] = <<"agent", "print">>
         /\ r.todo[1] = <<"agent", "print">> /\ Len(r.todo) > 1 => Opens(r.todo[2])
<1> USE DEF FollowsStep, Closes, Opens
<1>1. Len(r.todo) \in Nat \ {0}
  BY DEF WellFormed, Flights
<1>2. Closes(r.todo[Len(r.todo)])
  BY DEF WellFormed, StepsInOrder
<1>3. r.todo[1] = <<"agent", "brief">> => Len(r.todo) > 1 /\ r.todo[2] = <<"git", "correct">>
  BY Heads
<1>4. r.todo[1] = <<"git", "correct">> => Len(r.todo) > 1 /\ r.todo[2] = <<"git", "tally">>
  BY Heads
<1>5. r.todo[1] = <<"git", "correct">> =>
        Len(r.todo) > 2 /\ r.todo[3] \in {<<"agent", "stamp">>, <<"agent", "print">>}
  <2> SUFFICES ASSUME r.todo[1] = <<"git", "correct">>
               PROVE  Len(r.todo) > 2 /\ r.todo[3] \in {<<"agent", "stamp">>, <<"agent", "print">>}
    OBVIOUS
  <2>1. Len(r.todo) # 2
    BY <1>2, <1>4
  <2>2. Len(r.todo) > 2
    <3>1. Len(r.todo) > 1
      BY <1>4
    <3>2. \A n \in Nat : n > 1 /\ n # 2 => n > 2
      OBVIOUS
    <3> QED
      BY ONLY <1>1, <2>1, <3>1, <3>2
  <2> QED
    BY <1>4, <2>2, Heads
<1>6. r.todo[1] = <<"git", "tally">> =>
        Len(r.todo) > 1 /\ r.todo[2] \in {<<"agent", "stamp">>, <<"agent", "print">>}
  BY Heads
<1>7. r.todo[1] = <<"agent", "stamp">> => Len(r.todo) > 1 /\ r.todo[2] = <<"agent", "print">>
  BY Heads
<1>8. r.todo[1] = <<"agent", "print">> /\ Len(r.todo) > 1 => Opens(r.todo[2])
  BY Heads
<1> QED
  BY <1>3, <1>4, <1>5, <1>6, <1>7, <1>8

SpeechSteps == {<<"agent", "brief">>, <<"agent", "stamp">>, <<"agent", "print">>,
                <<"git", "correct">>, <<"git", "tally">>}

LEMMA AtSpeech ==
  ASSUME IInv, NEW p \in Everyone, NEW step \in SpeechSteps, At(p, step)
  PROVE  /\ proc[p] \in Flights /\ WellFormed(proc[p]) /\ StepsInOrder(proc[p].todo)
         /\ proc[p].todo # <<>> /\ proc[p].todo[1] = step /\ Head(proc[p].todo) = step
         /\ proc[p].says \subseteq SaysAt(step) /\ ~({"word", "refusal"} \subseteq proc[p].says)
<1>1. WellFormed(proc[p]) /\ proc[p].todo # <<>> /\ Head(proc[p].todo) = step
  BY DEF IInv, Shape, At, AtRest
<1> QED
  BY <1>1, Heads DEF WellFormed

(* Where a process goes on to that still has words to say, or none.         *)
LEMMA SpeechThen ==
  ASSUME NEW was \in Flights, StepsInOrder(was.todo),
         NEW with \in Flights, with.todo = was.todo, NEW n \in 1..2, Len(was.todo) > n,
         with.says \subseteq SaysAt(was.todo[n + 1]), ~({"word", "refusal"} \subseteq with.says),
         NEW r, r = Skipping(with, n)
  PROVE  /\ WellFormed(r) /\ r.todo # <<>> /\ r.todo[1] = was.todo[n + 1]
         /\ r.event = with.event /\ r.marker = with.marker /\ r.tally = with.tally
         /\ r.says = with.says
<1>1. StepsInOrder(with.todo) /\ n \in 1..3
  OBVIOUS
<1>2. WellFormed(r)
  BY <1>1, GoesOn
<1>3. r = [with EXCEPT !.todo = r.todo] /\ r.todo # <<>> /\ r.todo[1] = with.todo[n + 1]
  BY <1>1, Skipped
<1> QED
  BY <1>2, <1>3 DEF Flights

LEMMA NoWrites ==
  ASSUME NEW r, r.todo = <<>> \/ r.todo[1] \in SpeechSteps \/ Opens(r.todo[1])
  PROVE  \A lane \in Lanes : ~Writes(r, lane)
BY DEF SpeechSteps, Opens, Writes, Lanes

(* What the marker becomes was in it, or is the event's own audience.       *)
LEMMA BriefedAsType ==
  ASSUME NEW m \in Markers, NEW event \in EventsHeard
  PROVE  /\ BriefedAs(m, event) \in Markers
         /\ BriefedAs(m, event).session = event.session
         /\ \A agent \in ToSet(BriefedAs(m, event).agents) :
              agent = Audience(event) \/ (agent \in ToSet(m.agents) /\ m.session = event.session)
<1> DEFINE kept == IF Anew(m, event) THEN <<>> ELSE m.agents
           agents == Append(kept, Audience(event))
<1>1. Audience(event) \in Agents /\ event.session \in Known /\ m.agents \in Seq(Agents)
  BY AmbientStoriesAssumption DEF Audience, EventsHeard, Markers
<1>2. kept \in Seq(Agents)
  BY <1>1
<1>3. \A agent \in ToSet(kept) : agent \in ToSet(m.agents) /\ m.session = event.session
  BY DEF ToSet, Anew
<1> HIDE DEF kept
<1>4. agents \in Seq(Agents) /\ \A agent \in ToSet(agents) : agent = Audience(event) \/ agent \in ToSet(kept)
  BY <1>1, <1>2 DEF ToSet
<1> HIDE DEF agents
<1>5. /\ Len(agents) > MaxAudiences \/ TRUE
      /\ agents # <<>> => Tail(agents) \in Seq(Agents) /\ ToSet(Tail(agents)) \subseteq ToSet(agents)
  BY <1>4 DEF ToSet
<1>6. agents # <<>>
  BY <1>1, <1>2 DEF agents
<1>7. BriefedAs(m, event) =
        [session |-> event.session, agents |-> IF Len(agents) > MaxAudiences THEN Tail(agents) ELSE agents]
  BY DEF BriefedAs, agents, kept
<1> QED
  BY <1>1, <1>3, <1>4, <1>5, <1>6, <1>7 DEF Markers

(* An event a client sends is spoken to from the first step.                *)
LEMMA SpokenTo ==
  /\ Starting(Speak \o MaybeSpawnCheck \o MaybeTrim)
  /\ Speak \o MaybeSpawnCheck \o MaybeTrim # <<>>
  /\ (Speak \o MaybeSpawnCheck \o MaybeTrim)[1] = <<"agent", "brief">>
<1> DEFINE lanes == MaybeSpawnCheck \o MaybeTrim
<1>1. /\ Speak \in Seq(Moves) /\ MaybeSpawnCheck \in Seq(Moves) /\ MaybeTrim \in Seq(Moves)
      /\ Speak # <<>>
  BY Blocks DEF Ending, Plan, Speak
<1>2. Speak[1] = <<"agent", "brief">>
  BY DEF Speak, Correct
<1> HIDE DEF Speak
<1>3. (Speak \o MaybeSpawnCheck) \in Seq(Moves) /\ Speak \o MaybeSpawnCheck # <<>>
      /\ (Speak \o MaybeSpawnCheck)[1] = <<"agent", "brief">>
  BY <1>1, <1>2
<1> QED
  BY <1>1, <1>3, Plans

LEMMA TriggerStep ==
  ASSUME IInv, NEW p \in Procs, Trigger(p)
  PROVE  IInv'
<1>0. PICK plan : plan = Speak \o MaybeSpawnCheck \o MaybeTrim
  OBVIOUS
<1>1. PICK event \in story.events : Start(p, plan, event) /\ told' = told \ Forgotten(event)
  BY <1>0 DEF Trigger
<1>2. event \in EventsHeard /\ p \in Everyone
  BY AmbientStoriesAssumption DEF EventsHeard, Known, IInv, Shape, TypeOK, Everyone
<1>3. PICK r : r = Beginning(plan, event)
  OBVIOUS
<1>4. plan # <<>> /\ Starting(plan) /\ plan[1] = <<"agent", "brief">>
  BY <1>0, SpokenTo
<1>5. proc' = [proc EXCEPT ![p] = r] /\ proc[p].todo = <<>>
  BY <1>1, <1>3 DEF Start, Goes, AtRest, Beginning
<1>6. /\ WellFormed(r) /\ ~Tallying(r) /\ \A lane \in Lanes : ~Writes(r, lane)
      /\ r.says = {} /\ r.todo = plan /\ r.event = event
  BY <1>2, <1>3, <1>4, Started
<1>7. proc[p].says = {} /\ ~Telling(proc[p])
  BY <1>2, <1>5 DEF IInv, Shape, WellFormed, Telling
<1>8. UNCHANGED <<story, files, settings, lost, coached, hushed, since>>
  BY DEF Trigger
<1>9. Shape'
  BY <1>2, <1>5, <1>6, <1>8, ShapeStep DEF IInv, Shape, TypeOK, files, settings
<1>10. LaneInv'
  BY <1>2, <1>5, <1>6, <1>8, MuteStep DEF files
<1>11. WordInv'
  <2>1. \A session : Heard(session) => Heard(session)'
    BY <1>2, <1>5, <1>6, <1>7, <1>8, HeardStays DEF IInv
  <2> QED
    BY <1>2, <1>5, <1>6, <1>8, <2>1, WordStep DEF IInv, files
<1>12. MarkerInv'
  <2>1. ASSUME NEW audience \in told \union lost PROVE HasHeard(audience)'
    <3>1. CASE audience \in told' \union lost'
      BY <3>1 DEF HasHeard
    <3>2. CASE audience \notin told' \union lost'
      <4>1. /\ event.kind = "SessionStart" /\ audience = <<event.session, Main>>
        BY <1>1, <1>8, <3>2 DEF Forgotten
      <4>2. proc'[p] = r
        BY <1>2, <1>5, <1>6, Shaped DEF IInv
      <4>3. Head(r.todo) = <<"agent", "brief">> /\ r.todo # <<>>
        BY <1>4, <1>6, Heads
      <4>4. Telling(proc[p])'
        BY <1>6, <4>1, <4>2, <4>3 DEF Telling
      <4>5. audience = <<proc'[p].event.session, Audience(proc'[p].event)>>
        BY <1>6, <4>1, <4>2 DEF Audience
      <4> QED
        BY <4>4, <4>5 DEF HasHeard, BeingTold, Audience
    <3> QED
      BY <3>1, <3>2
  <2>2. \A audience : HasHeard(audience) => HasHeard(audience)'
    BY <1>2, <1>5, <1>6, <1>7, <1>8, <2>1, ReachedStays DEF IInv
  <2> QED
    BY <1>2, <1>5, <1>6, <1>8, <2>2, MarkerStep DEF IInv, files
<1> QED
  BY <1>9, <1>10, <1>11, <1>12 DEF IInv

(* What changes outside the processes: the settings, and what a cut loses.  *)
LEMMA IdleStep ==
  ASSUME IInv, UNCHANGED <<story, files, proc, coached, hushed, since>>,
         live' \in [Lanes -> {"off", "short", "long"}], policy' \in Policies, release' \in Nat,
         told \union lost \subseteq told' \union lost'
  PROVE  IInv'
<1> USE DEF files
<1>1. Shape'
  BY DEF IInv, Shape, TypeOK, WellFormed
<1>2. LaneInv'
  BY DEF IInv, LaneInv, StampIsHonest, CopyIsHonest
<1>3. WordInv'
  BY DEF IInv, WordInv, SpentIsSaid, Heard
<1>4. MarkerInv'
  <2>1. BeingTold' = BeingTold
    BY DEF BeingTold, Telling, Channel, Audience
  <2>2. \A audience : HasHeard(audience) => HasHeard(audience)'
    BY <2>1 DEF HasHeard
  <2>3. AllReached(marker)'
    BY <2>2 DEF IInv, MarkerInv, AllReached
  <2>4. ASSUME NEW q \in Procs, CarriesNotice(proc[q])' PROVE AllReached(proc[q].marker)'
    BY <2>2, <2>4 DEF IInv, MarkerInv, AllReached, CarriesNotice, Channel
  <2> QED
    BY <2>3, <2>4 DEF IInv, MarkerInv, Briefs
<1> QED
  BY <1>1, <1>2, <1>3, <1>4 DEF IInv

LEMMA Unattended == IInv /\ (TriggerFails \/ Policy \/ Released \/ UNCHANGED ambientVars) => IInv'
<1> SUFFICES ASSUME IInv, TriggerFails \/ Policy \/ Released \/ UNCHANGED ambientVars PROVE IInv'
  OBVIOUS
<1>0. live \in [Lanes -> {"off", "short", "long"}] /\ policy \in Policies /\ release \in Nat
  BY DEF IInv, Shape, TypeOK
<1>1. CASE TriggerFails
  <2>1. told \union lost \subseteq told' \union lost'
    BY <1>1 DEF TriggerFails
  <2> QED
    BY <1>0, <1>1, <2>1, IdleStep DEF TriggerFails, settings
<1>2. CASE Policy
  BY <1>0, <1>2, IdleStep DEF Policy, heard
<1>3. CASE Released
  BY <1>0, <1>3, IdleStep DEF Released, heard
<1>4. CASE UNCHANGED ambientVars
  BY <1>0, <1>4, IdleStep DEF ambientVars, heard, settings
<1> QED
  BY <1>1, <1>2, <1>3, <1>4

(* A step of what is said: a word and a notice are said, kept or lost, and what
   the process then holds was reached or is of the audience it has yet to tell. *)
LEMMA SpeechStep ==
  ASSUME IInv, NEW p \in Procs, NEW r, WellFormed(r), Goes(p, r),
         r.todo = <<>> \/ r.todo[1] \in SpeechSteps \/ Opens(r.todo[1]),
         UNCHANGED <<story, stamp, settings, since>>,
         marker' \in Markers, tally' \in Tallies,
         told \subseteq told', lost \subseteq lost', coached \subseteq coached', hushed \subseteq hushed',
         "word" \in proc[p].says =>
           \/ "word" \in r.says /\ r.event = proc[p].event
           \/ proc[p].event.session \in coached' \union hushed',
         Telling(proc[p]) =>
           \/ CarriesNotice(r) /\ r.event = proc[p].event
           \/ <<proc[p].event.session, Audience(proc[p].event)>> \in told' \union lost',
         tally' = tally \/ (Tallying(proc[p]) /\ tally' = proc[p].tally),
         Tallying(r) /\ r.tally.named =>
           \/ Heard(r.tally.session)
           \/ r.tally.session \in hushed'
           \/ "word" \in r.says /\ r.event.session = r.tally.session,
         marker' = marker \/ (CarriesNotice(proc[p]) /\ marker' = proc[p].marker),
         CarriesNotice(r) =>
           \A agent \in ToSet(r.marker.agents) :
             \/ HasHeard(<<r.marker.session, agent>>)
             \/ <<r.marker.session, agent>> = <<r.event.session, Audience(r.event)>>,
         "notice" \in r.says => Briefs(r.event)
  PROVE  IInv' /\ \A audience : HasHeard(audience) => HasHeard(audience)'
<1>1. p \in Everyone /\ proc' = [proc EXCEPT ![p] = r] /\ proc'[p] = r
  <2>1. p \in Everyone /\ proc' = [proc EXCEPT ![p] = r]
    BY DEF Goes, Everyone
  <2> QED
    BY <2>1, Shaped DEF IInv
<1>2. Shape'
  BY <1>1, ShapeStep DEF IInv, Shape, TypeOK, settings
<1>3. LaneInv'
  BY <1>1, NoWrites, MuteStep
<1>4. \A session : Heard(session) => Heard(session)'
  BY <1>1, HeardStays DEF IInv
<1>5. WordInv'
  <2>1. Tallying(r) /\ r.tally.named => Heard(r.tally.session)'
    BY <1>1, <1>4 DEF Heard
  <2> QED
    BY <1>1, <1>4, <2>1, WordStep DEF IInv
<1>6. ASSUME NEW audience \in told' \union lost' PROVE HasHeard(audience)'
  BY <1>6 DEF HasHeard
<1>7. CarriesNotice(r) => HasHeard(<<r.event.session, Audience(r.event)>>)'
  <2>1. CarriesNotice(r) => Telling(proc[p])'
    BY <1>1 DEF CarriesNotice, Telling, Channel
  <2> QED
    BY <1>1, <2>1 DEF HasHeard, BeingTold, Audience
<1>8. \A audience : HasHeard(audience) => HasHeard(audience)'
  <2>1. \A audience \in told \union lost : HasHeard(audience)'
    BY <1>6
  <2>2. ASSUME NEW audience, Telling(proc[p]),
               audience = <<proc[p].event.session, Audience(proc[p].event)>>
        PROVE  HasHeard(audience)'
    BY <1>6, <1>7, <2>2
  <2> QED
    BY <1>1, <2>1, <2>2, ReachedStays DEF IInv
<1>9. MarkerInv'
  <2>1. "notice" \in r.says /\ Channel(r.event) =>
          \A agent \in ToSet(r.marker.agents) : HasHeard(<<r.marker.session, agent>>)'
    BY <1>7, <1>8 DEF CarriesNotice
  <2> QED
    BY <1>1, <1>8, <2>1, MarkerStep DEF IInv
<1> QED
  BY <1>2, <1>3, <1>5, <1>8, <1>9 DEF IInv

LEMMA BriefStep ==
  ASSUME IInv, NEW p \in Procs, Brief(p)
  PROVE  IInv' /\ \A audience : HasHeard(audience) => HasHeard(audience)'
<1> DEFINE was == proc[p]
<1>1. p \in Everyone /\ <<"agent", "brief">> \in SpeechSteps /\ At(p, <<"agent", "brief">>)
  BY Processes DEF Brief, SpeechSteps
<1>2. /\ was \in Flights /\ WellFormed(was) /\ StepsInOrder(was.todo)
      /\ was.todo # <<>> /\ was.todo[1] = <<"agent", "brief">>
      /\ was.says \subseteq SaysAt(<<"agent", "brief">>)
  BY <1>1, AtSpeech
<1>3. was.says = {}
  BY <1>2 DEF SaysAt
<1>4. Len(was.todo) > 1 /\ was.todo[2] = <<"git", "correct">>
  BY <1>2, SpeechNext
<1>5. marker \in Markers /\ tally \in Tallies /\ was.event \in EventsHeard
  BY <1>2 DEF IInv, Shape, TypeOK, Flights
<1>6. UNCHANGED <<story, files, settings, heard, since>>
  BY DEF Brief
<1>7. SaysAt(<<"git", "correct">>) = {"notice"}
  BY DEF SaysAt
<1>8. CASE BriefingDue(marker, was.event)
  <2> DEFINE as == BriefedAs(marker, was.event)
             with == [was EXCEPT !.marker = as, !.says = {"notice"}]
  <2>1. as \in Markers /\ as.session = was.event.session
        /\ \A agent \in ToSet(as.agents) :
             \/ agent = Audience(was.event)
             \/ agent \in ToSet(marker.agents) /\ marker.session = was.event.session
    BY <1>5, BriefedAsType
  <2>2. Goes(p, Skipping(with, 1))
    BY <1>8 DEF Brief, Then
  <2> HIDE DEF as
  <2>3. /\ with \in Flights /\ with.todo = was.todo /\ with.says = {"notice"}
        /\ with.event = was.event /\ with.marker = as
    BY <1>2, <2>1 DEF Flights, Words
  <2> HIDE DEF with
  <2>4. PICK r : r = Skipping(with, 1)
    OBVIOUS
  <2>5. /\ WellFormed(r) /\ r.todo # <<>> /\ r.todo[1] = <<"git", "correct">>
        /\ r.event = was.event /\ r.marker = as /\ r.says = {"notice"}
    <3>1. 1 \in 1..2 /\ was.todo[1 + 1] = <<"git", "correct">>
          /\ with.says \subseteq SaysAt(was.todo[1 + 1]) /\ ~({"word", "refusal"} \subseteq with.says)
      BY <1>4, <1>7, <2>3
    <3>2. /\ WellFormed(r) /\ r.todo # <<>> /\ r.todo[1] = was.todo[1 + 1]
          /\ r.event = with.event /\ r.marker = with.marker /\ r.says = with.says
      <4>1. /\ was \in Flights /\ StepsInOrder(was.todo) /\ Len(was.todo) > 1
            /\ with \in Flights /\ with.todo = was.todo
        BY <1>2, <1>4, <2>3
      <4>2. ~({"word", "refusal"} \subseteq with.says) /\ with.says \subseteq SaysAt(was.todo[1 + 1])
        BY ONLY <3>1
      <4>3. 1 \in 1..2
        OBVIOUS
      <4> QED
        BY ONLY <2>4, <4>1, <4>2, <4>3, SpeechThen
    <3> QED
      BY <2>3, <3>1, <3>2
  <2>6. ~Tallying(r) /\ r.todo[1] \in SpeechSteps
    BY <2>5 DEF Tallying, SpeechSteps
  <2>7. Telling(was) => CarriesNotice(r)
    BY <1>3, <2>5 DEF Telling, CarriesNotice, Channel
  <2>8. \A agent \in ToSet(r.marker.agents) :
             \/ HasHeard(<<r.marker.session, agent>>)
             \/ <<r.marker.session, agent>> = <<r.event.session, Audience(r.event)>>
    BY <2>1, <2>5 DEF IInv, MarkerInv, AllReached
  <2>9. Briefs(r.event)
    BY <1>8, <2>5 DEF BriefingDue
  <2> QED
    BY <1>3, <1>5, <1>6, <2>2, <2>4, <2>5, <2>6, <2>7, <2>8, <2>9, SpeechStep DEF files, heard
<1>9. CASE ~BriefingDue(marker, was.event)
  <2>1. PICK r : r = Skipping(was, 1)
    OBVIOUS
  <2>2. Goes(p, r)
    BY <1>9, <2>1 DEF Brief, Then
  <2>3. /\ WellFormed(r) /\ r.todo # <<>> /\ r.todo[1] = <<"git", "correct">>
        /\ r.event = was.event /\ r.says = {}
    <3>1. 1 \in 1..2 /\ was.todo[1 + 1] = <<"git", "correct">>
          /\ was.says \subseteq SaysAt(was.todo[1 + 1]) /\ ~({"word", "refusal"} \subseteq was.says)
      BY <1>3, <1>4
    <3> QED
      BY <1>2, <1>3, <1>4, <2>1, <3>1, SpeechThen
  <2>4. ~Tallying(r) /\ r.todo[1] \in SpeechSteps
    BY <2>3 DEF Tallying, SpeechSteps
  <2>5. ~Telling(was)
    BY <1>3, <1>9 DEF Telling, BriefingDue, Briefs, Anew
  <2>6. ~CarriesNotice(r) /\ "notice" \notin r.says
    BY <2>3 DEF CarriesNotice
  <2> QED
    BY <1>3, <1>5, <1>6, <2>2, <2>3, <2>4, <2>5, <2>6, SpeechStep DEF files, heard
<1> QED
  BY <1>8, <1>9

LEMMA CorrectStep ==
  ASSUME IInv, NEW p \in Procs, CorrectWord(p)
  PROVE  IInv'
<1> DEFINE was == proc[p]
           session == was.event.session
           denied == policy = "strict"
           speaks == denied \/ (policy = "coach" /\ Fresh(tally, session, denied))
           said == IF ~speaks THEN {} ELSE IF denied THEN {"refusal"} ELSE {"word"}
           names == Mark(tally, session, denied)
           with == [was EXCEPT !.tally = names, !.says = was.says \union said]
<1>1. p \in Everyone /\ <<"git", "correct">> \in SpeechSteps /\ At(p, <<"git", "correct">>)
  BY Processes DEF CorrectWord, SpeechSteps
<1>2. /\ was \in Flights /\ WellFormed(was) /\ StepsInOrder(was.todo)
      /\ was.todo # <<>> /\ was.todo[1] = <<"git", "correct">>
      /\ Head(was.todo) = <<"git", "correct">> /\ was.says \subseteq {"notice"}
  BY <1>1, AtSpeech DEF SaysAt
<1>3. /\ Len(was.todo) > 1 /\ was.todo[2] = <<"git", "tally">>
      /\ Len(was.todo) > 2 /\ was.todo[3] \in {<<"agent", "stamp">>, <<"agent", "print">>}
  BY <1>2, SpeechNext
<1>4. /\ marker \in Markers /\ tally \in Tallies /\ was.event \in EventsHeard
      /\ policy \in {"observe", "coach", "strict"}
  BY <1>2 DEF IInv, Shape, TypeOK, Flights, Policies
<1>5. UNCHANGED <<story, files, settings, told, lost, coached, since>>
  BY DEF CorrectWord
<1>6. Telling(was) => "notice" \in was.says /\ Channel(was.event)
  BY <1>2 DEF Telling
<1>7. /\ CarriesNotice(was) => AllReached(was.marker)
      /\ "notice" \in was.says => Briefs(was.event)
  BY DEF IInv, MarkerInv
<1>8. CASE ~was.event.word
  <2>1. PICK r : r = Skipping(was, 2)
    OBVIOUS
  <2>2. Goes(p, r) /\ hushed' = hushed
    BY <1>8, <2>1 DEF CorrectWord
  <2>3. /\ WellFormed(r) /\ r.todo # <<>> /\ r.todo[1] = was.todo[2 + 1]
        /\ r.event = was.event /\ r.marker = was.marker /\ r.says = was.says
    <3>1. 2 \in 1..2 /\ was.todo[2 + 1] \in {<<"agent", "stamp">>, <<"agent", "print">>}
      BY <1>3
    <3>2. was.says \subseteq SaysAt(was.todo[2 + 1]) /\ ~({"word", "refusal"} \subseteq was.says)
      BY <1>2, <3>1 DEF SaysAt
    <3> QED
      BY <1>2, <1>3, <2>1, <3>1, <3>2, SpeechThen
  <2>4. ~Tallying(r) /\ r.todo[1] \in SpeechSteps
    BY <1>3, <2>3 DEF Tallying, SpeechSteps
  <2>5. CarriesNotice(r) => AllReached(r.marker)
    BY <1>7, <2>3 DEF CarriesNotice, AllReached
  <2> QED
    BY <1>2, <1>4, <1>5, <1>6, <1>7, <2>2, <2>3, <2>4, <2>5, SpeechStep
    DEF files, CarriesNotice, AllReached
<1>9. CASE was.event.word
  <2>1. /\ Goes(p, Skipping(with, 1))
        /\ hushed' = IF policy = "observe" THEN hushed \union {session} ELSE hushed
    BY <1>9 DEF CorrectWord, Then
  <2>2. /\ names \in Tallies /\ names.session = session
        /\ names.named => ~denied \/ (tally.session = session /\ tally.named)
        /\ said \in {{}, {"refusal"}, {"word"}}
    BY <1>4 DEF Mark, Tallies, EventsHeard
  <2>3. names.named =>
          \/ Heard(session)
          \/ session \in hushed'
          \/ "word" \in said
    <3>1. tally.session = session /\ tally.named => Heard(session)
      BY DEF IInv, WordInv, SpentIsSaid, Heard
    <3> QED
      BY <1>4, <2>1, <2>2, <3>1 DEF Fresh
  <2> HIDE DEF names, said
  <2>4. /\ with \in Flights /\ with.todo = was.todo /\ with.says = was.says \union said
        /\ with.event = was.event /\ with.marker = was.marker /\ with.tally = names
    BY <1>2, <2>2 DEF Flights, Words
  <2> HIDE DEF with
  <2>5. PICK r : r = Skipping(with, 1)
    OBVIOUS
  <2>6. /\ WellFormed(r) /\ r.todo # <<>> /\ r.todo[1] = was.todo[1 + 1]
        /\ r.event = with.event /\ r.marker = with.marker /\ r.tally = with.tally
        /\ r.says = with.says
    <3>1. 1 \in 1..2 /\ was.todo[1 + 1] = <<"git", "tally">>
      BY <1>3
    <3>2. with.says \subseteq SaysAt(was.todo[1 + 1]) /\ ~({"word", "refusal"} \subseteq with.says)
      BY <1>2, <2>2, <2>4, <3>1 DEF SaysAt
    <3>3. /\ was \in Flights /\ StepsInOrder(was.todo) /\ Len(was.todo) > 1
          /\ with \in Flights /\ with.todo = was.todo
      BY <1>2, <1>3, <2>4
    <3> QED
      BY ONLY <2>5, <3>1, <3>2, <3>3, SpeechThen
  <2>7. /\ r.event = was.event /\ r.marker = was.marker /\ r.says = was.says \union said
        /\ r.tally = names /\ r.todo[1] \in SpeechSteps
    BY <1>3, <2>4, <2>6 DEF SpeechSteps
  <2>8. "notice" \in r.says => "notice" \in was.says
    BY <2>2, <2>7
  <2>9. CarriesNotice(r) => AllReached(r.marker)
    BY <1>7, <2>7, <2>8 DEF CarriesNotice, AllReached
  <2>10. Telling(was) => CarriesNotice(r)
    BY <1>6, <2>7 DEF CarriesNotice
  <2>11. r.tally.named =>
           \/ Heard(r.tally.session)
           \/ r.tally.session \in hushed'
           \/ "word" \in r.says /\ r.event.session = r.tally.session
    BY <2>2, <2>3, <2>7
  <2>12. hushed \subseteq hushed' /\ ~("word" \in was.says) /\ Goes(p, r)
    BY <1>2, <2>1, <2>5
  <2>13. "notice" \in r.says => Briefs(r.event)
    BY <1>7, <2>7, <2>8
  <2> QED
    BY <1>4, <1>5, <2>6, <2>7, <2>9, <2>10, <2>11, <2>12, <2>13, SpeechStep DEF files, AllReached
<1> QED
  BY <1>8, <1>9

LEMMA SaveTallyStep ==
  ASSUME IInv, NEW p \in Procs, SaveTally(p)
  PROVE  IInv'
<1> DEFINE was == proc[p]
           with == [was EXCEPT !.tally = Untallied]
<1>1. p \in Everyone /\ <<"git", "tally">> \in SpeechSteps /\ At(p, <<"git", "tally">>)
  BY Processes DEF SaveTally, SpeechSteps
<1>2. /\ was \in Flights /\ WellFormed(was) /\ StepsInOrder(was.todo)
      /\ was.todo # <<>> /\ was.todo[1] = <<"git", "tally">>
      /\ Head(was.todo) = <<"git", "tally">> /\ was.says \subseteq {"notice", "word", "refusal"}
      /\ ~({"word", "refusal"} \subseteq was.says)
  BY <1>1, AtSpeech DEF SaysAt
<1>3. Len(was.todo) > 1 /\ was.todo[2] \in {<<"agent", "stamp">>, <<"agent", "print">>}
  BY <1>2, SpeechNext
<1>4. marker \in Markers /\ was.tally \in Tallies /\ Tallying(was)
  BY <1>2 DEF IInv, Shape, TypeOK, Flights, Tallying
<1>5. UNCHANGED <<story, marker, stamp, settings, heard, since>> /\ tally' = was.tally
  BY DEF SaveTally
<1>6. Telling(was) => "notice" \in was.says /\ Channel(was.event)
  BY <1>2 DEF Telling
<1>7. /\ CarriesNotice(was) => AllReached(was.marker)
      /\ "notice" \in was.says => Briefs(was.event)
  BY DEF IInv, MarkerInv
<1>8. CASE was.event.kind = "none" /\ "refusal" \in was.says
  <2>1. Goes(p, Resting)
    BY <1>8 DEF SaveTally
  <2>2. "notice" \notin was.says /\ "word" \notin was.says
    BY <1>2, <1>7, <1>8 DEF Briefs
  <2>3. WellFormed(Resting) /\ ~Tallying(Resting) /\ Resting.todo = <<>> /\ Resting.says = {}
    BY RestingFits DEF Resting
  <2>4. ~CarriesNotice(Resting) /\ ~Telling(was)
    BY <1>6, <2>2, <2>3 DEF CarriesNotice
  <2> QED
    BY <1>4, <1>5, <2>1, <2>2, <2>3, <2>4, SpeechStep DEF heard
<1>9. CASE ~(was.event.kind = "none" /\ "refusal" \in was.says)
  <2>1. PICK r : r = Skipping(with, 1)
    OBVIOUS
  <2>2. Goes(p, r)
    BY <1>9, <2>1 DEF SaveTally, Then
  <2>3. with \in Flights /\ with.todo = was.todo /\ with.says = was.says
        /\ with.event = was.event /\ with.marker = was.marker
    <3>1. Untallied \in Tallies
      BY DEF Untallied, Tallies, Known
    <3> QED
      BY <1>2, <3>1 DEF Flights
  <2> HIDE DEF with
  <2>4. /\ WellFormed(r) /\ r.todo # <<>> /\ r.todo[1] = was.todo[1 + 1]
        /\ r.event = with.event /\ r.marker = with.marker /\ r.says = with.says
    <3>1. 1 \in 1..2 /\ was.todo[1 + 1] \in {<<"agent", "stamp">>, <<"agent", "print">>}
      BY <1>3
    <3>2. with.says \subseteq SaysAt(was.todo[1 + 1]) /\ ~({"word", "refusal"} \subseteq with.says)
      BY <1>2, <2>3, <3>1 DEF SaysAt
    <3>3. /\ was \in Flights /\ StepsInOrder(was.todo) /\ Len(was.todo) > 1
          /\ with \in Flights /\ with.todo = was.todo
      BY <1>2, <1>3, <2>3
    <3> QED
      BY ONLY <2>1, <3>1, <3>2, <3>3, SpeechThen
  <2>5. /\ r.event = was.event /\ r.marker = was.marker /\ r.says = was.says
        /\ r.todo[1] \in SpeechSteps /\ ~Tallying(r)
    BY <1>3, <2>3, <2>4 DEF SpeechSteps, Tallying
  <2>6. /\ Telling(was) => CarriesNotice(r)
        /\ CarriesNotice(r) => AllReached(r.marker)
    BY <1>6, <1>7, <2>5 DEF CarriesNotice, AllReached
  <2> QED
    BY <1>4, <1>5, <1>7, <2>2, <2>4, <2>5, <2>6, SpeechStep DEF AllReached, heard
<1> QED
  BY <1>8, <1>9

LEMMA StampMarkerStep ==
  ASSUME IInv, NEW p \in Procs, StampMarker(p)
  PROVE  IInv'
<1> DEFINE was == proc[p]
           said == IF Channel(was.event) THEN was.says ELSE {}
           with == [was EXCEPT !.marker = Unbriefed, !.says = said]
<1>1. p \in Everyone /\ <<"agent", "stamp">> \in SpeechSteps /\ At(p, <<"agent", "stamp">>)
  BY Processes DEF StampMarker, SpeechSteps
<1>2. /\ was \in Flights /\ WellFormed(was) /\ StepsInOrder(was.todo)
      /\ was.todo # <<>> /\ was.todo[1] = <<"agent", "stamp">>
      /\ Head(was.todo) = <<"agent", "stamp">> /\ was.says \subseteq {"notice", "word", "refusal"}
      /\ ~({"word", "refusal"} \subseteq was.says)
  BY <1>1, AtSpeech DEF SaysAt
<1>3. Len(was.todo) > 1 /\ was.todo[2] = <<"agent", "print">>
  BY <1>2, SpeechNext
<1>4. marker \in Markers /\ was.marker \in Markers /\ tally \in Tallies
  BY <1>2 DEF IInv, Shape, TypeOK, Flights
<1>5. /\ UNCHANGED <<story, tally, stamp, settings, told, lost, coached, since>>
      /\ marker' = marker \/ (CarriesNotice(was) /\ marker' = was.marker)
      /\ hushed \subseteq hushed'
      /\ "word" \in was.says /\ ~Channel(was.event) => was.event.session \in hushed'
  BY DEF StampMarker, StampsMarker, CarriesNotice
<1>6. Telling(was) => "notice" \in was.says /\ Channel(was.event)
  BY <1>2 DEF Telling
<1>7. "notice" \in was.says => Briefs(was.event)
  BY DEF IInv, MarkerInv
<1>8. PICK r : r = Skipping(with, 1)
  OBVIOUS
<1>9. Goes(p, r)
  BY <1>8 DEF StampMarker, Then
<1>10. /\ said \subseteq was.says
       /\ Channel(was.event) => said = was.says
  OBVIOUS
<1> HIDE DEF said
<1>11. with \in Flights /\ with.todo = was.todo /\ with.says = said
       /\ with.event = was.event /\ with.marker = Unbriefed
  <2>1. Unbriefed \in Markers /\ said \in SUBSET Words
    BY <1>2, <1>10 DEF Unbriefed, Markers, Known, Flights
  <2> QED
    BY <1>2, <2>1 DEF Flights
<1> HIDE DEF with
<1>12. /\ WellFormed(r) /\ r.todo # <<>> /\ r.todo[1] = was.todo[1 + 1]
       /\ r.event = with.event /\ r.marker = with.marker /\ r.says = with.says
  <2>1. 1 \in 1..2 /\ was.todo[1 + 1] = <<"agent", "print">>
    BY <1>3
  <2>2. with.says \subseteq SaysAt(was.todo[1 + 1]) /\ ~({"word", "refusal"} \subseteq with.says)
    BY <1>2, <1>10, <1>11, <2>1 DEF SaysAt
  <2>3. /\ was \in Flights /\ StepsInOrder(was.todo) /\ Len(was.todo) > 1
        /\ with \in Flights /\ with.todo = was.todo
    BY <1>2, <1>3, <1>11
  <2> QED
    BY ONLY <1>8, <2>1, <2>2, <2>3, SpeechThen
<1>13. /\ r.event = was.event /\ r.marker = Unbriefed /\ r.says = said
       /\ r.todo[1] \in SpeechSteps /\ ~Tallying(r)
  <2>1. r.todo[1] = <<"agent", "print">>
    BY <1>3, <1>12
  <2>2. r.todo[1] \in SpeechSteps /\ ~Tallying(r)
    BY <2>1 DEF SpeechSteps, Tallying
  <2> QED
    BY <1>11, <1>12, <2>2
<1>14. Telling(was) => CarriesNotice(r)
  BY <1>6, <1>10, <1>13 DEF CarriesNotice
<1>15. ToSet(r.marker.agents) = {}
  BY <1>13 DEF Unbriefed, ToSet
<1>16. /\ "word" \in was.says => "word" \in r.says \/ was.event.session \in hushed'
       /\ "notice" \in r.says => Briefs(r.event)
  BY <1>5, <1>7, <1>10, <1>13
<1> QED
  BY <1>4, <1>5, <1>9, <1>12, <1>13, <1>14, <1>15, <1>16, SpeechStep

LEMMA SayStep ==
  ASSUME IInv, NEW p \in Procs, Say(p)
  PROVE  IInv'
<1> DEFINE was == proc[p]
           with == [was EXCEPT !.says = {}]
<1>1. p \in Everyone /\ <<"agent", "print">> \in SpeechSteps /\ At(p, <<"agent", "print">>)
  BY Processes DEF Say, SpeechSteps
<1>2. /\ was \in Flights /\ WellFormed(was) /\ StepsInOrder(was.todo)
      /\ was.todo # <<>> /\ was.todo[1] = <<"agent", "print">>
      /\ Head(was.todo) = <<"agent", "print">>
  BY <1>1, AtSpeech
<1>3. Len(was.todo) > 1 => Opens(was.todo[2])
  BY <1>2, SpeechNext
<1>4. marker \in Markers /\ tally \in Tallies
  BY DEF IInv, Shape, TypeOK
<1>5. /\ UNCHANGED <<story, files, settings, lost, hushed, since>>
      /\ told \subseteq told' /\ coached \subseteq coached'
      /\ "notice" \in was.says => <<was.event.session, Audience(was.event)>> \in told'
      /\ "word" \in was.says => was.event.session \in coached'
  BY DEF Say
<1>6. Telling(was) => "notice" \in was.says
  BY <1>2 DEF Telling
<1>7. PICK r : r = Skipping(with, 1)
  OBVIOUS
<1>8. Goes(p, r)
  BY <1>7 DEF Say, Then
<1>9. with \in Flights /\ with.todo = was.todo /\ with.says = {}
  BY <1>2 DEF Flights
<1>10. WellFormed(r) /\ r.says = {} /\ (r.todo = <<>> \/ Opens(r.todo[1]))
  <2> HIDE DEF with
  <2>1. /\ WellFormed(r)
        /\ \/ r = Resting
           \/ /\ Len(with.todo) > 1 /\ r = [with EXCEPT !.todo = r.todo]
              /\ r.todo # <<>> /\ r.todo[1] = with.todo[1 + 1]
    <3>1. StepsInOrder(with.todo) /\ with.says \subseteq {} /\ 1 \in 1..3
      BY <1>2, <1>9
    <3> QED
      BY <1>7, <1>9, <3>1, GoesOn
  <2>2. r = [with EXCEPT !.todo = r.todo] => r.says = {}
    BY <1>9 DEF Flights
  <2> QED
    BY <1>3, <1>9, <2>1, <2>2 DEF Resting
<1>11. ~Tallying(r) /\ ~CarriesNotice(r)
  BY <1>10 DEF Tallying, CarriesNotice, Opens
<1> QED
  BY <1>4, <1>5, <1>6, <1>8, <1>10, <1>11, SpeechStep DEF files

-----------------------------------------------------------------------------
(* The end of a process, and time.                                          *)

LEMMA KillStep ==
  ASSUME IInv, NEW p \in Everyone, Killed(p)
  PROVE  IInv'
<1> DEFINE was == proc[p]
<1>1. /\ was.todo # <<>> /\ WellFormed(was) /\ proc' = [proc EXCEPT ![p] = Resting]
      /\ UNCHANGED <<story, files, settings, told, coached, since>>
      /\ hushed \subseteq hushed' /\ lost \subseteq lost'
  BY DEF Killed, AtRest, Goes, IInv, Shape
<1>2. /\ "word" \in was.says => was.event.session \in hushed'
      /\ Telling(was) => <<was.event.session, Audience(was.event)>> \in lost'
  BY <1>1 DEF Killed, Telling, At, AtRest
<1>3. WellFormed(Resting) /\ ~Tallying(Resting) /\ Resting.says = {}
      /\ \A lane \in Lanes : ~Writes(Resting, lane)
  BY RestingFits DEF Resting
<1>4. Shape' /\ LaneInv'
  BY <1>1, <1>3, ShapeStep, MuteStep DEF IInv, Shape, TypeOK, files, settings
<1>5. WordInv'
  <2>1. \A session : Heard(session) => Heard(session)'
    BY <1>1, <1>2, <1>3, HeardStays DEF IInv
  <2> QED
    BY <1>1, <1>3, <2>1, WordStep DEF IInv, files
<1>6. MarkerInv'
  <2>1. \A audience \in told' \union lost' : HasHeard(audience)'
    BY DEF HasHeard
  <2>2. \A audience : HasHeard(audience) => HasHeard(audience)'
    BY <1>1, <1>2, <1>3, <2>1, ReachedStays DEF IInv
  <2> QED
    BY <1>1, <1>3, <2>2, MarkerStep DEF IInv, files
<1> QED
  BY <1>4, <1>5, <1>6 DEF IInv

(* Every clock and every stamp grows older at the same pace.                *)
LEMMA OlderStays ==
  /\ \A age \in 0..Oldest : Aged(age) \in 0..Oldest
  /\ \A a, b \in 0..Oldest : a >= b => Aged(a) >= Aged(b)
BY DEF Aged, Oldest

LEMMA TickStep == IInv /\ Tick => IInv'
<1> SUFFICES ASSUME IInv, Tick PROVE IInv'
  OBVIOUS
<1>1. /\ proc \in [Everyone -> Flights] /\ stamp \in [Lanes -> Stamps]
      /\ since \in [Lanes -> [run : 0..Oldest, off : 0..Oldest]]
  BY DEF IInv, Shape, TypeOK
<1>2. UNCHANGED <<story, marker, tally, settings, heard, used>>
  BY DEF Tick
<1>3. ASSUME NEW q \in Everyone
      PROVE  /\ proc'[q] \in Flights
             /\ proc'[q].todo = proc[q].todo /\ proc'[q].event = proc[q].event
             /\ proc'[q].marker = proc[q].marker /\ proc'[q].tally = proc[q].tally
             /\ proc'[q].says = proc[q].says
             /\ proc[q].todo # <<>> => proc'[q].file.age = Aged(proc[q].file.age)
  <2> DEFINE age == IF AtRest(q) THEN proc[q].file.age ELSE Aged(proc[q].file.age)
             file == [proc[q].file EXCEPT !.age = age]
  <2>1. proc[q] \in Flights /\ proc[q].file \in Stamps /\ age \in 0..Oldest
    BY <1>1, OlderStays DEF Flights, Stamps
  <2>2. proc'[q] = [proc[q] EXCEPT !.file = file]
    BY <1>1 DEF Tick
  <2>3. proc[q].todo # <<>> => age = Aged(proc[q].file.age)
    BY DEF AtRest
  <2> HIDE DEF age
  <2>4. file \in Stamps /\ file.age = age
    BY <2>1 DEF Stamps
  <2> HIDE DEF file
  <2> QED
    BY <2>1, <2>2, <2>3, <2>4 DEF Flights
<1>4. proc' \in [Everyone -> Flights]
  BY <1>1, <1>3 DEF Tick
<1>5. ASSUME NEW l \in Lanes
      PROVE  /\ stamp'[l] \in Stamps /\ stamp'[l].age = Aged(stamp[l].age)
             /\ since'[l].run = Aged(since[l].run) /\ since'[l].off = Aged(since[l].off)
             /\ since'[l] \in [run : 0..Oldest, off : 0..Oldest]
  <2>1. stamp[l] \in Stamps /\ Aged(stamp[l].age) \in 0..Oldest
        /\ Aged(since[l].run) \in 0..Oldest /\ Aged(since[l].off) \in 0..Oldest
    BY <1>1, OlderStays DEF Stamps
  <2>2. stamp'[l] = [stamp[l] EXCEPT !.age = Aged(stamp[l].age)]
    BY DEF Tick
  <2>3. since'[l] = [run |-> Aged(since[l].run), off |-> Aged(since[l].off)]
    BY DEF Tick
  <2> QED
    BY <2>1, <2>2, <2>3 DEF Stamps
<1>6. stamp' \in [Lanes -> Stamps] /\ since' \in [Lanes -> [run : 0..Oldest, off : 0..Oldest]]
  BY <1>5 DEF Tick
<1>7. Shape'
  <2>1. \A q \in Everyone : WellFormed(proc'[q])
    BY <1>3 DEF IInv, Shape, WellFormed
  <2> QED
    BY <1>2, <1>4, <1>6, <2>1 DEF IInv, Shape, TypeOK, WellFormed, settings
<1>8. ASSUME NEW l \in Lanes, NEW age \in 0..Oldest, HonestIn(since[l], age)
      PROVE  HonestIn(since'[l], Aged(age))
  <2>1. since[l].run \in 0..Oldest /\ since[l].off \in 0..Oldest
    BY <1>1
  <2>2. since'[l].run = Aged(since[l].run) /\ since'[l].off = Aged(since[l].off)
    BY <1>5
  <2>3. age >= since[l].run => Aged(age) >= Aged(since[l].run)
    BY <2>1, OlderStays
  <2>4. age >= since[l].off => Aged(age) >= Aged(since[l].off)
    BY <2>1, OlderStays
  <2> QED
    BY <1>8, <2>2, <2>3, <2>4 DEF HonestIn
<1>9. LaneInv'
  <2>1. ASSUME NEW l \in Lanes PROVE HonestIn(since'[l], stamp'[l].age)
    <3>1. HonestIn(since[l], stamp[l].age) /\ stamp[l].age \in 0..Oldest
      BY <1>1 DEF IInv, LaneInv, StampIsHonest, HonestIn, Stamps
    <3> QED
      BY <1>5, <1>8, <3>1
  <2>2. ASSUME NEW q \in Everyone, NEW l \in Lanes, Writes(proc'[q], l)
        PROVE  HonestIn(since'[l], proc'[q].file.age)
    <3>1. Writes(proc[q], l) /\ proc[q].file.age \in 0..Oldest /\ proc[q].todo # <<>>
      BY <1>1, <1>3, <2>2 DEF Writes, Restarts, Flights, Stamps
    <3>2. HonestIn(since[l], proc[q].file.age)
      BY <3>1 DEF IInv, LaneInv, CopyIsHonest
    <3> QED
      BY <1>3, <1>8, <3>1, <3>2
  <2> QED
    BY <2>1, <2>2 DEF LaneInv, StampIsHonest, CopyIsHonest, HonestIn
<1>10. \A q \in Procs : /\ proc'[q].todo = proc[q].todo /\ proc'[q].event = proc[q].event
                        /\ proc'[q].marker = proc[q].marker /\ proc'[q].tally = proc[q].tally
                        /\ proc'[q].says = proc[q].says
  BY <1>3, Processes
<1>11. WordInv'
  BY <1>2, <1>10 DEF IInv, WordInv, SpentIsSaid, Heard, Tallying, heard
<1>12. MarkerInv'
  <2>1. BeingTold' = BeingTold
    BY <1>2, <1>10 DEF BeingTold, Telling, Channel, Audience
  <2>2. \A audience : HasHeard(audience)' <=> HasHeard(audience)
    BY <1>2, <2>1 DEF HasHeard, heard
  <2>3. AllReached(marker)'
    BY <1>2, <2>2 DEF IInv, MarkerInv, AllReached
  <2>4. ASSUME NEW q \in Procs, CarriesNotice(proc[q])' PROVE AllReached(proc[q].marker)'
    <3>1. CarriesNotice(proc[q])
      BY <1>2, <1>10, <2>4 DEF CarriesNotice, Channel
    <3> QED
      BY <1>10, <2>2, <3>1 DEF IInv, MarkerInv, AllReached
  <2> QED
    BY <1>10, <2>3, <2>4 DEF IInv, MarkerInv, Briefs
<1> QED
  BY <1>7, <1>9, <1>11, <1>12 DEF IInv

-----------------------------------------------------------------------------
(* The invariant, and what follows from it.                                 *)

LEMMA InitIInv == AmbientInit => IInv
<1> SUFFICES ASSUME AmbientInit PROVE IInv
  OBVIOUS
<1>1. \A p \in Everyone : proc[p] = Resting
  BY DEF AmbientInit, Everyone
<1>2. /\ WellFormed(Resting) /\ ~Tallying(Resting) /\ \A lane \in Lanes : ~Writes(Resting, lane)
      /\ Resting.says = {}
  BY RestingFits DEF Resting
<1>3. Shape
  <2>1. Unbriefed \in Markers /\ Untallied \in Tallies /\ Unstamped \in Stamps
    BY DEF Unbriefed, Markers, Untallied, Tallies, Unstamped, Stamps, Oldest, Known
  <2>2. /\ live \in [Lanes -> {"off", "short", "long"}] /\ policy \in Policies
        /\ since \in [Lanes -> [run : 0..Oldest, off : 0..Oldest]]
        /\ stamp \in [Lanes -> Stamps] /\ release \in Nat
    BY <2>1 DEF AmbientInit, Policies, Oldest
  <2>3. proc \in [Everyone -> Flights]
    BY <1>2 DEF AmbientInit, Everyone, WellFormed
  <2> QED
    BY <1>1, <1>2, <2>1, <2>2, <2>3 DEF AmbientInit, Shape, TypeOK
<1>4. LaneInv
  BY <1>1, <1>2 DEF AmbientInit, LaneInv, StampIsHonest, CopyIsHonest, Unstamped, Oldest
<1>5. WordInv
  BY <1>1, <1>2, Processes DEF AmbientInit, WordInv, SpentIsSaid, Untallied
<1>6. MarkerInv
  BY <1>1, <1>2, Processes DEF AmbientInit, MarkerInv, AllReached, Unbriefed, ToSet, CarriesNotice
<1> QED
  BY <1>3, <1>4, <1>5, <1>6 DEF IInv

LEMMA StepIInv == IInv /\ [AmbientNext]_ambientVars => IInv'
<1> SUFFICES ASSUME IInv, [AmbientNext]_ambientVars PROVE IInv'
  OBVIOUS
<1>1. ASSUME NEW p \in Procs, Step(p) PROVE IInv'
  <2>1. CASE Brief(p) \/ CorrectWord(p) \/ SaveTally(p) \/ StampMarker(p) \/ Say(p)
    BY <2>1, BriefStep, CorrectStep, SaveTallyStep, StampMarkerStep, SayStep
  <2>2. ASSUME NEW lane \in Lanes,
               Look(p, lane) \/ Save(p, lane) \/ Sync(p, lane) \/ ManualStamp(p, lane)
        PROVE  IInv'
    BY <2>2, LookStep, SaveStep, SyncStep, ManualStampStep
  <2>3. CASE Record(p) \/ Spawn(p) \/ Pending(p) \/ MarkNotified(p)
    BY <2>3, RecordStep, SpawnStep, PendingStep, MarkStep
  <2> QED
    BY <1>1, <2>1, <2>2, <2>3 DEF Step
<1>2. ASSUME NEW p \in Procs,
             Verb(p) \/ Git(p) \/ \E lane \in Lanes : Config(p, lane) \/ Manual(p, lane)
      PROVE  IInv'
  BY <1>2, SilentStarts
<1>3. ASSUME NEW p \in Procs, Trigger(p) PROVE IInv'
  BY <1>3, TriggerStep
<1>4. ASSUME NEW p \in Procs \union {Child}, Killed(p) PROVE IInv'
  BY <1>4, KillStep DEF Everyone
<1>5. CASE TriggerFails \/ Policy \/ Released \/ UNCHANGED ambientVars
  BY <1>5, Unattended
<1>6. CASE Refresh
  BY <1>6, RefreshStep
<1>7. CASE Tick
  BY <1>7, TickStep
<1> QED
  BY <1>1, <1>2, <1>3, <1>4, <1>5, <1>6, <1>7 DEF AmbientNext

LEMMA Invariant == AmbientSpec => []IInv
<1> QED
  BY InitIInv, StepIInv, PTL DEF AmbientSpec

(* Whatever the processes do to each other's saves, every file, setting and process
   stays what the code can read back.                                        *)
THEOREM AmbientTypes == AmbientSpec => []TypeOK
<1>1. IInv => TypeOK
  BY DEF IInv, Shape
<1> QED
  BY <1>1, Invariant, PTL

(* A lane's stamp is never younger than its last start, or its last look at a setting
   that was off, for every number of processes: a stale copy saved over a fresh one
   can only make the lane run early (cadence.rs, autofetch.rs, autotrim.rs, notify.rs). *)
THEOREM StampsAreHonest == AmbientSpec => []StampIsHonest
<1>1. IInv => StampIsHonest
  BY DEF IInv, LaneInv
<1> QED
  BY <1>1, Invariant, PTL

(* No marker and no slot is spent in silence, for every number of processes, audiences
   and stories: a word a session's tally has as named was heard, will be or could not
   be, and an event that stays silent is of an audience that was told, is being told or
   was cut off (gitpolicy.rs mark; runtime.rs speak).                        *)
THEOREM NothingUnsaid == AmbientSpec => NothingSpentUnsaid
<1> DEFINE Told == \A p \in Procs : Silent(p) /\ Brief(p) =>
                     LET audience == <<proc[p].event.session, Audience(proc[p].event)>>
                     IN  audience \in told \union lost \union BeingTold'
<1>1. IInv => SpentIsSaid
  BY DEF IInv, WordInv
<1>2. IInv /\ [AmbientNext]_ambientVars => [Told]_ambientVars
  <2> SUFFICES ASSUME IInv, NEW p \in Procs, Silent(p), Brief(p)
               PROVE  <<proc[p].event.session, Audience(proc[p].event)>>
                        \in told \union lost \union BeingTold'
    OBVIOUS
  <2>1. /\ marker.session = proc[p].event.session
        /\ Audience(proc[p].event) \in ToSet(marker.agents)
    BY DEF Silent, BriefingDue, Anew
  <2>2. PICK audience : audience = <<proc[p].event.session, Audience(proc[p].event)>>
    OBVIOUS
  <2>3. HasHeard(audience)
    BY <2>1, <2>2 DEF IInv, MarkerInv, AllReached
  <2>4. HasHeard(audience)' /\ told' = told /\ lost' = lost
    BY <2>3, BriefStep DEF Brief, heard
  <2> QED
    BY <2>2, <2>4 DEF HasHeard
<1>3. AmbientSpec => SilentWasTold
  BY <1>2, Invariant, PTL DEF AmbientSpec, SilentWasTold
<1> QED
  BY <1>1, <1>3, Invariant, PTL DEF NothingSpentUnsaid

=============================================================================
