---------------------------- MODULE MCResolution ----------------------------
(***************************************************************************)
(* Stacks of three commits, straight or with a merge of a side line that   *)
(* left below the stack or inside it; each commit writes one file, and     *)
(* the merge what it can.  The base is one commit ahead, which may hold    *)
(* the change of the stack's first.                                        *)
(***************************************************************************)
EXTENDS Resolution

Start == [p \in Paths |-> <<"a">>]
Root == [name |-> "root", parents |-> <<>>, tree |-> Start, id |-> 0]
Over(name, below, tree, id) == [name |-> name, parents |-> below, tree |-> tree, id |-> id]
On(name, below, id) == {Over(name, <<below>>, t, id) : t \in Edited(below.tree)}

Settled(m) ==
  {t \in Trees : \A p \in Paths :
     IF p \in m.paths THEN t[p][1] \in Contents[p] ELSE t[p] = m.tree[p]}
Joins(name, one, two) ==
  {Over(name, <<one, two>>, t, 0) :
     t \in Settled(Remerged(<<one, two>>, 0))}

Ahead == On("base", Root, 0) \cup On("base", Root, 1)
First == On("a", Root, 1)
Straight == UNION {UNION {{<<c, b, a>> : c \in On("c", b, 0)} : b \in On("b", a, 0)} : a \in First}
Outside == UNION {{<<m, a>> : m \in UNION {Joins("m", a, s) : s \in On("s", Root, 0)}} : a \in First}
Inside == UNION {UNION {{<<m, b, a>> : m \in UNION {Joins("m", b, s) : s \in On("s", a, 0)}}
                   : b \in On("b", a, 0)} : a \in First}
All == Straight \cup Outside \cup Inside

(* The rewrites that change the branch itself start from a first commit    *)
(* that writes the file with more to hold, a move from one that writes b:  *)
(* b and c are alike.                                                      *)
Few == {s \in All : Last(s).tree["f"] # Start["f"]}
Fewer == {s \in All : Last(s).tree["f"] = <<"b">>}
Tips(ss) == {s[1] : s \in ss}
Watched == Tips({s \in Straight \cup Outside : Last(s).tree["f"] = <<"b">>})
Onward ==
  LET b == Over("base", <<Root>>, [Start EXCEPT !["f"] = <<"c">>], 0)
  IN {Over("base", <<Root>>, [Start EXCEPT !["g"] = <<"b">>], 0)}
     \cup {Over("later", <<b>>, [b.tree EXCEPT !["g"] = <<v>>], 0) : v \in {"b", "gone"}}
AllStacks == [onto |-> All, tree |-> Few, move |-> Fewer, merge |-> All, message |-> Few]
Files == [p \in Paths |-> IF p = "f" THEN Texts ELSE {"a", "b", "c"}]
=============================================================================
