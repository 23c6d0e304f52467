------------------------------- MODULE MCLineup -------------------------------
(* Model checking of Stack and Lineup: trunk with one commit, and two        *)
(* branches of one commit each, one on the other or both on trunk.           *)
EXTENDS Lineup

CONSTANTS main, a, b, p, q

(* A branch is listed before the one it stands on, and trunk last.           *)
MCNameOrder == (b :> 1) @@ (a :> 2) @@ (main :> 3)

Line(ids, paths) == [k \in DOMAIN ids |-> Commit(ids[k], paths[k])]

Repo(head, parent, onB, path) ==
  [head |-> head,
   line |-> (main :> Line(<<1>>, <<p>>)) @@ (a :> Line(<<1, 2>>, <<p, q>>)) @@ (b :> Line(onB, path)),
   parent |-> [n \in Branches |-> IF n = b THEN parent ELSE None],
   held |-> [n \in Branches |-> None], stays |-> {}, old |-> {}]

Stacked(head) == {Repo(head, a, <<1, 2, 3>>, <<p, q, x>>) : x \in Paths}
Tower(head) == Repo(head, a, <<1, 2, 3>>, <<p, q, p>>)
(* Listed the other way: what stands on a branch comes after it.             *)
Swap(n) == CASE n = a -> b [] n = b -> a [] OTHER -> n
Swapped ==
  {[r EXCEPT !.head = Swap(@), !.line = [n \in Branches |-> r.line[Swap(n)]],
             !.parent = (a :> b) @@ [n \in Branches |-> None]] :
     r \in {Tower(b)}}
Apart == {Repo(a, None, <<1, 3>>, <<p, q>>)}
Staying == {[Tower(a) EXCEPT !.stays = {n}] : n \in {a, b}}

Budget(verbs, hops, undos) == [verbs |-> verbs, hops |-> hops, undos |-> undos]
Shared(others, pulls) == [others |-> others, pulls |-> pulls]

(* The verbs alone, beside another worktree or none.                         *)
Verbs(r, o, verbs) ==
  [repo |-> r, other |-> o, made |-> 3, left |-> Budget(verbs, 1, 1), spare |-> Shared(0, 0)]
MCVerbs ==
  {Verbs(r, None, 3) : r \in Stacked(b)} \cup {Verbs(Tower(b), a, 3)} \cup {Verbs(r, None, 2) : r \in Apart}

(* A pull among one of each, beside another worktree or none, with a branch  *)
(* that is left standing or none.                                            *)
MCPulls ==
  {[repo |-> r, other |-> None, made |-> 3, left |-> Budget(1, 1, 1), spare |-> Shared(1, 1)] :
     r \in {Tower(main)} \cup Stacked(a) \cup Stacked(b) \cup Swapped \cup Staying}
  \cup
  {[repo |-> Tower(b), other |-> a, made |-> 3, left |-> Budget(1, 1, 1), spare |-> Shared(1, 1)]}

(* Two things others do, and a verb.                                         *)
MCArrivals ==
  {[repo |-> r, other |-> None, made |-> 3, left |-> Budget(1, 0, 0), spare |-> Shared(2, 1)] :
     r \in Stacked(b)}

MCStarts == MCVerbs \cup MCPulls \cup MCArrivals
===============================================================================
