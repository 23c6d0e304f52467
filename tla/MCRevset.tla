------------------------------ MODULE MCRevset ------------------------------
(***************************************************************************)
(* Small repositories for Revset: a line, a fork with a remote copy of a   *)
(* change, a merge, and a line of one second.                              *)
(***************************************************************************)
EXTENDS Revset

MCLeaves == {<<"@">>, <<"a">>, <<"b">>, <<"@", "~", "2">>, <<"k">>, <<"x">>}
MCFunctions == {"heads", "roots", "latest", "base"}
MCPredicates == {"description", "kind"}

Op(sha, prev, time, base, kind) == [sha |-> sha, prev |-> prev, time |-> time, base |-> base, kind |-> kind]
(* The recovery point, then a snapshot, a verb and a snapshot.             *)
Chain == (11 :> Op("w", Nobody, 1, Nobody, "capture")) @@ (12 :> Op("x", 11, 2, 1, "op"))
         @@ (13 :> Op("y", 12, 3, 2, "op")) @@ (14 :> Op("z", 13, 4, 2, "capture"))

Shas == <<"s1", "s2", "s3", "s4", "s5">>
Line ==
  [par |-> << <<>>, <<1>>, <<2>>, <<3>> >>, time |-> <<1, 2, 3, 4>>, sha |-> SubSeq(Shas, 1, 4),
   change |-> <<"-", "k", "-", "-">>, refs |-> [a |-> 2, b |-> 4], remotes |-> [r |-> 3], head |-> 3, open |-> "o",
   says |-> {2, 4}, op |-> Chain, tip |-> 14]
Fork ==
  [par |-> << <<>>, <<1>>, <<1>>, <<3>>, <<2>> >>, time |-> <<1, 2, 3, 4, 5>>, sha |-> Shas,
   change |-> <<"-", "-", "-", "k", "k">>, refs |-> [a |-> 2, b |-> 4], remotes |-> [r |-> 5], head |-> 2, open |-> "k",
   says |-> {1, 4}, op |-> Chain, tip |-> 13]
Merge ==
  [par |-> << <<>>, <<1>>, <<1>>, <<2, 3>> >>, time |-> <<1, 2, 3, 4>>, sha |-> SubSeq(Shas, 1, 4),
   change |-> <<"-", "k", "k", "-">>, refs |-> [a |-> 3, b |-> 4], remotes |-> [r |-> 3], head |-> 4, open |-> "o",
   says |-> {3}, op |-> Chain, tip |-> 14]
Second ==
  [par |-> << <<>>, <<1>>, <<2>> >>, time |-> <<1, 1, 1>>, sha |-> SubSeq(Shas, 1, 3),
   change |-> <<"-", "-", "k">>, refs |-> [a |-> 1, b |-> 3], remotes |-> [r |-> 2], head |-> 2, open |-> "o",
   says |-> {1}, op |-> Chain, tip |-> 14]
MCRepos == {Line, Fork, Merge, Second}
=============================================================================
