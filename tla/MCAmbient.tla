------------------------------ MODULE MCAmbient ------------------------------
(* One lane at a time; the briefing of two sessions and their subagents; and a
   session's raw git beside a shell's.  They share no file: the lanes' stamps,
   the marker and the tally are each a story's own.                           *)
EXTENDS Ambient

Quiet == [lane |-> "none", events |-> {}, git |-> FALSE, speaks |-> TRUE, turns |-> 1]
Event(kind, session, agent, word) ==
  [kind |-> kind, session |-> session, agent |-> agent, word |-> word]
Briefings ==
  {Event(kind, session, Main, FALSE) :
     kind \in {"SessionStart", "ContextStart", "BeforeTool"}, session \in {"s1", "s2"}}
  \union {Event("BeforeTool", "s1", agent, FALSE) : agent \in Agents}
RawGit == {Event("BeforeTool", "s1", Main, TRUE)}

MCStories ==
  {[Quiet EXCEPT !.lane = l] : l \in Lanes}
  \union {[Quiet EXCEPT !.events = Briefings, !.speaks = speaks] : speaks \in BOOLEAN}
  \union {[Quiet EXCEPT !.events = RawGit, !.git = TRUE, !.speaks = speaks] : speaks \in BOOLEAN}
=============================================================================
