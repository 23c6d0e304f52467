------------------------------- MODULE Ambient -------------------------------
(* What rides an invocation besides the verb itself (crates/ff-cli/src: lanes.rs,
   autofetch.rs, autotrim.rs, cadence.rs, selfupdate/notify.rs, cmd/update.rs, and
   gitpolicy.rs, cmd/git.rs, integ/runtime.rs): the briefing and the correction of
   a client's agent, and the three lanes that run at most once per cadence and
   announce a release.  Each keeps its memory in a small file that every process
   loads, decides on and saves back whole; a save is a rename, so no file is ever
   torn, and two processes lose each other's updates.

   Time is how old a stamp is: 0 is younger than the short cadence, 1 is younger
   than the long one, 2 is older than both; a setting's default is the short one.
   There is one raw-git word.  The environment's gates (CI, bare repositories, no
   remote, no terminal, an unofficial build) are open.                           *)
EXTENDS Naturals, FiniteSets, Sequences, SequencesExt

CONSTANTS
  Procs,        \* the user's and the client's processes of fufu running at once
  Child,        \* the `ff update --check' a process spawns
  Sessions,     \* the sessions a client opens
  Agents, Main, \* who hears a briefing: the main thread, and its subagents
  AmbientStories, \* what a behaviour looks at: [lane, events, git, speaks], and a bound,
                \* turns, on what the user sets and on the releases
  MaxAudiences, \* how many audiences the marker remembers (MAX_AUDIENCES)
  MaxCuts       \* bound: processes killed, captures and fetches that fail

ASSUME ProcsAssumption == Child \notin Procs
ASSUME AmbientStoriesAssumption ==
  /\ Main \in Agents
  /\ \A s \in AmbientStories :
       s.events \subseteq [kind : {"SessionStart", "ContextStart", "BeforeTool"},
                          session : Sessions, agent : Agents, word : BOOLEAN]

VARIABLES
  story,   \* the member of Stories
  marker,  \* fufu/session/<slug>
  tally,   \* gitpolicy-<chain>.json
  stamp,   \* lane -> autofetch.json, autotrim-<chain>.json, update.json
  live,    \* lane -> the setting: "off", "short" or "long"
  policy,  \* fufu.gitPolicy
  release, \* the newest release there is
  proc,    \* process -> what it has yet to do, and the files it has loaded
  told,    \* audiences told since their context began
  lost,    \* audiences that a cut left untold
  coached, \* sessions the word was named in
  hushed,  \* sessions the word came up in with nobody to hear it
  since,   \* lane -> [run, off]: how long ago it started, and was found off
  used     \* the bounds used: [turns, cuts]

files == <<marker, tally, stamp>>
settings == <<live, policy, release>>
heard == <<told, lost, coached, hushed>>
ambientVars == <<story, files, settings, proc, heard, since, used>>

Lanes == {"fetch", "trim", "check"}
Oldest == 2
Policies == {"observe", "coach", "strict"}

Unbriefed == [session |-> "none", agents |-> <<>>]
Untallied == [session |-> "none", named |-> FALSE]
Unstamped == [age |-> Oldest, every |-> "unset", latest |-> 0, notified |-> 0, failing |-> FALSE]
NoEvent == [kind |-> "none", session |-> "none", agent |-> Main, word |-> FALSE]
Resting == [todo |-> <<>>, event |-> NoEvent, marker |-> Unbriefed, tally |-> Untallied,
            file |-> Unstamped, says |-> {}]

-----------------------------------------------------------------------------
(* The decisions, apart from the files.                                     *)

\* A setting that was off is read again on the default cadence.
StaleAfter(every) == IF every = "long" THEN 2 ELSE 1

\* FAULTY: a setting that was off is not read again.
DueByCacheOfOn(file) == file.every # "off" /\ file.age >= StaleAfter(file.every)
DueByCache(file) == file.age >= StaleAfter(file.every)
DueByLive(lane, file) ==
  IF live[lane] = "off" THEN "Disabled"
  ELSE IF file.age < StaleAfter(live[lane]) THEN "Fresh" ELSE "Due"

\* FAULTY: a lane that is not due is stamped like one that is.
StampedAlways(lane, file) == [file EXCEPT !.every = live[lane], !.age = 0]
\* The stamp is written before the work; the check's is written by the child.
Stamped(lane, file) ==
  [file EXCEPT !.every = live[lane],
               !.age = CASE DueByLive(lane, file) = "Disabled" -> 0
                         [] DueByLive(lane, file) = "Due" /\ lane # "check" -> 0
                         [] OTHER -> @]

\* Who an event briefs, if anyone; a boundary and a new session begin the list anew.
Briefs(event) == event.kind \in {"SessionStart", "ContextStart", "BeforeTool"}
Audience(event) == IF event.kind = "BeforeTool" THEN event.agent ELSE Main
Anew(m, event) == event.kind = "SessionStart" \/ m.session # event.session
BriefingDue(m, event) ==
  Briefs(event) /\ (Anew(m, event) \/ Audience(event) \notin ToSet(m.agents))
BriefedAs(m, event) ==
  LET agents == Append(IF Anew(m, event) THEN <<>> ELSE m.agents, Audience(event))
  IN  [session |-> event.session,
       agents |-> IF Len(agents) > MaxAudiences THEN Tail(agents) ELSE agents]

\* A word is coached once a session, and a refusal does not spend it.
Mark(t, session, denied) ==
  [session |-> session, named |-> ~denied \/ (t.session = session /\ t.named)]
Fresh(t, session, denied) == ~denied /\ ~(t.session = session /\ t.named)

\* Some clients have no channel before a tool runs (reply_envelope answers None).
Channel(event) == event.kind # "BeforeTool" \/ story.speaks

\* FAULTY: the marker is stamped whether or not the reply can be printed.
StampsUnheard(p) == "notice" \in proc[p].says
StampsMarker(p) == "notice" \in proc[p].says /\ Channel(proc[p].event)

-----------------------------------------------------------------------------
(* Processes.  A step is one file loaded and decided on, or one file saved. *)

AtRest(p) == proc[p].todo = <<>>
At(p, step) == ~AtRest(p) /\ Head(proc[p].todo) = step
Skipping(r, n) ==
  IF Len(r.todo) <= n THEN Resting ELSE [r EXCEPT !.todo = SubSeq(@, n + 1, Len(@))]
Then(r) == Skipping(r, 1)
Goes(p, r) == proc' = [proc EXCEPT ![p] = r]

Steps(lane, names) ==
  IF lane = story.lane THEN [k \in DOMAIN names |-> <<lane, names[k]>>] ELSE <<>>
MaybeFetch == Steps("fetch", <<"look", "save", "record">>)
MaybeTrim == Steps("trim", <<"look", "save">>)
MaybeSpawnCheck == Steps("check", <<"look", "save", "spawn">>)
Announce == Steps("check", <<"pending", "mark", "save">>)
Correct == <<<<"git", "correct">>, <<"git", "tally">>>>
Speak == <<<<"agent", "brief">>>> \o Correct \o <<<<"agent", "stamp">>, <<"agent", "print">>>>

Start(p, todo, event) ==
  /\ AtRest(p) /\ todo # <<>>
  /\ Goes(p, [Resting EXCEPT !.todo = todo, !.event = event])

Cut == used.cuts < MaxCuts /\ used' = [used EXCEPT !.cuts = @ + 1]
Turn == used.turns < story.turns /\ used' = [used EXCEPT !.turns = @ + 1]

\* A verb of the user's: preflight, then the trailer.
Verb(p) ==
  /\ Start(p, MaybeSpawnCheck \o MaybeFetch \o MaybeTrim \o Announce, NoEvent)
  /\ UNCHANGED <<story, files, settings, heard, since, used>>

\* A boundary leaves the main thread with nothing it was told.
Forgotten(event) ==
  IF event.kind = "SessionStart" THEN {<<event.session, Main>>} ELSE {}

\* pipeline: a client's event, once captured, is spoken to; then two lanes.
Trigger(p) ==
  /\ \E event \in story.events :
       /\ Start(p, Speak \o MaybeSpawnCheck \o MaybeTrim, event)
       /\ told' = told \ Forgotten(event)
  /\ UNCHANGED <<story, files, settings, lost, coached, hushed, since, used>>

\* A capture that fails ends the trigger before anything is said.
TriggerFails ==
  /\ Cut
  /\ \E event \in story.events :
       /\ told' = told \ Forgotten(event)
       /\ lost' = lost \union Forgotten(event)
  /\ UNCHANGED <<story, files, settings, proc, coached, hushed, since>>

\* `ff git <word>': the correction comes first, and is printed at once.
Git(p) ==
  /\ story.git
  /\ Start(p, Correct \o <<<<"agent", "print">>>> \o MaybeSpawnCheck \o MaybeTrim \o Announce,
           [NoEvent EXCEPT !.session = "local", !.word = TRUE])
  /\ UNCHANGED <<story, files, settings, heard, since, used>>

-----------------------------------------------------------------------------
(* speak: the briefing, the correction, the marker, the print.              *)

Brief(p) ==
  /\ At(p, <<"agent", "brief">>)
  /\ LET r == proc[p] IN
     Goes(p, Then(IF BriefingDue(marker, r.event)
                  THEN [r EXCEPT !.marker = BriefedAs(marker, r.event), !.says = {"notice"}]
                  ELSE r))
  /\ UNCHANGED <<story, files, settings, heard, since, used>>

\* correct: record is a load, then a save; strict answers every time, coach once.
CorrectWord(p) ==
  /\ At(p, <<"git", "correct">>)
  /\ LET r == proc[p]
         session == r.event.session
         denied == policy = "strict"
         speaks == denied \/ (policy = "coach" /\ Fresh(tally, session, denied))
     IN  IF ~r.event.word THEN Goes(p, Skipping(r, 2)) /\ UNCHANGED hushed
         ELSE /\ Goes(p, Then([r EXCEPT
                   !.tally = Mark(tally, session, denied),
                   !.says = @ \union (IF ~speaks THEN {} ELSE IF denied THEN {"refusal"} ELSE {"word"})]))
              /\ hushed' = IF policy = "observe" THEN hushed \union {session} ELSE hushed
  /\ UNCHANGED <<story, files, settings, told, lost, coached, since, used>>

SaveTally(p) ==
  /\ At(p, <<"git", "tally">>)
  /\ tally' = proc[p].tally
  /\ \* Strict refuses before git, and before any lane, is run.
     IF proc[p].event.kind = "none" /\ "refusal" \in proc[p].says
     THEN Goes(p, Resting) ELSE Goes(p, Then([proc[p] EXCEPT !.tally = Untallied]))
  /\ UNCHANGED <<story, marker, stamp, settings, heard, since, used>>

\* The marker is stamped before the print; without a channel neither happens.
StampMarker(p) ==
  /\ At(p, <<"agent", "stamp">>)
  /\ marker' = IF StampsMarker(p) THEN proc[p].marker ELSE marker
  /\ Goes(p, Then([proc[p] EXCEPT !.marker = Unbriefed,
                                !.says = IF Channel(proc[p].event) THEN @ ELSE {}]))
  /\ hushed' = IF "word" \in proc[p].says /\ ~Channel(proc[p].event)
               THEN hushed \union {proc[p].event.session} ELSE hushed
  /\ UNCHANGED <<story, tally, stamp, settings, told, lost, coached, since, used>>

Say(p) ==
  /\ At(p, <<"agent", "print">>)
  /\ LET r == proc[p] IN
     /\ told' = IF "notice" \in r.says THEN told \union {<<r.event.session, Audience(r.event)>>} ELSE told
     /\ coached' = IF "word" \in r.says THEN coached \union {r.event.session} ELSE coached
     /\ Goes(p, Then([r EXCEPT !.says = {}]))
  /\ UNCHANGED <<story, files, settings, lost, hushed, since, used>>

-----------------------------------------------------------------------------
(* The lanes.                                                               *)

StepsAfter(lane) == IF lane = "trim" THEN 1 ELSE 2

\* maybe_fetch, maybe_trim, maybe_spawn_check: one file read on the hot path.
Look(p, lane) ==
  /\ At(p, <<lane, "look">>)
  /\ LET r == proc[p]
         now == Stamped(lane, stamp[lane])
     IN  CASE ~DueByCache(stamp[lane]) -> Goes(p, Skipping(r, 1 + StepsAfter(lane)))
           [] DueByCache(stamp[lane]) /\ DueByLive(lane, stamp[lane]) = "Due" ->
                Goes(p, Then([r EXCEPT !.file = now, !.says = {"due"}]))
           [] OTHER -> Goes(p, Then([r EXCEPT !.file = now, !.says = {DueByLive(lane, stamp[lane])}]))
  /\ UNCHANGED <<story, files, settings, heard, since, used>>

\* The save of a lane: what runs after it runs only if the lane was due.
Save(p, lane) ==
  /\ At(p, <<lane, "save">>)
  /\ stamp' = [stamp EXCEPT ![lane] = proc[p].file]
  /\ since' = [since EXCEPT ![lane] =
       [run |-> IF "due" \in proc[p].says /\ lane # "check" THEN 0 ELSE @.run,
        off |-> IF "Disabled" \in proc[p].says THEN 0 ELSE @.off]]
  /\ LET r == [proc[p] EXCEPT !.says = {}] IN
     Goes(p, IF proc[p].says \intersect {"Disabled", "Fresh"} # {} THEN Skipping(r, StepsAfter(lane))
             ELSE IF lane = "fetch" THEN Then(r) ELSE Then([r EXCEPT !.file = Unstamped]))
  /\ UNCHANGED <<story, marker, tally, settings, heard, used>>

\* record: the outcome goes into the copy loaded before the wire.
Record(p) ==
  /\ At(p, <<"fetch", "record">>)
  /\ \/ /\ stamp' = [stamp EXCEPT !["fetch"] = [proc[p].file EXCEPT !.failing = FALSE]]
        /\ UNCHANGED used
     \/ /\ Cut
        /\ stamp' = [stamp EXCEPT !["fetch"] = [proc[p].file EXCEPT !.failing = TRUE]]
  /\ Goes(p, Then([proc[p] EXCEPT !.file = Unstamped]))
  /\ UNCHANGED <<story, marker, tally, settings, heard, since>>

\* spawn_detached: the child outlives its parent.  (Bound: one child at a time.)
Spawn(p) ==
  /\ At(p, <<"check", "spawn">>) /\ AtRest(Child)
  /\ proc' = [proc EXCEPT ![p] = Then(@),
                          ![Child] = [Resting EXCEPT !.todo = Steps("check", <<"refresh", "begin", "answer">>)]]
  /\ UNCHANGED <<story, files, settings, heard, since, used>>

\* refresh_cache: stamped first thing; the network's answer goes into the same copy.
Refresh ==
  /\ \/ /\ At(Child, <<"check", "refresh">>)
        /\ Goes(Child, Then([proc[Child] EXCEPT
                               !.file = [stamp["check"] EXCEPT !.age = 0, !.every = live["check"]]]))
        /\ UNCHANGED <<stamp, since, used>>
     \/ /\ At(Child, <<"check", "begin">>)
        /\ stamp' = [stamp EXCEPT !["check"] = proc[Child].file]
        /\ since' = [since EXCEPT !["check"].run = 0]
        /\ Goes(Child, Then(proc[Child]))
        /\ UNCHANGED used
     \/ /\ At(Child, <<"check", "answer">>)
        /\ \/ stamp' = [stamp EXCEPT !["check"] = [proc[Child].file EXCEPT !.latest = release]] /\ UNCHANGED used
           \/ stamp' = [stamp EXCEPT !["check"] = proc[Child].file] /\ Cut
        /\ Goes(Child, Then(proc[Child]))
        /\ UNCHANGED since
  /\ UNCHANGED <<story, marker, tally, settings, heard>>

\* pending, and the print: a newer release not yet announced, unless the setting is off
\* by now.
Pending(p) ==
  /\ At(p, <<"check", "pending">>)
  /\ Goes(p, IF /\ stamp["check"].latest > 0
                /\ stamp["check"].notified # stamp["check"].latest
                /\ live["check"] # "off"
             THEN Then(proc[p]) ELSE Resting)
  /\ UNCHANGED <<story, files, settings, heard, since, used>>

\* mark_notified: the file is loaded anew after the line is printed.
MarkNotified(p) ==
  /\ At(p, <<"check", "mark">>)
  /\ Goes(p, Then([proc[p] EXCEPT !.file = [stamp["check"] EXCEPT !.notified = stamp["check"].latest]]))
  /\ UNCHANGED <<story, files, settings, heard, since, used>>

-----------------------------------------------------------------------------
(* The user, time, and the end of a process.                                *)

\* `ff config': the setting, then sync_interval's load and save.
Config(p, lane) ==
  /\ lane = story.lane /\ Turn
  /\ Start(p, Steps(lane, <<"sync", "save">>), NoEvent)
  /\ \E every \in {"off", "short", "long"} \ {live[lane]} : live' = [live EXCEPT ![lane] = every]
  /\ UNCHANGED <<story, files, policy, release, heard, since>>
Sync(p, lane) ==
  /\ At(p, <<lane, "sync">>)
  /\ Goes(p, Then([proc[p] EXCEPT !.file = [stamp[lane] EXCEPT !.every = live[lane]]]))
  /\ UNCHANGED <<story, files, settings, heard, since, used>>

\* `ff op trim' and `ff pull' have just done the lane's work (stamp).
Manual(p, lane) ==
  /\ lane = story.lane /\ lane # "check"
  /\ Start(p, Steps(lane, <<"stamp", "save">>), NoEvent)
  /\ UNCHANGED <<story, files, settings, heard, since, used>>
ManualStamp(p, lane) ==
  /\ At(p, <<lane, "stamp">>)
  /\ since' = [since EXCEPT ![lane].run = 0]
  /\ \/ /\ Goes(p, Then([proc[p] EXCEPT !.file = [stamp[lane] EXCEPT !.age = 0, !.failing = FALSE]]))
        /\ UNCHANGED used
     \/ /\ lane = "fetch" /\ Cut
        /\ Goes(p, Then([proc[p] EXCEPT !.file = [stamp[lane] EXCEPT !.age = 0, !.failing = TRUE]]))
  /\ UNCHANGED <<story, files, settings, heard>>

Policy ==
  /\ story.git /\ Turn
  /\ policy' \in Policies \ {policy}
  /\ UNCHANGED <<story, files, live, release, proc, heard, since>>
Released ==
  /\ story.lane = "check" /\ Turn
  /\ release' = release + 1
  /\ UNCHANGED <<story, files, live, policy, proc, heard, since>>

Aged(age) == IF age < Oldest THEN age + 1 ELSE age
Tick ==
  /\ stamp' = [l \in Lanes |-> [stamp[l] EXCEPT !.age = Aged(@)]]
  /\ since' = [l \in Lanes |-> [run |-> Aged(since[l].run), off |-> Aged(since[l].off)]]
  /\ proc' = [p \in DOMAIN proc |-> [proc[p] EXCEPT !.file.age = IF AtRest(p) THEN @ ELSE Aged(@)]]
  /\ UNCHANGED <<story, marker, tally, settings, heard, used>>

\* A process is killed: what it had stamped or tallied and not printed is never said.
Killed(p) ==
  /\ ~AtRest(p) /\ Cut
  /\ LET r == proc[p] IN
     /\ lost' = IF "notice" \in r.says \/ (At(p, <<"agent", "brief">>) /\ r.event.kind = "SessionStart")
                THEN lost \union {<<r.event.session, Audience(r.event)>>} ELSE lost
     /\ hushed' = IF "word" \in r.says THEN hushed \union {r.event.session} ELSE hushed
  /\ Goes(p, Resting)
  /\ UNCHANGED <<story, files, settings, told, coached, since>>

AmbientInit ==
  /\ story \in AmbientStories
  /\ marker = Unbriefed /\ tally = Untallied
  /\ stamp = [l \in Lanes |-> Unstamped]
  /\ \E every \in {"off", "short", "long"} :
       live = [l \in Lanes |-> IF l = story.lane THEN every ELSE "short"]
  /\ policy \in IF story.git THEN Policies ELSE {"coach"}
  /\ release = 0
  /\ proc = [p \in Procs \union {Child} |-> Resting]
  /\ told = {} /\ lost = {} /\ coached = {} /\ hushed = {}
  /\ since = [l \in Lanes |-> [run |-> Oldest, off |-> Oldest]]
  /\ used = [turns |-> 0, cuts |-> 0]

\* A process in flight takes its next step.
Step(p) ==
  \/ Brief(p) \/ CorrectWord(p) \/ SaveTally(p) \/ StampMarker(p) \/ Say(p)
  \/ \E lane \in Lanes : Look(p, lane) \/ Save(p, lane) \/ Sync(p, lane) \/ ManualStamp(p, lane)
  \/ Record(p) \/ Spawn(p) \/ Pending(p) \/ MarkNotified(p)

AmbientNext ==
  \/ \E p \in Procs : Verb(p) \/ Trigger(p) \/ Git(p) \/ Step(p)
                      \/ \E lane \in Lanes : Config(p, lane) \/ Manual(p, lane)
  \/ \E p \in Procs \union {Child} : Killed(p)
  \/ TriggerFails \/ Refresh \/ Policy \/ Released \/ Tick

\* A process runs on once started, time passes, and the user goes on running verbs.
Fairness ==
  /\ \A p \in Procs : WF_ambientVars(Step(p) \/ Verb(p))
  /\ WF_ambientVars(Refresh) /\ WF_ambientVars(Tick)
AmbientSpec == AmbientInit /\ [][AmbientNext]_ambientVars /\ Fairness

-----------------------------------------------------------------------------
(* A briefing is never lost to the marker: an event that stays silent is of an audience
   that was told since its context began, or is being told by another process, one that
   has a channel for its reply, unless that process was killed or its capture failed -
   whichever triggers of whichever sessions and clients interleave, and whether or not
   the client has a channel for the event (runtime.rs: "a marker stamped against a reply
   that never printed would lose that repository's briefing permanently").             *)
Telling(r) ==
  \/ "notice" \in r.says /\ Channel(r.event)
  \/ r.todo # <<>> /\ Head(r.todo) = <<"agent", "brief">> /\ r.event.kind = "SessionStart"
BeingTold ==
  {<<proc[q].event.session, Audience(proc[q].event)>> : q \in {r \in Procs : Telling(proc[r])}}
Silent(p) ==
  At(p, <<"agent", "brief">>) /\ Briefs(proc[p].event) /\ ~BriefingDue(marker, proc[p].event)
SilentWasTold ==
  [][\A p \in Procs : Silent(p) /\ Brief(p) =>
       LET audience == <<proc[p].event.session, Audience(proc[p].event)>>
       IN  audience \in told \union lost \union BeingTold']_ambientVars

(* A word's one slot is spent on a coach: a session whose tally has it as named heard it,
   is about to, or could not (a tier that says nothing, a client without a channel, a
   process killed).  A refusal under strict leaves it for the day the tier is coach
   (gitpolicy.rs mark: "so it never spends the word's one coaching slot").              *)
SpentIsSaid ==
  tally.named =>
    \/ tally.session \in coached \union hushed
    \/ \E p \in Procs : proc[p].event.session = tally.session /\ "word" \in proc[p].says

(* What is marked as said was said, is about to be, or could not be: no marker and no
   slot is spent in silence.                                                            *)
NothingSpentUnsaid == []SpentIsSaid /\ SilentWasTold

(* A stamp is never younger than the lane's last start or its last look at a setting that
   was off, whoever saves over whom: a lost update makes a lane run early, never late.  *)
StampIsHonest ==
  \A l \in Lanes : stamp[l].age >= since[l].run \/ stamp[l].age >= since[l].off

(* A lane never falls silent: as long as commands are run and time passes it runs again and
   again, unless its setting ends up off; turning it back on is noticed without deleting a
   stamp by hand (cadence.rs stale_after_with), and a stale save by another process, a
   failed fetch or a child that is killed does not starve it.                           *)
Ran == story.lane \in Lanes => since[story.lane].run = 0
TurnedOff == story.lane \in Lanes /\ live[story.lane] = "off"
LaneKeepsRunning == []<>Ran \/ <>[]TurnedOff
=============================================================================
