------------------------------- MODULE Hooks -------------------------------
(* `ff hook`, `ff unhook`, `ff hook -u` and the repairs of `ff doctor --fix`:
   how fufu writes itself into, and out of, the files of its clients
   (crates/ff-cli/src/integ).  Each client has a disk of its own: the files
   fufu owns (a plugin's manifest, hooks and skill), and the files it shares
   with the user and with other tools (a settings file, a marketplace, a
   registration, an rc file).  A verb is a queue of slugs, and a slug a
   sequence of writes; a process may be killed before any of them, and a
   write that is not a rename may be killed half done.

   The events a client can run fufu for are three: "tool" and "turn", which
   capture depends on (Need::Required), and "more", which stands for the
   events that only widen it (Need::Extra).                                 *)
EXTENDS Naturals, FiniteSets, Sequences, SequencesExt, FiniteSetsExt

CONSTANTS
  Stories,     \* the machines the run looks at: a function from some slugs to their disks
  CodexAnswers,\* what `codex plugin add` may do: a subset of {"added", "failed"}; a Codex not
               \* on the PATH is a failed add
  None, Bad, Torn, \* a file that is not there, that its reader refuses, that is cut short
  MaxVerbs,    \* bound: the verbs run
  MaxEdits,    \* bound: what the user, tower or an upgrade of fufu changes between verbs
  MaxKills     \* bound: the verbs killed

ASSUME AnswersAssumption == CodexAnswers \subseteq {"added", "failed"}

VARIABLES
  disk,    \* slug -> its files
  loaded,  \* the events the Claude Code now running took from the plugin when it started
  verb,    \* the verb running ("hook", "settings", "unhook", "update", "fix"), or None
  queue,   \* the slugs it has yet to reach; the head is being written
  steps,   \* the writes left of the head
  memo,    \* what a Copilot removal read before its writes: the marketplace's name, and whether it stays
  from,    \* the head's disk when the verb reached it
  answer,  \* what the head's `codex plugin add` came to: "added", "failed", "skipped", or None
  done,    \* what the last step finished: [slug, verb, fate, from, answer], or NoneDone
  spent    \* the bounds used: [verbs, edits, kills]

vars == <<disk, loaded, verb, queue, steps, memo, from, answer, done, spent>>

Events == {"tool", "turn", "more"}
Required == {"tool", "turn"}
Shells == {"bash", "zsh"}
\* integ::all(): the order statuses and `--all` take the slugs in.
All == <<"claude", "codex", "qwen", "opencode", "copilot", "cursor", "bash", "zsh">>
Verbs == {"hook", "settings", "unhook", "update", "fix"}

-----------------------------------------------------------------------------
(* The files.  Torn is a file a killed write left short.                  *)

\* The commands of a settings file are "now", fufu's own, "old", a spelling it has
\* retired, and "mine", the user's.
Hookless == [e \in Events |-> {}]
Whole == [e \in Events |-> "now"]

(* A disk is a record of files:
     settings   None, Bad (not what the schema says), or event -> the entries under
                it, each the set of its commands
     manifest, hooks, skill   the plugin: None, Torn; a hooks file is event -> None,
                "legacy" (retired spelling), "dead" (a path the binary has left) or "now";
                a skill is "older" when another fufu wrote it
     relics     what earlier fufus left: the "mcp" registration, a "skill"; "mine" is
                the user's own entry in the same file
     market     None, Bad, or its name ("own": fufu created it) and its plugins
     registry   Copilot's settings, Bad or the selectors and marketplaces it names
     cache      the hooks Codex copied when it added the plugin
     script     OpenCode's fufu.js: "older" and "dead" carry fufu's header, "theirs" not
     rc         a shell's lines: how each is marked, and what it says                  *)
Bare == [settings |-> None, manifest |-> None, hooks |-> None, skill |-> None,
         relics |-> {}, market |-> None, registry |-> [enabled |-> {}, known |-> {}],
         cache |-> None, script |-> None, rc |-> <<>>]

\* What a disk may hold: a file of a client is on the disk of that client alone, and
\* a line fufu marks is one it writes.
Commands == {"now", "old", "mine"}
SettingsFiles == [Events -> SUBSET SUBSET Commands]
HooksFiles == [Events -> {None, "legacy", "dead", "now"}]
Markets == [name : {"own", "tower"}, plugins : SUBSET {"fufu", "tower"}]
Registries == [enabled : SUBSET {"own", "tower"}, known : SUBSET {"own", "tower"}]
PlainLines == [mark : {"no"}, says : {"alias", "trigger", "oldtrigger", "function", "calls", "other"}]
Says(s) == IF s = "zsh" THEN {"alias", "function", "calls"} ELSE {"alias", "trigger", "oldtrigger"}
Lines(s) == PlainLines \union [mark : {"old", "now"}, says : Says(s)]
For(s, slugs, files, otherwise) == IF s \in slugs THEN files ELSE {otherwise}
Plugins == {"claude", "codex", "cursor", "copilot"}
Disks(s) ==
  [settings : For(s, {"claude", "codex", "cursor", "qwen"}, {None, Bad} \union SettingsFiles, None),
   manifest : For(s, Plugins, {None, Torn, "ours"}, None),
   hooks : For(s, Plugins, {None, Torn} \union HooksFiles, None),
   skill : For(s, Plugins \union {"opencode"}, {None, "ours", "older"}, None),
   relics : SUBSET (IF s = "claude" THEN {"mcp", "skill"} ELSE {"mcp", "skill", "mine"}),
   market : For(s, {"codex", "copilot"}, {None, Bad} \union Markets, None),
   registry : For(s, {"copilot"}, {Bad} \union Registries, Bare.registry),
   cache : For(s, {"codex"}, {None} \union HooksFiles, None),
   script : For(s, {"opencode"}, {None, Torn, "ours", "older", "dead", "theirs"}, None),
   rc : For(s, Shells, Seq(Lines(s)), <<>>)]

Texts == Verbs \union ToSet(All) \union {"ours", "older", "dead", "theirs", "legacy", "now"}
ASSUME FilesAssumption ==
  /\ None # Bad /\ None # Torn /\ Bad # Torn
  /\ \A x \in {None, Bad, Torn} :
       x \notin Texts /\ x \notin SettingsFiles /\ x \notin HooksFiles /\ x \notin Markets /\ x \notin Registries

ASSUME StoriesAssumption ==
  \A story \in Stories :
    /\ story = [s \in DOMAIN story |-> story[s]]
    /\ DOMAIN story \subseteq ToSet(All)
    /\ \A s \in DOMAIN story : story[s] \in Disks(s)

NoneDone == [slug |-> None, verb |-> None, fate |-> None, from |-> Bare, answer |-> None]

\* The members of a list that are in a set, in their order.
Only(list, set) ==
  LET upTo[i \in 0..Len(list)] ==
        IF i = 0 THEN <<>>
        ELSE IF list[i] \in set THEN Append(upTo[i - 1], list[i]) ELSE upTo[i - 1]
  IN  upTo[Len(list)]

-----------------------------------------------------------------------------
(* settings.rs: the merge engine of the files fufu does not own.            *)

\* Only Claude's adapter has ever had another spelling (LEGACY, OLD_LEGACY).
OursIn(s) == IF s = "claude" THEN {"now", "old"} ELSE {"now"}
\* Cursor's old file knew two events, the others' files the whole table.
TableOf(s) == IF s = "cursor" THEN Required ELSE Events
EntryIsOurs(s, entry) == entry \intersect OursIn(s) # {}
Readable(file) == file \notin {None, Bad}
WiredEvents(s, file) ==
  {e \in TableOf(s) : Readable(file) /\ \E entry \in file[e] : EntryIsOurs(s, entry)}

SettingsWiring(s, file) ==
  IF file = Bad THEN "unavailable"
  ELSE IF WiredEvents(s, file) = {} THEN "no"
  ELSE IF Required \subseteq WiredEvents(s, file) THEN "wired" ELSE "partial"

SettingsStale(s, file) ==
  /\ Readable(file)
  /\ \/ WiredEvents(s, file) # {} /\ ~(TableOf(s) \ Required \subseteq WiredEvents(s, file))
     \/ s = "claude" /\ \E e \in TableOf(s) : \E entry \in file[e] : "old" \in entry

Upgrade(s, entry) ==
  IF s = "claude" /\ "old" \in entry THEN (entry \ {"old"}) \union {"now"} ELSE entry

\* FAULTY: a retired entry counts as ours and stays as it is.
InstallKeepsOld(s, file) ==
  LET before == IF file = None THEN Hookless ELSE file
  IN  [e \in Events |->
        IF e \notin TableOf(s) \/ \E entry \in before[e] : EntryIsOurs(s, entry) THEN before[e]
        ELSE before[e] \union {{"now"}}]

\* Upgrade first, so a retired entry is rewritten and not joined by a second.
SettingsInstall(s, file) ==
  LET before == IF file = None THEN Hookless ELSE file
  IN  [e \in Events |->
        IF e \notin TableOf(s) THEN before[e]
        ELSE LET risen == {Upgrade(s, entry) : entry \in before[e]}
             IN  IF \E entry \in risen : EntryIsOurs(s, entry) THEN risen
                 ELSE risen \union {{"now"}}]

\* Ours leave the entries; an entry that leaves empty goes with them.
WithoutOurs(s, file) ==
  [e \in Events |->
    IF e \notin TableOf(s) THEN file[e]
    ELSE {entry \ OursIn(s) : entry \in file[e]} \ {{}}]
SettingsUninstall(s, file) == IF Readable(file) THEN WithoutOurs(s, file) ELSE file

-----------------------------------------------------------------------------
(* The plugin readings: plugin.rs for Claude and Codex, and Cursor's and
   Copilot's own, each as its client reads the plugin.                      *)

Carries(hooks) == {e \in Events : hooks \notin {None, Torn} /\ hooks[e] # None}
\* The plugin's directory: Claude's held what earlier fufus wrote, too.
Stands(s, d) == \/ d.manifest # None \/ d.hooks # None \/ d.skill # None
                \/ s = "claude" /\ d.relics # {}
Lists(d) == d.market \notin {None, Bad} /\ "fufu" \in d.market.plugins
MarketName(d) == IF d.market \in {None, Bad} THEN "own" ELSE d.market.name
Mentions(d, name) == name \in d.registry.enabled
Registered(d, name) == name \in d.registry.enabled /\ name \in d.registry.known

NestedWiring(d) ==
  IF d.hooks = None THEN "no" ELSE IF d.hooks = Torn THEN "unavailable"
  ELSE IF Carries(d.hooks) = {} THEN "no"
  ELSE IF Required \subseteq Carries(d.hooks) THEN "wired" ELSE "partial"

FlatWiring(d) ==
  IF ~Stands("cursor", d) THEN "no"
  ELSE IF (d.manifest = Torn \/ d.hooks = Torn) THEN "unavailable"
  ELSE IF d.manifest = "ours" /\ Required \subseteq Carries(d.hooks) THEN "wired" ELSE "partial"

CopilotWiring(d) ==
  IF d.registry = Bad THEN "unavailable"
  ELSE IF ~Stands("copilot", d) /\ ~Lists(d) /\ ~Mentions(d, MarketName(d)) THEN "no"
  ELSE IF (d.manifest = Torn \/ d.hooks = Torn) \/ d.market = Bad THEN "unavailable"
  ELSE IF /\ d.manifest = "ours" /\ Lists(d) /\ Registered(d, MarketName(d))
          /\ Required \subseteq Carries(d.hooks) THEN "wired" ELSE "partial"

ScriptWiring(d) ==
  IF d.script \in {"ours", "older", "dead"} THEN "wired" ELSE IF d.script = None THEN "no" ELSE "hand"

PluginWiring(s, d) ==
  CASE s \in {"claude", "codex"} -> NestedWiring(d)
    [] s = "cursor" -> FlatWiring(d)
    [] s = "copilot" -> CopilotWiring(d)
    [] s = "opencode" -> ScriptWiring(d)
    [] OTHER -> "no"

PluginStale(s, d) ==
  \/ /\ s \in {"claude", "codex", "cursor", "copilot"}
     /\ Carries(d.hooks) # {}
     /\ \/ "more" \notin Carries(d.hooks)
        \/ s = "claude" /\ \E e \in Carries(d.hooks) : d.hooks[e] = "legacy"
  \/ s = "opencode" /\ d.script \in {"older", "dead"}

-----------------------------------------------------------------------------
(* shell.rs: marked lines of an rc file.                                    *)

RcLines(d) == ToSet(d.rc)
Marked(line) == line.mark # "no"
Unmarked(rc) == Only(rc, PlainLines)
NamesTrigger(line) == line.says \in {"trigger", "oldtrigger", "function"}
AliasWiring(lines) ==
  IF \E l \in lines : Marked(l) /\ l.says = "alias" THEN "wired"
  ELSE IF \E l \in lines : l.says = "alias" THEN "hand" ELSE "no"
AmbientWiring(lines) ==
  IF \E l \in lines : Marked(l) /\ (NamesTrigger(l) \/ l.says = "calls") THEN "wired"
  ELSE IF \E l \in lines : ~Marked(l) /\ NamesTrigger(l) THEN "hand" ELSE "no"

Combine(alias, ambient) ==
  IF alias = "wired" /\ ambient = "wired" THEN "wired"
  ELSE IF "wired" \in {alias, ambient} THEN "partial"
  ELSE IF "hand" \in {alias, ambient} THEN "hand" ELSE "no"

Outdated(line) == Marked(line) /\ (line.mark = "old" \/ line.says = "oldtrigger")
UpgradeLine(line) ==
  IF Marked(line)
  THEN [mark |-> "now", says |-> IF line.says = "oldtrigger" THEN "trigger" ELSE line.says]
  ELSE line
Line(says) == [mark |-> "now", says |-> says]
AmbientLines(s) == IF s = "zsh" THEN <<Line("function"), Line("calls")>> ELSE <<Line("trigger")>>

RcInstall(s, rc) ==
  LET risen == [i \in DOMAIN rc |-> UpgradeLine(rc[i])]
  IN  risen \o (IF AliasWiring(ToSet(risen)) = "no" THEN <<Line("alias")>> ELSE <<>>)
            \o (IF AmbientWiring(ToSet(risen)) = "no" THEN AmbientLines(s) ELSE <<>>)
RcUninstall(rc) ==
  IF "wired" \in {AliasWiring(ToSet(rc)), AmbientWiring(ToSet(rc))}
  THEN Unmarked(rc) ELSE rc

-----------------------------------------------------------------------------
(* Status: what `ff hook -l`, `ff hook -u` and `ff doctor` read.            *)

Wiring(s, d) ==
  CASE s \in Shells -> Combine(AliasWiring(RcLines(d)), AmbientWiring(RcLines(d)))
    [] s = "qwen" -> SettingsWiring(s, d.settings)
    [] s \in {"claude", "cursor"} ->
         IF PluginWiring(s, d) = "no" THEN SettingsWiring(s, d.settings) ELSE PluginWiring(s, d)
    [] OTHER -> PluginWiring(s, d)

Feeds(wiring) == wiring \in {"wired", "partial"}

IsStale(s, d) ==
  CASE s \in Shells -> \E l \in RcLines(d) : Outdated(l)
    [] s = "qwen" -> SettingsStale(s, d.settings)
    [] s = "claude" -> PluginStale(s, d) \/ SettingsStale(s, d.settings)
    [] s = "cursor" -> PluginStale(s, d) \/ Feeds(SettingsWiring(s, d.settings))
    [] OTHER -> PluginStale(s, d)

\* What the client runs fufu for, in a session it starts now.
SettingsFire(s, d) == WiredEvents(s, d.settings)
PluginFires(d) ==
  {e \in Carries(d.hooks) : d.manifest = "ours" /\ d.hooks[e] # "dead"}
Fires(s, d) ==
  CASE s = "qwen" -> SettingsFire(s, d)
    [] s \in {"claude", "cursor"} -> SettingsFire(s, d) \union PluginFires(d)
    [] s = "codex" -> SettingsFire(s, d) \union
                      {e \in Events : Lists(d) /\ d.cache # None /\ d.cache[e] = "now"}
    [] s = "copilot" ->
         {e \in PluginFires(d) : d.registry # Bad /\ Lists(d) /\ Registered(d, MarketName(d))}
    [] s = "opencode" -> IF d.script \in {"ours", "older"} THEN Required ELSE {}
    [] OTHER ->
         {e \in Required :
            \/ e = "turn" /\ \E l \in RcLines(d) : l.says = "alias"
            \/ e = "tool" /\ \/ \E l \in RcLines(d) : l.says \in {"trigger", "oldtrigger"}
                             \/ \A says \in {"function", "calls"} :
                                  \E l \in RcLines(d) : l.says = says}

-----------------------------------------------------------------------------
(* The programs: install, uninstall and repair of each adapter, in the order
   of its writes.                                                           *)

WritePlugin == <<"manifest", "hooks", "skill">>

ClaudeInstall == WritePlugin \o <<"sweep", "unmcp", "verify", "strip">>
CodexInstall == WritePlugin \o <<"verify", "list", "add", "trystrip", "sweep", "unmcp">>
CursorInstall == WritePlugin \o <<"verify", "trystrip", "unmcp">>
CopilotInstall == <<"load">> \o WritePlugin \o <<"list", "register", "verify">>
OpencodeInstall == <<"script", "skill", "verify">>
Installs ==
  [claude |-> ClaudeInstall, codex |-> CodexInstall, cursor |-> CursorInstall,
   copilot |-> CopilotInstall, qwen |-> <<"wire">>, opencode |-> OpencodeInstall,
   bash |-> <<"rc">>, zsh |-> <<"rc">>]

ClaudeUninstall == <<"unplug", "strip">>
CodexUninstall == <<"unplug", "unlist">>
CursorUninstall == <<"unplug", "trystrip", "unmcp">>
CopilotUninstall == <<"load", "unlist", "unregister", "unplug">>
OpencodeUninstall == <<"unscript", "unskill">>
Uninstalls ==
  [claude |-> ClaudeUninstall, codex |-> CodexUninstall, cursor |-> CursorUninstall,
   copilot |-> CopilotUninstall, qwen |-> <<"strip">>, opencode |-> OpencodeUninstall,
   bash |-> <<"unrc">>, zsh |-> <<"unrc">>]

\* FAULTY: the old wiring goes before the new one is there.
StripsFirst(s) ==
  [Installs EXCEPT !["claude"] = <<"strip">> \o WritePlugin \o <<"sweep", "unmcp", "verify">>][s]
InstallOf(s) == Installs[s]

UninstallOf(s) == Uninstalls[s]

\* Claude's hatch: the entries first, then the plugin goes.
OnSettings == <<"wire", "unplug">>

\* Whichever mechanism Claude is on stays; every other adapter reinstalls.
RepairOf(s, d) ==
  IF s = "claude" /\ PluginWiring("claude", d) # "wired" THEN OnSettings ELSE InstallOf(s)

StepsOf(v, s, d) ==
  CASE v = "unhook" -> UninstallOf(s)
    [] v \in {"update", "fix"} -> RepairOf(s, d)
    [] v = "settings" /\ s = "claude" -> OnSettings
    [] OTHER -> InstallOf(s)

\* A step that reads what it cannot read leaves the file and fails the slug.
Refuses(s, step, d) ==
  CASE step \in {"wire", "strip"} -> d.settings = Bad
    [] step = "load" -> d.registry = Bad \/ (s = "copilot" /\ d.market = Bad /\ verb # "unhook")
    [] step \in {"list", "unlist"} -> d.market = Bad
    [] step = "verify" -> PluginWiring(s, d) # "wired" \/ (s = "opencode" /\ PluginStale(s, d))
    [] step = "script" -> PluginWiring(s, d) = "hand"
    [] OTHER -> FALSE

Market(d) == IF d.market = None THEN [name |-> "own", plugins |-> {}] ELSE d.market
\* Removal leaves the file to whoever else is listed in it; Copilot's goes when nobody is.
Unlisted(s, d) ==
  IF d.market \in {None, Bad} THEN d.market
  ELSE IF s = "copilot" /\ d.market.plugins \ {"fufu"} = {} THEN None
  ELSE [d.market EXCEPT !.plugins = @ \ {"fufu"}]
Stays(d) == d.market \notin {None, Bad} /\ d.market.plugins \ {"fufu"} # {}

\* Cursor strips its old file only when the file feeds capture.
Stripped(s, d) ==
  IF s = "cursor" /\ ~Feeds(SettingsWiring(s, d.settings)) THEN d.settings
  ELSE SettingsUninstall(s, d.settings)

\* The disk after a step that is not refused; `m` is what a removal remembers.
After(s, step, d, m) ==
  CASE step = "manifest" -> [d EXCEPT !.manifest = "ours"]
    [] step = "hooks" -> [d EXCEPT !.hooks = Whole]
    [] step = "skill" -> [d EXCEPT !.skill = "ours"]
    [] step = "sweep" -> [d EXCEPT !.relics = @ \ {"skill"}]
    [] step = "unmcp" -> [d EXCEPT !.relics = @ \ {"mcp"}]
    [] step = "wire" -> [d EXCEPT !.settings = SettingsInstall(s, @)]
    [] step \in {"strip", "trystrip"} -> [d EXCEPT !.settings = Stripped(s, d)]
    [] step = "list" -> [d EXCEPT !.market = [Market(d) EXCEPT !.plugins = @ \union {"fufu"}]]
    [] step = "unlist" -> [d EXCEPT !.market = Unlisted(s, d)]
    [] step = "add" -> [d EXCEPT !.cache = d.hooks]
    [] step = "register" ->
         [d EXCEPT !.registry = [enabled |-> @.enabled \union {MarketName(d)},
                                 known |-> @.known \union {MarketName(d)}]]
    [] step = "unregister" ->
         [d EXCEPT !.registry = [enabled |-> @.enabled \ {m.name},
                                 known |-> IF m.stays THEN @.known ELSE @.known \ {m.name}]]
    [] step = "unplug" ->
         [d EXCEPT !.manifest = None, !.hooks = None, !.skill = None,
                   !.relics = IF s = "claude" THEN {} ELSE @]
    [] step = "script" -> [d EXCEPT !.script = "ours"]
    [] step = "unscript" -> [d EXCEPT !.script = IF @ \in {"theirs", Torn} THEN @ ELSE None]
    [] step = "unskill" -> [d EXCEPT !.skill = None]
    [] step = "rc" -> [d EXCEPT !.rc = RcInstall(s, @)]
    [] step = "unrc" -> [d EXCEPT !.rc = RcUninstall(@)]
    [] OTHER -> d

\* What a kill in the middle of a step may leave: nothing of it, or a file cut short
\* where the write is in place, or a directory half removed.
CutShort(s, step, d, m) ==
  LET to == IF Refuses(s, step, d) THEN d ELSE After(s, step, d, m)
      cut ==
        CASE to = d -> {}
          [] step = "manifest" -> {[d EXCEPT !.manifest = Torn]}
          [] step = "hooks" -> {[d EXCEPT !.hooks = Torn]}
          [] step = "skill" -> {[d EXCEPT !.skill = "older"]}
          [] step = "script" -> {[d EXCEPT !.script = Torn]}
          [] step \in {"rc", "unrc"} ->
               {[d EXCEPT !.rc = SubSeq(to.rc, 1, n)] : n \in 0..(Len(to.rc) - 1)}
          [] step = "unplug" ->
               {[d EXCEPT !.manifest = IF "manifest" \in gone THEN None ELSE @,
                          !.hooks = IF "hooks" \in gone THEN None ELSE @,
                          !.skill = IF "skill" \in gone THEN None ELSE @] :
                  gone \in SUBSET {"manifest", "hooks", "skill"}}
          [] OTHER -> {}
  IN  {d} \union cut

-----------------------------------------------------------------------------
(* The verbs.                                                               *)

Idle == verb = None
InOrder(slugs) == Only(All, slugs)

\* act() takes up a target: its program is chosen from the disk it finds.
TakeUp(v, targets, files) ==
  /\ queue' = targets
  /\ verb' = IF targets = <<>> THEN None ELSE v
  /\ steps' = IF targets = <<>> THEN <<>> ELSE StepsOf(v, Head(targets), files[Head(targets)])
  /\ from' = IF targets = <<>> THEN Bare ELSE files[Head(targets)]
  /\ memo' = [name |-> "own", stays |-> FALSE]
  /\ answer' = None

\* `ff doctor --fix`: the clients whose wiring is partial or stale, the shells whose
\* lines are, then the first client whose skill another fufu wrote.
Fixable(s) ==
  \/ s \in Shells /\ IsStale(s, disk[s])
  \/ s \notin Shells /\ Wiring(s, disk[s]) = "partial"
  \/ s \notin Shells /\ Wiring(s, disk[s]) = "wired" /\ IsStale(s, disk[s])
Drifted == InOrder({s \in DOMAIN disk : disk[s].skill = "older"})

Targets(v) ==
  CASE v = "update" -> {InOrder({s \in DOMAIN disk : Feeds(Wiring(s, disk[s]))})}
    [] v = "fix" -> {InOrder({s \in DOMAIN disk : Fixable(s)})
                       \o (IF Drifted = <<>> THEN <<>> ELSE <<Head(Drifted)>>)}
    [] OTHER -> {<<s>> : s \in DOMAIN disk} \union {InOrder(DOMAIN disk)}

Run(v) ==
  /\ Idle /\ spent.verbs < MaxVerbs
  /\ \E targets \in Targets(v) : targets # <<>> /\ TakeUp(v, targets, disk)
  /\ done' = NoneDone
  /\ spent' = [spent EXCEPT !.verbs = @ + 1]
  /\ UNCHANGED <<disk, loaded>>

\* A slug is finished: the verb goes on, or stops at the first failure; doctor goes on.
Finish(fate, said, files) ==
  /\ done' = [slug |-> Head(queue), verb |-> verb, fate |-> fate, from |-> from, answer |-> said]
  /\ TakeUp(verb, IF fate = "failed" /\ verb # "fix" THEN <<>> ELSE Tail(queue), files)

\* Nothing the verb had to write for Codex was missing, and Codex lists the plugin.
Unmoved(d) ==
  /\ d.manifest = from.manifest /\ d.hooks = from.hooks
  /\ d.skill = from.skill /\ d.market = from.market
Answers(step, d) ==
  IF step # "add" THEN {"added"}
  ELSE IF Unmoved(d) /\ d.cache # None THEN (CodexAnswers \ {"added"}) \union {"skipped"}
  ELSE CodexAnswers

\* One write of the slug at hand.
Write ==
  /\ ~Idle
  /\ LET s == Head(queue)
         d == disk[s]
         step == Head(steps)
     IN  IF Refuses(s, step, d)
         THEN Finish("failed", answer, disk) /\ UNCHANGED disk
         ELSE \E a \in Answers(step, d) :
                LET files == [disk EXCEPT ![s] =
                                IF a = "added" THEN After(s, step, d, memo) ELSE d]
                    said == IF step = "add" THEN a ELSE answer
                IN  /\ disk' = files
                    /\ IF Len(steps) = 1 THEN Finish("ok", said, files)
                       ELSE /\ steps' = Tail(steps)
                            /\ memo' = CASE step = "load" -> [memo EXCEPT !.name = MarketName(d)]
                                         [] step = "unlist" -> [memo EXCEPT !.stays = Stays(d)]
                                         [] OTHER -> memo
                            /\ answer' = said
                            /\ done' = NoneDone
                            /\ UNCHANGED <<verb, queue, from>>
  /\ UNCHANGED <<loaded, spent>>

\* The process dies before a write or in the middle of it.
Kill ==
  /\ ~Idle /\ spent.kills < MaxKills
  /\ \E d \in CutShort(Head(queue), Head(steps), disk[Head(queue)], memo) :
       disk' = [disk EXCEPT ![Head(queue)] = d]
  /\ TakeUp(None, <<>>, disk)
  /\ done' = NoneDone
  /\ spent' = [spent EXCEPT !.kills = @ + 1]
  /\ UNCHANGED loaded

-----------------------------------------------------------------------------
(* Between the verbs: the user, tower, Codex, an upgrade or a move of fufu.  *)

Mine(file) ==
  LET f == IF file = None THEN Hookless ELSE file
  IN  {[f EXCEPT !["tool"] = @ \union {{"mine"}}]} \union
      {[f EXCEPT !["tool"] = (@ \ {entry}) \union {entry \union {"mine"}}] : entry \in f["tool"]}
Tower(market) ==
  IF market = None THEN {[name |-> "tower", plugins |-> {"tower"}]}
  ELSE {[market EXCEPT !.plugins = IF "tower" \in @ THEN @ \ {"tower"} ELSE @ \union {"tower"}]}
Age(d) == [d EXCEPT !.skill = IF @ = "ours" THEN "older" ELSE @,
                    !.script = IF @ = "ours" THEN "older" ELSE @]
Move(d) == [d EXCEPT !.hooks = IF @ \in {None, Torn} THEN @
                               ELSE [e \in Events |-> IF @[e] = None THEN None ELSE "dead"],
                     !.cache = IF @ = None THEN @
                               ELSE [e \in Events |-> IF @[e] = None THEN None ELSE "dead"],
                     !.script = IF @ \in {"ours", "older"} THEN "dead" ELSE @]
WithoutOne(rc) == {SubSeq(rc, 1, i - 1) \o SubSeq(rc, i + 1, Len(rc)) : i \in 1..Len(rc)}
ByHand(says) == [mark |-> "no", says |-> says]

Edits(s, d) ==
  {Age(d), Move(d)}
  \union (IF s \in {"claude", "qwen"} \/ d.settings # None
          THEN IF d.settings = Bad THEN {[d EXCEPT !.settings = None]}
               ELSE {[d EXCEPT !.settings = Bad]}
                      \union {[d EXCEPT !.settings = f] : f \in Mine(d.settings)}
          ELSE {})
  \union (IF s \in {"copilot", "codex"} /\ d.market # Bad
          THEN {[d EXCEPT !.market = m] : m \in Tower(d.market)} ELSE {})
  \union (IF s = "codex" /\ ~Lists(d) THEN {[d EXCEPT !.cache = None]} ELSE {})
  \union (IF s \in Shells
          THEN {[d EXCEPT !.rc = rc] :
                  rc \in WithoutOne(d.rc) \union {Append(d.rc, ByHand("alias")),
                                                  Append(d.rc, ByHand("other"))}} ELSE {})

Outside ==
  /\ Idle /\ spent.edits < MaxEdits
  /\ \E s \in DOMAIN disk : \E d \in Edits(s, disk[s]) \ {disk[s]} :
       disk' = [disk EXCEPT ![s] = d]
  /\ done' = NoneDone
  /\ spent' = [spent EXCEPT !.edits = @ + 1]
  /\ UNCHANGED <<loaded, verb, queue, steps, memo, from, answer>>

\* Claude Code starts anew, and takes the plugin as it stands.
Restart ==
  /\ "claude" \in DOMAIN disk /\ loaded # PluginFires(disk["claude"])
  /\ loaded' = PluginFires(disk["claude"])
  /\ done' = NoneDone
  /\ UNCHANGED <<disk, verb, queue, steps, memo, from, answer, spent>>

Init ==
  /\ disk \in Stories
  /\ loaded = IF "claude" \in DOMAIN disk THEN PluginFires(disk["claude"]) ELSE {}
  /\ verb = None /\ queue = <<>> /\ steps = <<>> /\ from = Bare /\ answer = None
  /\ memo = [name |-> "own", stays |-> FALSE]
  /\ done = NoneDone
  /\ spent = [verbs |-> 0, edits |-> 0, kills |-> 0]

Next ==
  \/ \E v \in Verbs : Run(v)
  \/ Write \/ Kill \/ Outside \/ Restart

Spec == Init /\ [][Next]_vars

-----------------------------------------------------------------------------
(* What the writes owe the machine.                                         *)

Writing(verbs) == verb \in verbs /\ spent' = spent /\ loaded' = loaded

\* Codex runs its own copy of a plugin it has added and no other: while no add that carries
\* capture has gone through, the old entries are all there is (install, codex.rs:441-454).
Added(s) ==
  s = "codex" => disk["codex"].cache # None /\ \A e \in Required : disk["codex"].cache[e] = "now"

(* Wiring a client, moving it from one mechanism to another, refreshing it and repairing
   it never cost it an event capture depends on, at any write on the way: what fufu was
   run for before the write it is run for after it.  The adapters write the new wiring,
   read it back, and take the old down last (claude.rs:293-336, codex.rs:408-460,
   cursor.rs:380-420).                                                                 *)
CaptureStays ==
  [][Writing(Verbs \ {"unhook"}) =>
       \A s \in DOMAIN disk :
         Added(s) => Fires(s, disk[s]) \intersect Required \subseteq Fires(s, disk'[s])]_vars

(* What is not fufu's survives every write, cut short or not where the write is a rename:
   the user's commands in a shared settings file, the hand-written MCP entry, tower's
   listing and marketplace, a script under fufu's name that fufu did not write, and the
   unmarked lines of an rc file.                                                        *)
Theirs(s, d) ==
  [commands |-> IF Readable(d.settings)
                THEN [e \in Events |-> {entry \ OursIn(s) : entry \in d.settings[e]} \ {{}}]
                ELSE Hookless,
   broken |-> d.settings = Bad \/ d.market = Bad \/ d.registry = Bad,
   relics |-> d.relics \intersect {"mine"},
   listed |-> d.market \notin {None, Bad} /\ "tower" \in d.market.plugins,
   script |-> d.script = "theirs",
   lines |-> Unmarked(d.rc)]
ForeignKept ==
  [][~Idle /\ spent'.kills = spent.kills =>
       \A s \in DOMAIN disk : Theirs(s, disk'[s]) = Theirs(s, disk[s])]_vars

\* Pieces a shell's user wrote by hand are respected, and keep it from reading as wired.
HandWritten(s, d) ==
  s \in Shells /\ "hand" \in {AliasWiring(RcLines(d)), AmbientWiring(RcLines(d))}
\* An rc file cut between zsh's two lines: either of them reads as the piece.
HalfAmbient(s, d) ==
  s = "zsh" /\ {l.says : l \in {m \in RcLines(d) : Marked(m)}} \intersect {"function", "calls"}
                \notin {{}, {"function", "calls"}}
Refusable(s, d) == d.settings = Bad \/ d.market = Bad \/ d.registry = Bad
                   \/ d.script \in {"theirs", Torn}

\* What leaves Codex on an old copy although the verb ends: its add failed, which the
\* user is told, or was skipped because the plugin already stood as hook writes it
\* (codex.rs:334), and Codex's copy is older, an earlier hook having been killed between
\* the two or its add having failed.
CopyBehind(s) ==
  /\ s = "codex"
  /\ done.answer = "skipped" => done.from.hooks = Whole
  /\ done.answer \in {"failed", "skipped"}

(* A verb that wires a client and runs to its end leaves it wired, with whatever an older
   fufu, the user, tower or a killed verb left on the disk: the wiring reads whole, nothing
   is stale, the skill is this fufu's, the client runs fufu for every required event, and
   through one mechanism; or the verb refuses because of a file it does not rewrite.  Three
   disks a killed hook leaves are NOT put right, and no more than these: a plugin Codex's
   copy is behind (CopyBehind), OpenCode's script cut short, which reads as the user's and
   is refused (Torn, in Refusable), and an rc file cut between zsh's two lines, of which
   either reads as the piece (HalfAmbient).  A shell whose user wrote a piece by hand stays
   as it is (HandWritten).                                                               *)
HookEndsWhole ==
  done.verb \in Verbs \ {"unhook"} =>
    LET s == done.slug
        d == disk[s]
    IN  IF done.fate = "failed" THEN Refusable(s, done.from)
        ELSE HandWritten(s, done.from) \/ HalfAmbient(s, done.from) \/
             /\ Wiring(s, d) = "wired" /\ ~IsStale(s, d)
             /\ s \in {"claude", "codex", "cursor", "copilot", "opencode"}
                  /\ PluginWiring(s, d) = "wired" => d.skill = "ours"
             /\ CopyBehind(s) \/ Required \subseteq Fires(s, d)
             /\ s \in {"claude", "cursor", "codex"} /\ PluginWiring(s, d) = "wired"
                  => d.settings = Bad \/ WiredEvents(s, d.settings) = {}

(* Unhook takes back what hook ever added, whichever mechanism and whichever fufu added
   it, and takes it back again after an unhook that was killed: Copilot's under the name
   the marketplace file has by then, Codex's old entries never, and not a script of
   OpenCode's that a killed hook cut short, which reads as the user's (README).          *)
OursLeft(s, d, name) ==
  \/ d.manifest # None \/ d.hooks # None \/ d.skill # None
  \/ s # "codex" /\ WiredEvents(s, d.settings) # {}
  \/ s \in {"claude", "cursor"} /\ "mcp" \in d.relics
  \/ Lists(d)
  \/ d.registry # Bad /\ Mentions(d, name)
  \/ d.script \in {"ours", "older", "dead"}
  \/ \E l \in RcLines(d) : Marked(l)
UnhookTakesAll ==
  done.verb = "unhook" /\ done.fate = "ok" => 
    ~OursLeft(done.slug, disk[done.slug], MarketName(done.from))

(* A repair nobody watches never leaves the client that is running without the capture it
   has: it reads its settings as it goes, and a plugin only when it starts (claude.rs
   353-362).  Not after a move cut short before its last write, which left both.         *)
Running(d) == SettingsFire("claude", d) \union loaded
RepairNeverDarkens ==
  [][Writing({"update", "fix"}) /\ Head(queue) = "claude"
       /\ (PluginWiring("claude", from) = "wired" => Required \subseteq loaded)
     => Running(disk["claude"]) \intersect Required \subseteq Running(disk'["claude"])]_vars

(* No write costs a client the capture it has, nor the user what is not fufu's.        *)
EveryWriteKeeps == CaptureStays /\ ForeignKept /\ RepairNeverDarkens

(* Every verb that runs to its end leaves its client whole or without fufu, but for what
   HookEndsWhole and UnhookTakesAll name.                                               *)
HookConverges == HookEndsWhole /\ UnhookTakesAll
=============================================================================
