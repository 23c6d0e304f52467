# Verification of fufu

fufu (`ff`) is a version control program on top of git. What sets it apart
from a git front end is its **operation log**: every command, and every state
of the working tree a hook captures, becomes an operation on a log that lives in
ordinary git refs, and `ff undo`, `ff redo` and `ff op restore` move the whole
repository along that log. Around it stand the rewriting of stacked branches,
conflicts that are *held* instead of stopping a command, pushes and pulls that
know what was shared, and a layer that wires fufu into editors and agents.
This directory holds TLA+ models of that machinery, the TLC runs that check them
on small instances, and TLAPS proofs of what matters most.

Paths are relative to `src/crates/ff-core/src/`; `cli/` is `src/crates/ff-cli/src/`.
`PROJECT.json` maps every definition to the lines it stands for, and lists the
hazards at their lines with the properties on watch.

## 1. The system

### Components

| component | code | state it keeps | modelled in |
|---|---|---|---|
| operation log: append | `ops/append.rs`, `ops/lock.rs` | the chain `refs/fufu/wt/<id>/ops` and its reflog, the pointers `refs/fufu/snap/<branch>`, the lock file | `OpLog`, `AppendLog` |
| verbs and reconcile | `ops/verb.rs`, `ops/record.rs` | the refs table in each operation | `Rewind`, `Worktrees`, `Sessions`, `Names` |
| undo, redo, restore | `undo.rs`, `worktree.rs` | the reflog of the chain (the redo stack) | `Rewind`, `UndoStack`, `Worktrees`, `Sessions`, `Names` |
| retention | `trim.rs` | `refs/fufu/wt/<id>/trash/@ops` | `Worktrees`, `Readers` |
| linked worktrees | `linked.rs`, `linked/` | which worktree stands on which branch, its directory | `Worktrees` |
| id index, watch stream | `ops/index.rs`, `watch.rs` | the index file; what a subscriber has seen | `Readers` |
| push and leases | `push.rs`, `seen.rs`, `published.rs`, `cli/net.rs` | `refs/fufu/seen`, `refs/fufu/published` | `SharedCopy` |
| pull | `pull.rs`, `overlay.rs`, `accounted.rs` | the tracking refs | `SharedCopy` (one branch, step by step), `Lineup` (a stack) |
| replay and conflicts | `rewrite/` | none | `Rewrite` |
| cascade, restack, fold, prune | `cascade.rs`, `restack.rs`, `fold.rs`, `prune.rs` | the parent of a branch | `Stack` |
| holds and resolution | `held.rs`, `resolve.rs`, `done.rs`, `merge.rs` | hold and session records | `Resolution` (the content), `Sessions` (the records) |
| edit, absorb, describe | `edit.rs`, `absorb.rs`, `describe.rs` | session branches | `Sessions`, `Resolution`, `Stack` |
| switch, park, open | `switch.rs`, `park.rs`, `open.rs` | `refs/fufu/open`, parked work | `Sessions`, `Names` |
| branches and metadata | `branch.rs`, `branchmeta.rs`, `close.rs` | metadata files, upstream configuration, change ids | `Names` |
| revsets | `revset/` | none | `Revset` |
| client wiring | `cli/integ/` | settings, plugins and rc files of eight clients | `Hooks` |
| lanes, briefing, raw git | `cli/lanes.rs`, `cli/autofetch.rs`, `cli/selfupdate/notify.rs`, `cli/integ/runtime.rs`, `cli/gitpolicy.rs` | small stamp, marker and tally files | `Ambient` |
| stash; views; command line; rendering, help, installer; signing | `stash.rs`, `model.rs`, `sign/`, `cli/` | | not modelled (section 7) |

### How they interact

A verb (`begin_verb`) opens with a **preamble**: `reconcile` compares the refs
with the table of the newest operation and records any difference, which git
must have made, as a *foreign* operation; then the working tree is captured.
The verb plans, appends its own operation with the table it is about to bring
about (**write-ahead**), and only then moves refs, metadata, HEAD and files, one
write at a time. A hook's capture appends without reconciling and repeats the
table of the operation before it. All append through `commit_op`, under the lock
of the worktree's chain; the branch pointers are shared by all worktrees. Undo
and retention take the same lock, and no lock covers the repository: git,
editors and other worktrees act at any time, and readers (the index, the stream)
take no lock at all.

A rewrite of a branch **cascades** to the branches on it. What conflicts is **held**:
recorded on the branch and left for `ff resolve`, which mints a session branch,
shows a tree with marks, and on `ff done` attributes what was typed to the steps of
a re-run of the rewrite. Push and pull add the **shared copy**: the tracking ref,
which any fetch moves; its reflog; `seen`, where a verb last showed it standing;
`published`, where a push last left it.

### What is hard

Refs are compare-and-swap but read before they are locked (`ops/lock.rs:8`); a move is
eight writes in five places (`undo.rs:252`); the redo stack is read off a reflog
(`undo.rs:912`); one pointer per branch is moved by several logs (`undo.rs:993`);
retention rebuilds refs one at a time (`trim.rs:398`) under readers without a lock
(`watch.rs:224`, `ops/index.rs:266`); a session is files in two places (`held.rs:661`)
and is answered while its base moves (`done.rs:222`); a dry run decides what another
implementation then writes (`rewrite/chain.rs:642`); which commits are a branch's own
is read off reflogs that undo and folds have written in (`restack.rs:238`); what is kept
under a name outlives the branch (`open.rs:271`); a hook is several files written in
place (`cli/integ/plugin.rs:145`); and stamps are loaded and saved whole by every process
(`cli/cadence.rs:64`).

### What makes each component correct

* Append: no append is lost; pointer, table and verb link agree with the chain; every
  call answers.
* Undo and redo: a move lands whole; redo is a stack; pointers follow the log;
  what undo leaves is what the verb read.
* Worktrees: no worktree opens a branch another stands on; no worktree moves another's branch; a removed
  worktree's work comes back.
* Retention, index, stream: what a pass rewrites is in the log or the trash at every step;
  readers answer with the log that is there, or say that they cannot.
* Rewriting: dry run and replay agree; no content and no change is dropped, none doubled;
  what lands is what the reader left, and carries no marks; a pull settles.
* Sessions and names: both halves of a record agree; there is always a door out; a branch
  keeps what is its own, and inherits nothing.
* Push and pull: nothing leaves the copy that was neither ours nor shown to us; nothing
  undone comes back.
* Revsets: every plan yields the set the expression denotes.
* Wiring and lanes: a verb ends whole, touches nothing foreign and never costs a
  client its capture; no lane falls silent, nothing is spent unsaid.

## 2. Modules

Each module's header says what it abstracts. Verbs that another module has in steps are one
step: `OpLog` has the steps of an append, `Rewind` those of a move, `Sessions` and `Names`
those of a verb's writes, `SharedCopy` those of a push and a pull.

**`OpLog`, `AppendLog`, `MCOpLog`, `LogProofs`.** One append, step by step, by several
processes in several worktrees.

| TLA+ | code |
|---|---|
| `opsRef`, `reflog`, `snapRef` | the chain's ref, its reflog, the branch pointers; `@detached` is a branch several worktrees share |
| `lock` | `fufu/oplog-<id>.lock`: free, held, or left behind by a killed process |
| `Plan`; `Acquire`, `GiveUp` | the caller's plan, before the lock; `acquire_chain`: a capture tries once, a verb until `VERB_WAIT` |
| `LinkOp` | the tip and pointer read under the lock, the operation written |
| `Prepare`, `Stage`, `Apply` | the ref transaction: old values are read **before** the refs are locked |
| `Retry`, `Refuse`; `Crash`, `Unstick` | the retry rule of `commit_op`; a kill, and the removal of a stale lock file |

`AppendLog` says what readers are promised: one list per worktree that only grows at its end, each entry written to the
store before a list shows it. `ImplementsAppendLog` is the refinement, with the list found by walking `fufu-prev`.

**`Walks`.** What the proofs need of lists and of walks along links that lead back: a recursive function down a numbered chain
exists, its values are lists, it stays what it was when something is added on top, what it reaches, what one walk has before it
meets another, and the least and greatest member of a set.

**`Rewind`, `UndoStack`, `MCRewind`, `RewindProofs`.** One worktree moved along its log: `StartMove`,
`MoveRefs`, `MoveHead`, `MoveTree`, `MovePointer` (undo, redo, restore; one action per write), the
close in three steps, captures by hooks, git and the editor, `Crash` between any two.
`ReadLine` is the loop of `forward_scan`, `ForwardPath` what it has read when it ends; `Only` walks down to where two
walks meet, as `split` does, and `PointersAfter` picks from the two halves by position. `UndoStack` is what undo and redo promise: one position
and a stack to go forward to; `RedoIsAStack` is the refinement.

**`Worktrees`, `MCWorktrees`, `WorktreesProofs`.** Several worktrees with a chain each; branches and
pointers shared. `Observe` and `CarryingHeld` are what `ops/record.rs` puts in a table when another
worktree holds a branch. `AddWorktree` has its write-ahead inverted as `linked/add.rs` says, and both it
and `RemoveWorktree` have variants that are killed half way; `Retired` and `Revived` are what undo and redo
do with a worktree. The guards ask what the *other* worktrees hold, as `holder_of` does: `MayStand` lets a worktree be added on the branch one stands on. Retention is split at every ref it deletes or replays.

**`SharedCopy`, `MCSharedCopy`, `SharedCopyProofs`.** One branch and its copy. A commit is a change
and a text (as first written, amended here, or elsewhere), and is named by the line under it, as a sha is.
`PushRead`, `PushPlan`, `PushSend`, `PushMark`, `PushSeen` and `PullRead`, `PullFetch`, `PullPlan`, `PullWrite`,
`PullMove`, `PullSeen` are the steps of `push.rs`/`net.rs` and `pull.rs`; `AxisHere` and `AxisThere` the remote
axis; `Fetch`, `Others`, `Crash` everybody else. git sends what the branch *is* when the wire opens, so `PushSend`
uses `tip` and the records use `push.to`, as the code does; a pull's `positions` is the reflog its plan read, which a fetch may
have pruned by the time it moves. Ghosts: `had`, the commits ever on the branch; `told`, those
a pull marked as seen without taking them in; `ownLeft`, the copy stands where a recorded push left it.

**`Rewrite`.** The rewrite engine as pure operators over commits with one region per file: `Replay` (`replay.rs`),
`Chain` (`chain.rs`, the same merges letting conflicts stand as blocks of marks), `Attribute` (which step each answer
belongs to), the ends of a move (`absorb.rs`).

**`Resolution`, `MCResolution`.** Extends `Rewrite`: one rewrite from its verdict to its landing: `Rewrites` or `Holds`, `Resolves`,
`Done` round by round, `Abandons`, and a base that moves meanwhile; the reader may answer any subset of blocks, edit outside them or leave
them. Restack, edit, move, merge and reword.

**`Sessions`, `MCSessions`.** One worktree with two branches and the sessions `ff edit` and `ff resolve` open. A verb
plans from `Begun.w` (the preamble applied), appends, then runs its list of writes, and a kill drops the rest of the list.
Content is the set of changes in a tree; whether a merge conflicts is a choice wherever both sides changed. `log` is the
operations, each with what `Undo` and `Redo` make of refs, metadata, parked work and open commits. A restack stops at its commits or at the open change (`Stops`); held at the open change, `ff resolve` lands it in place, the marks in the open change and no session (`Carry`).

**`Stack` and `Lineup`, `MCLineup`, `LineupProofs`.** `Stack` is a trunk and branches that sit on branches: commit, reword, absorb,
fold, restack with and without `--onto`, prune, holds and their resolution, undo, each with its cascade (`Cascade`,
`Restacked`, `Boundary`). `Lineup` extends it with a shared copy per branch and `ff pull` over the stack: the lineup, the
remote axis of the branch underfoot and of the others as the ref namespace lists them (`NameOrder`, `HereFirst`), then the bases, parents first (`BaseOrder`), every step planned on the overlay of what is planned already (`Planned`).
The replay, the cascade and the two phases of a pull are recursive functions of the number of steps taken (commits replayed, ranks walked, branches visited), where the code has a loop; `Over` lays what a
cascade carried over the refs a verb had planned, as `fold_into` does. The constants say what a repository is (`IsRepo` of every start: lines of commits without a change id twice, in change ids given out).

**`Names`, `MCNames`, `NamesProofs`.** What is kept under a branch's name: ref, metadata, open commit, pointer, upstream. `Rename`, `Start`,
`Create`, `Close`, `Delete`, `Switch`, `Share` and `Undo`, as lists of writes a kill cuts short (`Written` is the repository after the first of them), beside git's own delete.
`ParkStands` is the refusal of `park_of`: a dirty tree is left only when its open commit stands for it. `NeverNeither` says of every step but an undo and git's what `branch.rs` says of a rename: under the names
of a branch are still its upstream, the id of its open change and that change, in the tree, parked or closed.

**`Readers`, `MCReaders`, `LogProofs`.** A chain written under its lock (append, move, trim, each ref by ref) while readers hold nothing: the
index (`Record`, `Header`, `Verifies`, `Rebuild`) and the stream (a tick reads the trash, then the tip; `Classify` says whether the log grew, was rewound or was rewritten).

**`Revset`, `MCRevset`.** Scanner, parser, planner and both evaluators of revision sets, and `Denotes`, the reference definition
they are compared with. A behaviour writes one expression, one operator at a time.

**`Hooks`, `MCHooks`, `ClientProofs`.** `ff hook`, `hook --settings`, `unhook`, `hook -u` and `doctor --fix` over Claude, Codex, Cursor, Copilot, Qwen,
OpenCode, bash and zsh: `Installs`, `Uninstalls` and `RepairOf` are sequences of writes, `Write` one of them; a write that is not a rename
may be torn. `codex plugin add` may fail, and is skipped when the plugin already stood and Codex lists it (`Answers`). Users, tower and upgrades edit the same files.

**`Ambient`, `MCAmbient`, `ClientProofs`.** What rides every invocation: the fetch, trim and update-check lanes, the announcement of a release, the briefing
of an agent and the raw-git tier. Each process is a list of steps, a load or a save of one small file each; a save puts back the whole file
as loaded.

## 3. Runs

Every run passes. The definitions whose comment begins with `Faulty` are plausible bugs (a dropped guard, a value read too early); with one
of them in the place of the definition it stands before, TLC finds the property that speaks of it violated.

| run | asks | bounds | distinct states |
|---|---|---|---|
| `oplog_safety` | are appends safe, does every call answer | 3 processes, 2 chains, 3 appends, 2 attempts, 1 kill | 200 thousand |
| `rewind_safety` | does a move land whole, do pointers follow, is redo a stack | 2 branches, 3 outside actions, 5 operations, 2 or 4 moves, 1 crash; in the second history git acts inside verbs | 1.2 million |
| `worktrees` | who opens a branch a second time, pointers, removal and retention across worktrees | 2 worktrees, 3 branches, eight histories of 4 to 6 operations, up to 2 passes, 1 crash | 1.5 million |
| `sharedcopy_safety` | what a push may take off the copy and a pull off the branch | 2 changes, one with a change id, 3 operations, 2 moves of the copy or kills, 2 verbs | 6.6 million |
| `resolution` | does a rewrite land what was decided, and all of it | every stack of 3 commits over 2 files, a side line, a base that moves | 174 thousand |
| `sessions_safety` | do the records of holds and sessions agree, is anything lost | 2 branches, 2 sessions, nine budgets | 1.0 million |
| `stack` | is a change doubled or dropped, does a pull settle | trunk and 2 branches, 4 changes, up to 3 verbs, 1 undo, 1 pull, 2 arrivals | 389 thousand |
| `names_safety` | who keeps what under a name | 3 names, five budgets of up to 4 verbs, 2 undos, 1 kill | 1.4 million |
| `readers_safety` | what do unlocked readers answer | 4 appends, 2 moves, 2 trims, 4 ticks, 1 kill; `Cap` 2 | 555 thousand |
| `revset_safety` | is it read as written, is the answer the set | 4 repositories, 6 names, expressions of 5 | 273 thousand |
| `hooks` | does wiring end whole, is anything foreign touched | 16 machines, 3 verbs, 2 edits, 1 kill | 551 thousand |
| `ambient` | is a lane starved, is anything spent unsaid | 2 processes and a child, 1 turn, 1 cut | 802 thousand |

**Why the bounds are enough.** Losing an append needs two writers on one chain and a third process on another that shares a pointer. Redo as a
stack needs two undos and two redos. A forgotten branch needs it to be seen, taken and released: three switches. To take somebody's work off the
copy takes a fetch nobody looked at: one move of the copy and one verb; to take undone work back, a push before the pull. A doubled change needs
a base that was rewritten, a branch that was left behind, and one more move of it: three verbs. An answer attributed to the wrong step needs two steps that
mark two files: three commits. A session's halves disagree only after a hold, a mint, and one more verb or kill. A handed-down
id needs a name freed and given again: three verbs. A pull that takes a copy too early needs a branch that is visited before its base and after it: the run has stacks named either way. The index is wrong only if a pointer moves back and the log grows to another
length: two moves, three appends. Where one budget for everything would be too large, the MC module has several (`Stories`, `Budgets`,
`Starts`), each with the combination of faults its line names.

**Bounds** are in the guards: `MaxPlans`, `MaxAttempts` (the code's constant, made smaller), `MaxCrashes`, `MaxWork`, `MaxOps`, the `moves` of `Rewind`'s
stories, the fields of `Worktrees`' stories, `MaxOutside`, `MaxVerbs`, the `Budgets` of `Sessions`, `Names` and `Readers`, `left` and `spare` and `MaxCommits` in
`Stack` and `Lineup`, `MaxSize` in `Revset`, `MaxVerbs`, `MaxEdits`, `MaxKills` in `Hooks`, `turns` and `MaxCuts` in `Ambient`.

**Symmetry** is used for branches in `rewind_safety` and for two branches in `worktrees`; neither run has a liveness property.

**Deadlock** is checked in `oplog_safety`, with `Quiet` as the one rest state. The other systems may really stop, at their bounds or because a
rewrite has landed, so their runs say `CHECK_DEADLOCK FALSE`.

**Fairness.** `EveryCallReturns` assumes weak fairness of each process's next step: a running process is scheduled, and the wait for the lock ends at `VERB_WAIT`,
so `GiveUp` stays enabled while the lock is taken. Nothing is assumed of kills or of anyone removing a stale lock. `LaneKeepsRunning`
assumes that a process that has begun goes on, that the user goes on running verbs (a lane rides on one), that time passes and that the detached check is scheduled; nothing of
its success.

**Guards on properties.** `LandsWhole` is of histories in which nothing acts inside the move. `PointerNewest` is of one worktree with undo, redo and retention, or several without: either takes a
shared pointer past another worktree's operations. A pass killed between deleting a pointer and replaying it breaks it too, even in one worktree: TLC found that, and the guard says so (`Settled`). `OpenedByItsHolder` lets a branch become open twice by an undo or a redo and by a worktree added from the branch's own (both in section 4). `TakesNothingBack` is of pulls whose branch did not move under them and of copies a recorded push left.
`ContentKept` leaves out moves out of a merge.
`HalvesAgree` is of sessions whose branch git has not deleted and no verb was killed on. `NoDeadEnd` leaves one state out, a session whose branch git deleted (`Orphaned`): both abandon verbs refuse there, and the property asks for a switch away instead. `NothingLost` is of verbs that were not killed and says two things: work that can be reached stays
reachable or is in an operation of the log, at every verb; and it stays reachable outside the log but at an abandon, a round (its new marks overwrite the fix), an undo or a redo, an arrival that holds over a held arrival (`Replaced`), and the landing of a move or an edit whose branch was gone back to and typed on (`Spent`). `NoHandMeDowns` and `NoIdTwice` are of histories in
which no verb stopped half-way and nothing was undone after a branch was made, or brought back, under a name that still had a pointer; `NoIdTwice` also leaves out a copy of a change whose branch git deleted. `SubscriberFollows` is of a stream whose subscriber was not left without a log (a rewrite to nothing). `PullSettles` asks of the pull after a pull only while
nothing is held on the branch underfoot. `HookEndsWhole` leaves out pieces the user wrote by hand under fufu's name, and three disks a killed or failed hook leaves: a copy of Codex's behind the plugin (`CopyBehind`), an OpenCode script cut short (`Torn`), half of zsh's lines (`HalfAmbient`).

## 4. What modelling found

Where a run's property has a guard, or a variant without it was violated, the code and its words part. None is a crash; most need several actors.

*Operation log and undo.* A verb that merely waited for the lock is never compared with the log it was planned against (`ops/append.rs:118`, against `ops/append.rs:79-83` and
`ops/verb.rs:163`). Undo points HEAD at a branch without the guard every other path calls (`undo.rs:260`). A branch hidden when a log began looks like a creation
once it appears, and undo deletes it (`undo.rs:199`). The incomplete label is missed when a hook captures after the crash (`ops/verb.rs:256`). An undo killed before its resync leaves a branch without
an open commit that no later capture rebuilds (`undo.rs:693`), though `undo.rs:28` has a re-run converge. Undoing an abandoned session leaves out the fixes recorded in it (`undo.rs:695`).

*Worktrees.* `ff worktree ../bay main` run on main opens main a second time: the guard of an add asks the other worktrees only (`linked/add.rs:43`, `linked.rs:86`) and `start` takes the branch underfoot like any other (`linked/add.rs:295`), while `DESIGN.md:319` says "A branch is open in at most one worktree, and fufu is what enforces it" and `cli/help/worktree.md:16` that "A branch checked out elsewhere is refused". A worktree removed while its branch has no snapshot pointer comes back with another branch's files. A redo and an undo revive the older capture (`linked.rs:158`). Two worktrees that trim
replay each other's pointers, which are selected by branch name (`trim.rs:226`); a pass killed among them leaves a branch without its pointer, or with an older one, until the next operation on it. An id is reused after a removal.

*Push and pull.* A pull that replays drops an amended commit as superseded when the copy still holds the spelling before the amendment: change ids are compared, not which is newer
(`rewrite/replay.rs:408`; `pull.rs:42` says no amendment is lost). An undo made while a pull fetches is fast-forwarded over (`pull.rs:394`). The same shedding makes a second `ff pull` drop a local amendment of a stacked branch with nothing
arrived (`pull.rs:45`). A base axis that lands a branch on the base its hold names leaves the hold (`held.rs:402`). With `fufu.pruneGone`, a branch that a cascade holds is deleted and gets metadata anew (`pull.rs:874`). One branch whose replay cannot be planned stops a
pull of all (`restack.rs:1192`, against `pull.rs:1266`). A pull that finds the branch underfoot held tries its base again over all the base has stood on, where the cascade that placed the branch asked only for the base's old and new tip: it can land it elsewhere than the cascade would (`cascade.rs:214`, `restack.rs:238`).

*Stacks.* A rewrite of HEAD's branch does not reach branches on a base it carries (`cascade.rs:4`). A carried branch checked out in another worktree is moved (`cascade.rs:24`). A fold leaves a hold naming the deleted source (`fold.rs:306`), and folding into a child records the child as its own parent. After
an undone fold, a restack can take the branch's own commits for the base's (`restack.rs:238`).

*Resolution and sessions.* Deleting a marked file answers nothing (`rewrite/chain.rs:820`). A modify/delete fold conflict of a move is held, yet `ff resolve` finds no conflict and releases it (`absorb.rs:1299`). A merge whose base moved during the session may land with one real side, against `merge.rs`. Moving
content out of a merge resets the path to the first parent's. A move into a commit above may never end its rounds (`rewrite/chain.rs:215`). A release writes no operation, so a redo holds again. A session whose branch git deleted cannot be abandoned: `ff done --abandon` (`done.rs:1725`) and
`ff resolve --abandon` (`resolve.rs:1092`) both look for the branch to go home to and refuse. The landing of a move or an edit takes whatever is parked on its branch for the change it was resolved from (`held.rs:688`): what was typed there after `ff resolve`, by switching back, is spent with it and is in the log only. A round of `ff done` writes its new marks
over what was typed (`done.rs:843`); that too is in the log only.

*Names.* Undoing a rename leaves metadata, upstream and pointer under the new name, and a second rename onto it is refused half way (`branch.rs:131`; `branch.rs:6-8` says "both names, never neither"). A close killed before the metadata write leaves the consumed id, and the next commit takes it again. A fresh
`ff commit -b x` may inherit stale metadata. git's delete and an undone rename leave the pointer under the name; a branch later made or brought back there, and an undo, rebuild the other's work as its open change. A claim or a rename
that is killed or refused after its operation leaves an id under two names, or a close recorded that has not landed.

*Readers and revsets.* An append killed before its record, followed by an undo, can leave an index whose header names a tip its body lacks (`ops/index.rs:262`). That the log was rewritten is tested before a pass that is still replaying (`watch.rs:224`). In operation space `@..@~1` yields
`@~1` and everything below (`revset/opspace.rs:319` against `:20`). `::a::b` parses as `::(a::b)`.

*Wiring.* While `codex plugin add` fails, a move off hooks.json leaves no capture (`cli/integ/codex.rs:428`). An unhook of Codex leaves what older versions wrote (`cli/integ/mcp.rs:7`). A hook killed between Codex's plugin and `codex plugin add`, or whose add failed, leaves Codex on its old copy, and the next hook skips the add, as the plugin did not move and is listed (`cli/integ/codex.rs:334`). A torn OpenCode script has no header, reads as hand-written and is refused for ever. An rc file is truncated, then written (`cli/integ/shell.rs:378` says "one write"); of zsh's two lines, either alone reads as wired. `doctor --fix` after an
unhook killed within a directory can wire settings on a client that was unhooked.

*Lanes.* `mark_notified_in` spends a release that was not printed (`cli/selfupdate/notify.rs:292`); the second save of the check can undo the mark, and a release is announced twice; a late fetch can put back an interval the user has just changed; a capture that fails at a session's start
loses that context's briefing.

## 5. Proofs

Every theorem is for all values of the constants: any number of actors and operations, all bounds, kills wherever the model has them. The runs check the same properties, and each inductive
invariant was checked by TLC on a small instance before it was proved. No theorem rests on a hypothesis beyond the named `ASSUME`s of its module.

**`LogProofs`, of `OpLog`.** `TypeCorrect`: `Spec => []TypeOK`; `NoAppendIsLost`: the action property `NoAppendLost`; `LogSafe` and `PointerSafe`: `Spec => []LogIsReflog`, `Spec => []PointerIsNewest`; `LogWhole`: `Spec => []LogIsWhole`, the two above with
the tables and the verb links; `ImplementsLog`: `Spec => ImplementsAppendLog`, the refinement. None is inductive alone: that the tip moves only to an operation naming it depends on what a process read a few steps before. `AppendInvariant` adds that at most one process per
chain is between taking and dropping the lock (`HolderIsNamed`), and that what a writer read is still what the chain says, so that the operation it has written names the tip, its table and its newest verb (`ReadIsCurrent`). `ApplyCarries` then says what an append
adds to the log, and `StepLog`, `StepPointer`, `StepVerbs` that each part of `LogIsWhole` survives it. For the refinement, `NamesOlder` (an operation names one written before it) makes the walk a list, `WalkFollows` makes that list the reflog, and `Unlisted` says that what a
writer has just written is on no list yet. Assumptions: lock states differ from processes, each process has a worktree, each worktree is opened on something.

**`RewindProofs`.** `RewindInvariant`, and from it `PointersFollow`: `Spec => []PointerFollowsLog`; `LandingIsWhole`: `Spec => []LandsWhole`; `RedoGoesForward`: `Spec => RedoIsAStack`, the refinement of `UndoStack`. `move_pointer` sees only the two halves of a
move, so that pointers follow needs to be known of every older state too: `OnBranchIsNewest`, each operation names the newest older one on its branch; `PointersAre` then gets from the newest operations under one tip to those under any other. `HalfWay` says how much of the
landing stands after each write, `PlanOK` that the log stands still while a move runs. For the stack, `Ahead` (an undo line the scan will take was written above all it has found, so the scan's stop test never cuts a path short) and `Climbs` (each place ahead
lies strictly below the next) are invariants of the reflog; `UndoPushes` and `RedoPops` compare the scans before and after a move, line by line. Assumptions: none.

**`WorktreesProofs`.** `OnlyItsHolderOpensABranch`: `Spec => OpenedByItsHolder`: where nobody moves along a log, a branch comes to be open twice only when a worktree that stands on it adds another on it, worktrees removed, trims and crashes included. That add, and an undo, do open it twice (section 4). `WorktreesInvariant`: `Spec => []IInv`, and
from it `HeldBranchesAreLeftAlone`: `Spec => HeldBranchesStay`; `RemovedWorkIsNeverLost`: `Spec => RemovedWorkIsKept`; `RetentionLosesNothing`: `Spec => RetentionIsRecoverable`, with any number of worktrees writing, moving and trimming in turn. The log is proved about as a value: a verb may
capture, found a log and append, in its own log and in another's, and `Wrote` says what each of these leaves of the log it was given, so that they compose. `IInv` says that operations name older ones (`StoreOK`), that what undo left
ahead of a log can be stepped back to, each step over at most one operation that speaks of a worktree (`StepsDown`), and what a pass has still to write (`PassOK`): before it drops the log, the trash is the log; while it replays, nothing is ahead, and the oldest line left
names where the log now ends (`Threaded`). The step lemmas go by what one operation makes of the worktree it names (`Affected`: it stands again, or its files were captured and it is gone, and no other worktree, branch or log changes), by `AfterIs`: a list of
effects of which one at most speaks of a worktree does what that one does, and by `RunEndIs`: an undo takes the newest run and no more. `RedoAsks` needs the last two together: a redo enters what one undo left. `PointersAreNewest`: `Spec => []PointerNewest`, from an invariant of its own, `PInv`, with two halves. Where logs only grow, every operation is on some log and each pointer
names the newest of its branch (`GrowsOK`), which every push keeps, a capture in another's log included. In the one worktree that moves and trims, each operation names the newest below it on its branch (`LinkedOK`), so that `PointersBack` and `PointersForward` find what a move
makes of a pointer; `CopiesLinked` says that the survivors a pass writes again are linked as their originals were, because what is not kept is older than all that is (`Tops`); and `ReplayOK` says how much of each ref stands while a pass replays. Assumptions: `MainAssumption`,
`StoriesAssumption`, and that no branch has the name the model gives the chain's own ref.

**`SharedCopyProofs`,** with terminals, fetches, other clones and kills interleaved freely. `SharedCopyTypes`: `Spec => []TypeOK`. `SharedCopySafety`: `Spec => TakesOffOnlyKnown`. The lease alone proves nothing, as it is on a ref any fetch moves; the invariant `IInv` follows the knowledge
instead. `RefsKnown`: the commits of `tip`, of `published` and of the rewrites on the log were on this branch, those of `seen` were or were told. `PushKnown`: so are those of the tip a planned push leases against. `PullKnown`: a pull that moved
the branch moved it onto all the commits of the tip it is about to mark, unless it was held or planned on another tip. `PullTakesNothingBack`: `Spec => TakesNothingBack`, because while the copy stands where a recorded push left it, copy, tracking ref and `published` are one
(`OwnCopy`), and then the remote axis has nothing to take (`StaysPut`). `PullLosesNothing`: `Spec => PullKeepsChanges`, because each of the three ways an axis may go (fast-forward, replay, restack) keeps every change or finds it on a line the copy has stood at (`PullKeeps`), and what the plan
knows is carried to the move (`PullCarried`). That proof first failed, rightly: the property read the reflog when the pull moves, and a fetch may prune it after the plan; the model now keeps what the plan read. The one assumption is that `NoTip` is not a line of commits.

**`LogProofs`, of `Readers`.** `ReadersInvariant`: `ReadersSpec => []FilesInv`; `IndexIsSound`: `ReadersSpec => []IndexHoldsTheLog`; `SubscriberHasTheLog`: `ReadersSpec => []SubscriberFollows`. Readers hold no lock, so the invariant is of files and of what a reader carries: a header names an operation that is reached only over a body with all at and below
it (`Fits`), a rename puts a new inode under an open one, and after a trim no old head is on the log again. For the stream, each rule of `classify_in` is taken alone, and `FollowAlong` shows that the motions it tells lead to the log that was read.

**`ClientProofs`, of `Ambient`** (whose specification is `AmbientSpec`). `AmbientTypes`: `AmbientSpec => []TypeOK`; `StampsAreHonest`: `AmbientSpec => []StampIsHonest`; `NothingUnsaid`: `AmbientSpec => NothingSpentUnsaid`. A save puts back a whole file as it was loaded, so one process can undo another's save; the invariant fixes, by where a process is in its list of steps, what
it may carry between a load and a save: no copy is younger than the last start, and a marker it will save is one whose audience was reached or will be by the same process. Assumptions: `ProcsAssumption`, `AmbientStoriesAssumption`.

**`ClientProofs`, of `Hooks`.** `HalfDone`: `Spec => []HooksInv`; `VerbsConverge`: `Spec => []HookConverges`; `WritesKeep`: `Spec => EveryWriteKeeps`; for any set of machines (`Stories`), any number of verbs, edits by others and kills. That a verb
ends whole is a fact about its last state, but a verb is up to a dozen single writes over files others edit, so the invariant is of a verb half run (`AtWork`): the writes left are those of the program `act()` chose when it took the client up, in its order, and what each
write already made is for stands on the disk (`Done`). `WriteKeeps` says that a write leaves what the others were for; `WriteConverges` that the last one completes it; `EndsWhole` and `EndsGone` read the two promises off an ended program; `RefusedWhy` that a refusal has a file
of somebody else's behind it (or a script cut short, which reads as one). What Codex runs is the copy its last add made, so the theorem carries `CopyBehind` for an add that failed or was skipped. `Done` stands only because nobody but the verb writes between its own writes: `Tower`, users and upgrades act between verbs, or after a kill, as in the model. Assumptions: `AnswersAssumption` (Codex adds its plugin or fails), `FilesAssumption` (no file, a torn one and one that does not
parse are three things, and none is a file fufu reads) and `StoriesAssumption` (a machine has files its adapters know).

**`NamesProofs`,** for any set of names, any of them made up, and any budget. `NamesInvariant`: `Spec => []NamesTypeOK`; `NamesAreKept`: `Spec => NeverNeither`. A kill may fall after any write, so what is proved of a verb is a fact of every prefix of its writes: `Leads(P, do, M, Q)` says that from a
repository of `P` every prefix of `do` ends in `M` and all of it in `Q`, and `LeadsThen` joins two of those at the set between them. `M` is `Keeps`: each branch has a name, and under it what it had. A rename passes through `BothNames`, `OnNew`, `IdOnBoth`, `IdMoved` and `AllMoved`, after its refs, HEAD, the two writes of the metadata and the upstream;
there the order counts, and metadata cleared before it is written elsewhere has no such stage. A close comes to `Landing` (by no step, a rename or a fork) and from its ref on is in `Landed`: the commit holds the work and the id, so the tree and the metadata may go. A switch
keeps the work of the branch it leaves because of `ParkStands`, which `ArrivedKeeps` needs. The preamble (`Begun`) is `Prepared`, the operation appended `PushIs`. The one assumption is `NamesAssumption`.

**`LineupProofs`,** for any finite set of branches in any arrangement (a parent aimed in a loop included), lines of any length, any number of verbs, pulls, pushes and of what others do to the copies. `LinesStand`: `LineupSpec => []LineupInv`: each branch, what undo would make of it, its copy and its tracking ref is a line of
changes given out, without one twice; each position of a reflog is a line; where a branch stands is in its reflog. From it `EachChangeOnce`: `LineupSpec => []NoChangeTwice`; `OnlyTheBasesAreTaken`: `LineupSpec => TakesOnlyTheBases`, the half of `TakesOnlyTheTaken` that is about verbs;
`BranchesAreBroughtAlong`: `LineupSpec => BranchesFollow`. The lines need the replay alone: `ReplayIs` (a line again, that extends the one it is replayed on) rests on what `Superseded` sheds, which is why a change can stand on the base *and* on the branch and not double. `ReplayTakes` says that a replay loses
only what is below the boundary or on the new base, and `ForkedFromIs`, `BoundaryIs` that what is below the boundary is shared with a line the base has had. For the cascade, `PlanOK` is an invariant of its ranks: whom it has moved is on its base as that stands now, or is held, and whom it
has asked it has answered (`Answered`); ranks end because each but the last visits a new branch (`Grows`), and `LandedIs` is what the whole walk comes to. Each verb then has a lemma that it is `Sound`: what a branch lost is in its base's reflog, and who stood on a base's tip is on it again (`CloseSound`, `RewriteSound`, `RestackSound`, `ResolveSound`, `FoldVerbSound`,
`PruneSound`). For a pull, `PhaseOK` is what each step of a phase leaves of the plan, and `PlannedStands` what is written. Assumptions: `TrunkIsABranch`, `BranchesAssumption` (finitely many), `NoneIsNoLine`, and `StartsAssumption`: a start is a repository whose branches
hold no change twice, which is what the code has to keep and nothing it is told.

**`Walks`** and induction. The library's induction theorems cannot be instantiated here, so facts about recursive functions are proved by a least counterexample (`LeastNumber`, `AllNumbers`): that the function exists, then what it computes.

## 6. Only model-checked

* Liveness under fairness and ENABLED (`EveryCallReturns`, `LaneKeepsRunning`) are out of the prover's reach.
* `Revset` and `Rewrite` use `RECURSIVE` operators where the code recurses, and `Resolution` extends `Rewrite`: no theorem can be stated in or over them. So what `Replay`, `Chain` or a parser compute is checked only on the inputs the runs reach.
* `Sessions`: `HalvesAgree`, `NoDeadEnd`, `NothingLost` and `MovesAreExact` are checked over the histories the budgets of the run allow. With larger budgets TLC reaches, through a raw commit and a killed verb, calls the model gives no meaning to (a field of a branch that has no record), so there is no theorem for every budget. Random histories of much larger budgets (33 million states) met no violation of `NothingLost`.
* `Names`: `NoIdTwice` and `NoHandMeDowns`. Their guards name every way TLC has found them to break; two budgets beyond the run's were searched to the end (two typings, four verbs, three undos and a git delete: 13.0 million states; three typings, five verbs and two undos: 14.3 million), two more to 20 million states, and random histories of four typings, nine verbs and four undos over 58 million, without another. That is no proof for every budget, and there is no theorem.
* `PullSettles`, which speaks of the whole of a quiet pull, and the pull's part of `TakesOnlyTheTaken` (`PullTakesOnlyTheTaken`), whose sets are what the copies and the bases have stood at.

Proving changed the models where they could not be reasoned about or were wrong: a `CASE` of `Stack` and of `Lineup` had guards that overlap (now a chain of `IF`, in the order of the code), a union with a set difference lacked its parentheses, `@@` became `Over`, and recursive operators became recursive functions. The proof of `NeverNeither` found `Names` without the refusal of `park_of`: a switch could leave a tree no open commit stands for. The property too says more now: it speaks of every verb, and of the open change.

## 7. Not modelled

* `stash.rs`: only legacy entries and undo's stash effects go through it.
* Views (`model.rs`, `log.rs`, `status.rs`, `evolog.rs`, ...), rendering, help, docs: read-only projections and text.
* The command line: parsing and dispatch; its calls are the actions of the models.
* Signing and the behaviour of hooks: external programs. The download of an update: I/O.
* How a tree is built from files, index trees, file modes, paths of worktrees, the wording of notes.
* In the models: detached worktrees (but for the pointer `OpLog` has), merges within a restacked range, merge holds in `Sessions`, path-selected moves and parking in `Sessions`, several remotes, creation of an upstream, author and date predicates of revsets.
