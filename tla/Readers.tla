------------------------------- MODULE Readers -------------------------------
(***************************************************************************)
(* Reading the operation log of one chain while it is written: the id      *)
(* index, a file every append adds to and every reader verifies            *)
(* (ff-core/src/ops/index.rs), and the watch stream, which says what the   *)
(* log did since the last tick (watch.rs).                                 *)
(*                                                                         *)
(* Writers hold the chain's lock, so there is one at a time; readers hold  *)
(* nothing.  An operation is its number and the operation before it; trim  *)
(* writes survivors anew, each a copy `of' the one it was.  0 is none.  The*)
(* index is the tip its header names and the set of ids in its body; its   *)
(* sorting and the merge of its tail keep that set.                        *)
(***************************************************************************)
EXTENDS Naturals, Sequences, SequencesExt, FiniteSets

CONSTANTS
  Cap,       \* CATCHUP_CAP, WALK_CAP
  Budgets    \* bound: how often a behaviour does each thing, a set of records
             \* [appends, moves, trims, rebuilds, ticks, kills]

ASSUME ReadersAssumption == Cap \in Nat \ {0}

VARIABLES
  ops,       \* every operation written, in order: [prev, of]
  tip,       \* refs/fufu/wt/<chain>/ops
  reached,   \* what the reflog of that ref names
  trash,     \* refs/fufu/wt/<chain>/trash/@ops
  file,      \* the index: [head, ids, whole, inode], or Absent
  writer,    \* the writer holding the lock: [at, ...]
  note,      \* whether a trim that let go of the lock has its note to write
  reader,    \* a reader that rebuilds: [at, tip, ids]
  watch,     \* the stream: [at, trash, seen, seenTrash]
  told,      \* what its subscriber takes the log for: a sequence, or Unknown
  left       \* the budget

readersVars == <<ops, tip, reached, trash, file, writer, note, reader, watch, told, left>>

Absent == [head |-> 0, ids |-> {}, whole |-> FALSE, inode |-> 0]
Idle == [at |-> "idle"]
Unknown == <<0>>

-----------------------------------------------------------------------------
(***************************************************************************)
(* Walks.                                                                  *)
(***************************************************************************)

(* The operations from the root to i, among those of `store'.              *)
ChainIn(store, i) ==
  LET to[k \in 0 .. Len(store)] == IF k = 0 THEN << >> ELSE Append(to[store[k].prev], k)
  IN to[i]
Chain(i) == ChainIn(ops, i)

(* walk_to, catch_up: what lies above `target', oldest first.              *)
Reaches(from, target) == target \in ToSet(Chain(from)) /\ Len(Chain(from)) - Len(Chain(target)) <= Cap
Above(from, target) == SubSeq(Chain(from), Len(Chain(target)) + 1, Len(Chain(from)))

(* fork_point: where from rejoins the Cap operations behind other.         *)
Newest(i) == LET c == Chain(i) IN ToSet(SubSeq(c, IF Len(c) > Cap THEN Len(c) - Cap + 1 ELSE 1, Len(c)))
Joins(from, other) == {f \in ToSet(Chain(from)) \cap Newest(other) : Reaches(from, f)}
ForkPoint(from, other) ==
  LET joins == Joins(from, other)
  IN IF joins = {} THEN 0 ELSE CHOOSE f \in joins : \A g \in joins : g <= f

-----------------------------------------------------------------------------
(***************************************************************************)
(* The index.                                                              *)
(***************************************************************************)

(* domain_ids: the walk from the tip, and what the reflog still reaches.   *)
Domain == UNION {ToSet(Chain(i)) : i \in (reached \cup {tip}) \ {0}}

(* Faulty: the size and the sentinels, and not the tip.                    *)
VerifiesShape(f, expected) == f.whole
(* verify.                                                                 *)
Verifies(f, expected) == f.whole /\ f.head = expected

(* write_index: a new file in the place of the old.                        *)
Written(head, ids) == [head |-> head, ids |-> ids, whole |-> TRUE, inode |-> file.inode + 1]

(* ensure: what the file answers at tip t, when it does.                   *)
InSync(t) == Verifies(file, t)
Behind(t) == file.whole /\ Reaches(t, file.head)
Answer(t) == IF InSync(t) THEN file.ids ELSE file.ids \cup ToSet(Above(t, file.head))

-----------------------------------------------------------------------------
(***************************************************************************)
(* Writers: an append, a move of the pointer, a trim.                      *)
(***************************************************************************)

Spend(what) == left[what] > 0 /\ left' = [left EXCEPT ![what] = @ - 1]

(* commit_op: the refs move.                                               *)
Appended ==
  /\ LET new == Len(ops) + 1
     IN /\ ops' = Append(ops, [prev |-> tip, of |-> new])
        /\ tip' = new
        /\ reached' = reached \cup {new}
        /\ writer' = [at |-> "record", prev |-> tip, inode |-> 0]
  /\ UNCHANGED <<trash, file, reader, watch, told>>

AppendOp == writer = Idle /\ Spend("appends") /\ Appended /\ UNCHANGED note

(* trim.rs trim: the note of a trim that rewrote the log.                  *)
Note == writer = Idle /\ note /\ note' = FALSE /\ Appended /\ UNCHANGED left

(* index.rs record: the file is verified against the tip before, and the id*)
(* goes to its end; the first operation of a log writes the file.          *)
Record ==
  /\ writer.at = "record"
  /\ \/ /\ writer.prev = 0
        /\ file' = Written(tip, {tip})
        /\ writer' = Idle
     \/ /\ writer.prev # 0 /\ Verifies(file, writer.prev)
        /\ \E torn \in BOOLEAN :
             /\ file' = [file EXCEPT !.ids = IF torn THEN @ ELSE @ \cup {tip}, !.whole = ~torn]
             /\ torn => left.kills > 0
             /\ writer' = [writer EXCEPT !.at = IF torn THEN "torn" ELSE "header", !.inode = file.inode]
     \/ /\ writer.prev # 0 /\ ~Verifies(file, writer.prev)
        /\ writer' = Idle
        /\ UNCHANGED file
  /\ UNCHANGED <<ops, tip, reached, trash, reader, watch, told, left, note>>

(* Its header then; a file that was replaced meanwhile is not written.     *)
Header ==
  /\ writer.at = "header"
  /\ file' = IF file.inode = writer.inode THEN [file EXCEPT !.head = tip] ELSE file
  /\ writer' = Idle
  /\ UNCHANGED <<ops, tip, reached, trash, reader, watch, told, left, note>>

(* undo, redo and restore: move_pointer, to an operation the log or its    *)
(* reflog reaches.                                                         *)
Move ==
  /\ writer = Idle
  /\ Spend("moves")
  /\ \E to \in Domain \ {tip} : tip' = to /\ reached' = reached \cup {to}
  /\ writer' = [at |-> "refresh"]
  /\ UNCHANGED <<ops, trash, file, reader, watch, told, note>>

(* index.rs refresh.                                                       *)
Refresh ==
  /\ writer.at = "refresh"
  /\ file' = Written(tip, Domain)
  /\ writer' = Idle
  /\ UNCHANGED <<ops, tip, reached, trash, reader, watch, told, left, note>>

(* trim.rs trim_chain: the log is parked, its ref deleted, and the newest  *)
(* `kept' operations written anew and replayed one by one.                 *)
Trim ==
  /\ writer = Idle /\ tip # 0
  /\ Spend("trims")
  /\ trash' = tip
  /\ \E kept \in 0 .. Len(Chain(tip)) - 1 : writer' = [at |-> "drop", kept |-> kept]
  /\ UNCHANGED <<ops, tip, reached, file, reader, watch, told, note>>

Drop ==
  /\ writer.at = "drop"
  /\ tip' = 0 /\ reached' = {}
  /\ writer' = IF writer.kept = 0 THEN Idle
               ELSE [at |-> "replay", rest |-> SubSeq(Chain(tip), Len(Chain(tip)) - writer.kept + 1, Len(Chain(tip)))]
  /\ UNCHANGED <<ops, trash, file, reader, watch, told, left, note>>

ReplayOne ==
  /\ writer.at = "replay"
  /\ LET new == Len(ops) + 1
     IN /\ ops' = Append(ops, [prev |-> tip, of |-> ops[Head(writer.rest)].of])
        /\ tip' = new
        /\ reached' = reached \cup {new}
  /\ note' = (Len(writer.rest) = 1)
  /\ writer' = IF Len(writer.rest) = 1 THEN Idle ELSE [writer EXCEPT !.rest = Tail(@)]
  /\ UNCHANGED <<trash, file, reader, watch, told, left>>

Kill ==
  /\ Spend("kills")
  /\ \/ writer # Idle /\ writer' = Idle /\ UNCHANGED note
     \/ note /\ note' = FALSE /\ UNCHANGED writer
  /\ UNCHANGED <<ops, tip, reached, trash, file, reader, watch, told>>

-----------------------------------------------------------------------------
(***************************************************************************)
(* A reader of the index that finds neither the tip nor a way back to it   *)
(* rebuilds, holding no lock: it has read the tip, reads the domain, and   *)
(* writes the file.                                                        *)
(***************************************************************************)

Rebuild ==
  /\ reader = Idle
  /\ tip # 0 /\ ~InSync(tip) /\ ~Behind(tip)
  /\ Spend("rebuilds")
  /\ reader' = [at |-> "walk", tip |-> tip]
  /\ UNCHANGED <<ops, tip, reached, trash, file, writer, watch, told, note>>

ReadDomain ==
  /\ reader.at = "walk"
  /\ reader' = [at |-> "write", tip |-> reader.tip, ids |-> Domain]
  /\ UNCHANGED <<ops, tip, reached, trash, file, writer, watch, told, left, note>>

WriteRebuilt ==
  /\ reader.at = "write"
  /\ file' = Written(reader.tip, reader.ids)
  /\ reader' = Idle
  /\ UNCHANGED <<ops, tip, reached, trash, writer, watch, told, left, note>>

-----------------------------------------------------------------------------
(***************************************************************************)
(* The watch stream of Chains::tick, for one chain.                        *)
(***************************************************************************)

Landed(ids) == [k \in DOMAIN ids |-> [motion |-> "landed", op |-> ids[k]]]
Rewritten(t) == <<[motion |-> "rewritten", tip |-> t]>>

(* Faulty: what is above the join includes the join.                       *)
ForkedAtJoin(t, from) ==
  <<[motion |-> "forked", from |-> from, op |-> from]>> \o Landed(Above(t, from))
Forked(t, from) ==
  <<[motion |-> "forked", from |-> from, op |-> Above(t, from)[1]]>> \o Landed(Tail(Above(t, from)))

(* classify_in: its rules in their order.                                  *)
Classify(t, parked) ==
  LET seen == watch.seen
      from == ForkPoint(t, seen)
  IN CASE seen = 0 -> << >>
       [] seen # 0 /\ parked # watch.seenTrash -> Rewritten(t)
       [] seen # 0 /\ parked = watch.seenTrash /\ t = 0 -> Rewritten(0)
       [] seen # 0 /\ parked = watch.seenTrash /\ t = seen -> << >>
       [] OTHER ->
            IF Reaches(t, seen) THEN Landed(Above(t, seen))
            ELSE IF Reaches(seen, t)
                 THEN <<[motion |-> "back", over |-> Len(Above(seen, t))]>>
            ELSE IF from # 0 /\ Above(t, from) # << >> THEN Forked(t, from)
            ELSE Rewritten(t)

UpTo(line, id) == SubSeq(line, 1, CHOOSE k \in DOMAIN line : line[k] = id)

(* What a subscriber makes of one motion: it knows the operations up to an *)
(* id it is given, and nothing of a log that has gone.                     *)
Follow(line, m) ==
  IF m.motion = "rewritten" THEN (IF m.tip = 0 THEN Unknown ELSE Chain(m.tip))
  ELSE IF line = Unknown THEN Unknown
  ELSE CASE m.motion = "landed" -> Append(line, m.op)
         [] m.motion = "back" -> SubSeq(line, 1, Len(line) - m.over)
         [] m.motion = "forked" -> Append(UpTo(line, m.from), m.op)

(* The motions of one tick, one after the other.                           *)
FollowAll(line, motions) ==
  LET after[k \in 0 .. Len(motions)] == IF k = 0 THEN line ELSE Follow(after[k - 1], motions[k])
  IN after[Len(motions)]

(* The two refs are read one after the other.                              *)
TickReadsTrash ==
  /\ watch.at = "idle"
  /\ Spend("ticks")
  /\ watch' = [watch EXCEPT !.at = "tip", !.trash = trash]
  /\ UNCHANGED <<ops, tip, reached, trash, file, writer, reader, told, note>>

TickReadsTip ==
  /\ watch.at = "tip"
  /\ told' = FollowAll(told, Classify(tip, watch.trash))
  /\ watch' = [watch EXCEPT !.at = "idle", !.seen = tip, !.seenTrash = watch.trash]
  /\ UNCHANGED <<ops, tip, reached, trash, file, writer, reader, left, note>>

-----------------------------------------------------------------------------
(* One operation, in the index, and the stream anchored on it.             *)
ReadersInit ==
  /\ ops = <<[prev |-> 0, of |-> 1]>>
  /\ tip = 1 /\ reached = {1} /\ trash = 0
  /\ file = [head |-> 1, ids |-> {1}, whole |-> TRUE, inode |-> 1]
  /\ writer = Idle /\ note = FALSE /\ reader = Idle
  /\ watch = [at |-> "idle", trash |-> 0, seen |-> 1, seenTrash |-> 0]
  /\ told = <<1>>
  /\ left \in Budgets

ReadersNext ==
  \/ AppendOp \/ Note \/ Record \/ Header \/ Move \/ Refresh \/ Trim \/ Drop \/ ReplayOne \/ Kill
  \/ Rebuild \/ ReadDomain \/ WriteRebuilt
  \/ TickReadsTrash \/ TickReadsTip

ReadersSpec == ReadersInit /\ [][ReadersNext]_readersVars

-----------------------------------------------------------------------------
(***************************************************************************)
(* Properties.                                                             *)
(***************************************************************************)

Answers == tip # 0 /\ (InSync(tip) \/ Behind(tip))

(* Whatever the index answers holds every operation of the log, and calls  *)
(* live nothing a trim has taken off it: index.rs, "anything unexpected    *)
(* simply rebuilds"; OpLog::live.                                          *)
IndexHoldsTheLog ==
  Answers => ToSet(Chain(tip)) \subseteq Answer(tip) /\ Answer(tip) \subseteq Domain

(* A subscriber that follows the motions has the log the tick read, unless *)
(* it was told that the log is gone: watch.rs, "what the log did".         *)
SubscriberFollows == told # Unknown => told = Chain(watch.seen)

=============================================================================
