------------------------------ MODULE LogProofs ------------------------------
(***************************************************************************)
(* Theorems about OpLog, for every set of processes, chains and branches   *)
(* and every bound, and about Readers, the readers of what it appends, for *)
(* every budget and every cap on a walk.  The two have no variable in      *)
(* common: a theorem of Spec is about the one, a theorem of ReadersSpec    *)
(* about the other.                                                        *)
(***************************************************************************)
EXTENDS OpLog, Readers, Walks

(* Appending to a store of operations keeps every operation where it was.  *)
LEMMA AppendOne ==
  ASSUME NEW S, NEW s \in Seq(S), NEW e \in S
  PROVE  /\ Append(s, e) \in Seq(S)
         /\ Len(Append(s, e)) = Len(s) + 1
         /\ \A i \in 1..Len(s) : Append(s, e)[i] = s[i]
         /\ Append(s, e)[Len(s) + 1] = e
         /\ Len(s) \in Nat
  BY AppendProperties, LenProperties

(* A process that holds its chain's lock has its name in the lock file, so *)
(* two of them are never between reading the tip and moving it.            *)
HolderIsNamed == \A p \in Procs : InCritical(p) => lock[Home[p]] = p

(* From the moment it links its operation to the moment the refs move, a   *)
(* writer's reading of the tip is true, and the operation it wrote says    *)
(* what it is.                                                             *)
Linking == {"linked", "prepared", "staged"}
ReadIsCurrent ==
  \A p \in Procs : pc[p] \in Linking =>
     /\ link[p].ops = opsRef[Home[p]]
     /\ mine[p] \in 1..Len(store)
     /\ store[mine[p]].prev = link[p].ops
     /\ store[mine[p]].branch = draft[p].branch
     /\ store[mine[p]].table =
          IF store[mine[p]].kind = "verb" THEN mine[p] ELSE TableAt(link[p].ops)
     /\ store[mine[p]].prevVerb = VerbLink(link[p].ops)

IInv == TypeOK /\ HolderIsNamed /\ ReadIsCurrent

-----------------------------------------------------------------------------
LEMMA InitIInv == Init => IInv
<1> SUFFICES ASSUME Init PROVE IInv
  OBVIOUS
<1>1. ASSUME NEW p \in Procs PROVE (CHOOSE b \in Work[Home[p]] : TRUE) \in Work[Home[p]]
  BY HomeAssumption, WorkAssumption
<1>2. \A p \in Procs : draft[p] = [kind |-> "capture", planned |-> None, tries |-> 0,
                                 branch |-> CHOOSE b \in Work[Home[p]] : TRUE]
  BY DEF Init
<1>3. ASSUME NEW p \in Procs
      PROVE  /\ draft[p] \in Draft
             /\ draft[p].branch \in Work[Home[p]]
             /\ draft[p].tries <= (IF draft[p].kind = "verb" THEN MaxAttempts ELSE 1)
  <2> DEFINE b == CHOOSE x \in Work[Home[p]] : TRUE
  <2>1. b \in Work[Home[p]] /\ b \in Branches
    BY <1>1, HomeAssumption, WorkAssumption
  <2>2. draft[p] = [kind |-> "capture", planned |-> None, tries |-> 0, branch |-> b]
    BY <1>2
  <2> HIDE DEF b
  <2> QED
    BY <2>1, <2>2 DEF Draft, Kinds, None
<1>4. draft \in [Procs -> Draft]
  BY <1>3 DEF Init
<1>5. TypeOK
  <2>1. store = << >> /\ Len(store) = 0 /\ Ids = 0..0
    BY DEF Init, Ids
  <2>2. store \in Seq(Op) /\ reflog \in [Chains -> Seq(1..Len(store))]
    BY <2>1 DEF Init
  <2>3. /\ opsRef \in [Chains -> Ids] /\ snapRef \in [Branches -> Ids]
        /\ link \in [Procs -> [ops : Ids, branch : Ids]]
        /\ saw \in [Procs -> [ops : Ids, branch : Ids]]
        /\ mine \in [Procs -> Ids]
    BY <2>1 DEF Init, None
  <2> QED
    BY <1>3, <1>4, <2>2, <2>3 DEF Init, TypeOK, Steps, Outcomes
<1>6. HolderIsNamed /\ ReadIsCurrent
  BY DEF Init, HolderIsNamed, ReadIsCurrent, InCritical, Critical, Linking
<1> QED
  BY <1>5, <1>6 DEF IInv

-----------------------------------------------------------------------------
(***************************************************************************)
(* Type correctness is preserved.                                          *)
(***************************************************************************)

LEMMA RefsNowType ==
  ASSUME TypeOK, NEW p \in Procs
  PROVE  RefsNow(p) \in [ops : Ids, branch : Ids]
<1>1. Home[p] \in Chains /\ draft[p].branch \in Branches
  BY HomeAssumption DEF TypeOK, Draft
<1> QED
  BY <1>1 DEF TypeOK, RefsNow

LEMMA TableAtType ==
  ASSUME TypeOK, NEW id \in Ids
  PROVE  TableAt(id) \in Nat
<1>1. CASE id = None
  BY <1>1 DEF TableAt, None
<1>2. CASE id # None
  <2>1. id \in 1..Len(store)
    BY <1>2, LenProperties DEF Ids, None, TypeOK
  <2>2. store[id] \in Op
    BY <2>1, ElementOfSeq DEF TypeOK
  <2> QED
    BY <1>2, <2>2 DEF TableAt, Op
<1> QED
  BY <1>1, <1>2

LEMMA VerbLinkType ==
  ASSUME TypeOK, NEW id \in Ids
  PROVE  VerbLink(id) \in Nat
<1>1. CASE id = None
  BY <1>1 DEF VerbLink, None
<1>2. CASE id # None
  <2>1. id \in 1..Len(store) /\ id \in Nat
    BY <1>2, LenProperties DEF Ids, None, TypeOK
  <2>2. store[id] \in Op
    BY <2>1, ElementOfSeq DEF TypeOK
  <2> QED
    BY <1>2, <2>1, <2>2 DEF VerbLink, Op
<1> QED
  BY <1>1, <1>2

LEMMA StepType == IInv /\ [Next]_vars => TypeOK'
<1> SUFFICES ASSUME TypeOK, ReadIsCurrent, [Next]_vars PROVE TypeOK'
  BY DEF IInv
<1> USE HomeAssumption, WorkAssumption, BoundsAssumption
<1> USE DEF Goto, Unlock
<1>1. ASSUME NEW p \in Procs, NEW kind \in Kinds, NEW b \in Work[Home[p]], Plan(p, kind, b)
      PROVE  TypeOK'
  <2>1. TableAt(opsRef[Home[p]]) \in Nat
    BY TableAtType DEF TypeOK
  <2>2. b \in Branches
    OBVIOUS
  <2> DEFINE d == [kind |-> kind, branch |-> b, tries |-> 1,
                   planned |-> TableAt(opsRef[Home[p]])]
  <2>3. d \in Draft
    BY <2>1, <2>2 DEF Draft
  <2>4. draft' = [draft EXCEPT ![p] = d]
    BY <1>1 DEF Plan
  <2> HIDE DEF d
  <2>5. draft' \in [Procs -> Draft]
    BY <2>3, <2>4 DEF TypeOK
  <2>6. d.branch = b /\ d.tries = 1
    BY DEF d
  <2>7. \A q \in Procs : /\ draft'[q].branch \in Work[Home[q]]
                        /\ draft'[q].tries <= (IF draft'[q].kind = "verb" THEN MaxAttempts ELSE 1)
    BY <2>4, <2>6 DEF TypeOK
  <2> QED
    BY <1>1, <2>5, <2>7 DEF Plan, TypeOK, Ids, Steps
<1>2. ASSUME NEW p \in Procs, Acquire(p) PROVE TypeOK'
  BY <1>2 DEF Acquire, TypeOK, Ids, Steps, Critical
<1>3. ASSUME NEW p \in Procs, GiveUp(p) PROVE TypeOK'
  BY <1>3 DEF GiveUp, TypeOK, Ids, Steps, Outcomes
<1>4. ASSUME NEW p \in Procs, LinkOp(p) PROVE TypeOK'
  <2> DEFINE now == RefsNow(p)
             id == Len(store) + 1
             e == [kind |-> draft[p].kind, chain |-> Home[p], branch |-> draft[p].branch,
                   prev |-> now.ops, onBranch |-> now.branch,
                   prevVerb |-> VerbLink(now.ops), table |-> TableOf(p),
                   planned |-> draft[p].planned]
  <2>1. now \in [ops : Ids, branch : Ids]
    BY RefsNowType
  <2>2. Len(store) \in Nat
    BY LenProperties DEF TypeOK
  <2>3. TableAt(now.ops) \in Nat /\ VerbLink(now.ops) \in Nat
    BY <2>1, TableAtType, VerbLinkType
  <2>4. draft[p] \in Draft /\ Home[p] \in Chains
    BY DEF TypeOK
  <2>5. now.ops \in Nat /\ now.branch \in Nat
    BY <2>1, <2>2 DEF Ids
  <2>16. TableOf(p) \in Nat
    BY <2>2, <2>3 DEF TableOf, RefsNow
  <2>6. e \in Op
    BY <2>2, <2>3, <2>4, <2>5, <2>16 DEF Op, Draft
  <2>7. store' = Append(store, e) /\ link' = [link EXCEPT ![p] = now]
        /\ mine' = [mine EXCEPT ![p] = id] /\ pc' = [pc EXCEPT ![p] = "linked"]
    BY <1>4 DEF LinkOp
  <2> HIDE DEF now, e
  <2>8. store' \in Seq(Op) /\ Len(store') = Len(store) + 1
    BY <2>6, <2>7, AppendOne DEF TypeOK
  <2>9. Ids \subseteq Ids' /\ id \in Ids'
    BY <2>2, <2>8 DEF Ids
  <2>10. link' \in [Procs -> [ops : Ids', branch : Ids']]
    BY <2>1, <2>7, <2>9 DEF TypeOK
  <2>11. reflog' \in [Chains -> Seq(1..Len(store'))]
    <3>1. 1..Len(store) \subseteq 1..Len(store')
      BY <2>2, <2>8
    <3>2. \A c \in Chains : reflog[c] \in Seq(1..Len(store'))
      BY <3>1, SeqMonotone DEF TypeOK
    <3> QED
      BY <1>4, <3>2 DEF LinkOp, TypeOK
  <2>12. mine' \in [Procs -> Ids'] /\ saw' \in [Procs -> [ops : Ids', branch : Ids']]
    BY <1>4, <2>7, <2>9 DEF TypeOK, LinkOp
  <2>13. opsRef' \in [Chains -> Ids'] /\ snapRef' \in [Branches -> Ids']
    BY <1>4, <2>9 DEF TypeOK, LinkOp
  <2>14. pc' \in [Procs -> Steps]
    BY <2>7 DEF TypeOK, Steps, Critical
  <2>15. UNCHANGED <<lock, draft, outcome, plans, crashes>>
    BY <1>4 DEF LinkOp
  <2> QED
    BY <2>8, <2>10, <2>11, <2>12, <2>13, <2>14, <2>15 DEF TypeOK
<1>5. ASSUME NEW p \in Procs, Prepare(p) PROVE TypeOK'
  BY <1>5, RefsNowType DEF Prepare, TypeOK, Ids, Steps, Critical
<1>6. ASSUME NEW p \in Procs, Stage(p) PROVE TypeOK'
  BY <1>6 DEF Stage, TypeOK, Ids, Steps, Critical
<1>7. ASSUME NEW p \in Procs, Apply(p) PROVE TypeOK'
  <2>1. mine[p] \in 1..Len(store) /\ mine[p] \in Ids
    BY <1>7 DEF Apply, ReadIsCurrent, Linking, TypeOK
  <2>2. Home[p] \in Chains /\ draft[p].branch \in Branches
    BY DEF TypeOK, Draft
  <2>3. Append(reflog[Home[p]], mine[p]) \in Seq(1..Len(store))
    BY <2>1, <2>2, AppendProperties DEF TypeOK
  <2> QED
    BY <1>7, <2>1, <2>2, <2>3 DEF Apply, PointersAfter, TypeOK, Ids, Steps, Critical
<1>8. ASSUME NEW p \in Procs, Return(p) PROVE TypeOK'
  BY <1>8 DEF Return, TypeOK, Ids, Steps, Outcomes
<1>9. ASSUME NEW p \in Procs, Retry(p) PROVE TypeOK'
  <2> DEFINE d == [draft[p] EXCEPT !.tries = draft[p].tries + 1]
  <2>1. draft[p] \in Draft /\ draft[p].kind = "verb" /\ draft[p].tries < MaxAttempts
    BY <1>9 DEF Retry, MayRetry, TypeOK
  <2>2. d \in Draft /\ d.branch = draft[p].branch /\ d.kind = "verb" /\ d.tries <= MaxAttempts
    BY <2>1 DEF Draft
  <2>3. draft' = [draft EXCEPT ![p] = d]
    BY <1>9 DEF Retry
  <2> HIDE DEF d
  <2>4. draft' \in [Procs -> Draft]
    BY <2>2, <2>3 DEF TypeOK
  <2>5. \A q \in Procs : /\ draft'[q].branch \in Work[Home[q]]
                        /\ draft'[q].tries <= (IF draft'[q].kind = "verb" THEN MaxAttempts ELSE 1)
    BY <2>2, <2>3 DEF TypeOK
  <2> QED
    BY <1>9, <2>4, <2>5 DEF Retry, TypeOK, Ids, Steps
<1>10. ASSUME NEW p \in Procs, Refuse(p) PROVE TypeOK'
  BY <1>10 DEF Refuse, TypeOK, Ids, Steps, Outcomes
<1>11. ASSUME NEW p \in Procs, Crash(p) PROVE TypeOK'
  <2>1. lock' \in [Chains -> Procs \cup {Free, Stale}]
    BY <1>11 DEF Crash, TypeOK
  <2>2. crashes' \in Nat /\ pc' \in [Procs -> Steps] /\ outcome' \in [Procs -> Outcomes]
    BY <1>11 DEF Crash, TypeOK, Steps, Outcomes
  <2> QED
    BY <1>11, <2>1, <2>2 DEF Crash, TypeOK, Ids
<1>12. ASSUME NEW c \in Chains, Unstick(c) PROVE TypeOK'
  BY <1>12 DEF Unstick, TypeOK, Ids
<1>13. ASSUME UNCHANGED vars PROVE TypeOK'
  BY <1>13 DEF vars, TypeOK, Ids
<1> QED
  BY <1>1, <1>2, <1>3, <1>4, <1>5, <1>6, <1>7, <1>8, <1>9, <1>10, <1>11, <1>12, <1>13
     DEF Next, Step, Quiet

-----------------------------------------------------------------------------
(***************************************************************************)
(* The lock is exclusive, and what is read under it stays true.            *)
(***************************************************************************)

LEMMA StepHolder == IInv /\ [Next]_vars => HolderIsNamed'
<1> SUFFICES ASSUME IInv, [Next]_vars, NEW q \in Procs, InCritical(q)'
             PROVE  lock'[Home[q]] = q
  BY DEF HolderIsNamed
<1> USE HomeAssumption, ProcsAssumption
<1> USE DEF MayEnter, LooksStale
<1> USE DEF IInv, TypeOK, HolderIsNamed, InCritical, Critical, Goto, Unlock
<1>1. ASSUME NEW p \in Procs, NEW kind \in Kinds, NEW b \in Work[Home[p]], Plan(p, kind, b)
      PROVE  lock'[Home[q]] = q
  BY <1>1 DEF Plan
<1>2. ASSUME NEW p \in Procs, Acquire(p) PROVE lock'[Home[q]] = q
  BY <1>2 DEF Acquire
<1>3. ASSUME NEW p \in Procs, GiveUp(p) PROVE lock'[Home[q]] = q
  BY <1>3 DEF GiveUp
<1>4. ASSUME NEW p \in Procs, LinkOp(p) PROVE lock'[Home[q]] = q
  BY <1>4 DEF LinkOp
<1>5. ASSUME NEW p \in Procs, Prepare(p) PROVE lock'[Home[q]] = q
  BY <1>5 DEF Prepare
<1>6. ASSUME NEW p \in Procs, Stage(p) PROVE lock'[Home[q]] = q
  BY <1>6 DEF Stage
<1>7. ASSUME NEW p \in Procs, Apply(p) PROVE lock'[Home[q]] = q
  BY <1>7 DEF Apply
<1>8. ASSUME NEW p \in Procs, Return(p) PROVE lock'[Home[q]] = q
  BY <1>8 DEF Return
<1>9. ASSUME NEW p \in Procs, Retry(p) PROVE lock'[Home[q]] = q
  BY <1>9 DEF Retry
<1>10. ASSUME NEW p \in Procs, Refuse(p) PROVE lock'[Home[q]] = q
  BY <1>10 DEF Refuse
<1>11. ASSUME NEW p \in Procs, Crash(p) PROVE lock'[Home[q]] = q
  BY <1>11 DEF Crash
<1>12. ASSUME NEW c \in Chains, Unstick(c) PROVE lock'[Home[q]] = q
  BY <1>12 DEF Unstick
<1>13. ASSUME UNCHANGED vars PROVE lock'[Home[q]] = q
  BY <1>13 DEF vars
<1> QED
  BY <1>1, <1>2, <1>3, <1>4, <1>5, <1>6, <1>7, <1>8, <1>9, <1>10, <1>11, <1>12, <1>13
     DEF Next, Step, Quiet

LEMMA StepRead == IInv /\ [Next]_vars => ReadIsCurrent'
<1> SUFFICES ASSUME IInv, [Next]_vars, NEW q \in Procs, pc'[q] \in Linking
             PROVE  /\ link'[q].ops = opsRef'[Home[q]]
                    /\ mine'[q] \in 1..Len(store')
                    /\ store'[mine'[q]].prev = link'[q].ops
                    /\ store'[mine'[q]].branch = draft'[q].branch
                    /\ store'[mine'[q]].table =
                         IF store'[mine'[q]].kind = "verb" THEN mine'[q]
                         ELSE TableAt(link[q].ops)'
                    /\ store'[mine'[q]].prevVerb = VerbLink(link[q].ops)'
  BY DEF ReadIsCurrent
<1> DEFINE Goal == /\ link'[q].ops = opsRef'[Home[q]]
                   /\ mine'[q] \in 1..Len(store')
                   /\ store'[mine'[q]].prev = link'[q].ops
                   /\ store'[mine'[q]].branch = draft'[q].branch
                   /\ store'[mine'[q]].table =
                        IF store'[mine'[q]].kind = "verb" THEN mine'[q]
                        ELSE TableAt(link[q].ops)'
                   /\ store'[mine'[q]].prevVerb = VerbLink(link[q].ops)'
<1> USE HomeAssumption
<1> USE DEF Goto, Unlock
(* A process other than the one that moved keeps its draft and its links.  *)
<1>1. ASSUME pc[q] \in Linking, UNCHANGED <<store, opsRef>>,
             link'[q] = link[q], mine'[q] = mine[q], draft'[q] = draft[q]
      PROVE  Goal
  BY <1>1 DEF IInv, ReadIsCurrent, TableAt, VerbLink
<1>2. ASSUME NEW p \in Procs, NEW kind \in Kinds, NEW b \in Work[Home[p]], Plan(p, kind, b)
      PROVE  Goal
  BY <1>1, <1>2 DEF Plan, IInv, TypeOK, Linking
<1>3. ASSUME NEW p \in Procs, Acquire(p) \/ GiveUp(p) \/ Prepare(p) \/ Stage(p)
      PROVE  Goal
  <2>1. /\ pc[q] \in Linking
        /\ UNCHANGED <<store, opsRef, link, mine, draft>>
    BY <1>3 DEF Acquire, GiveUp, Prepare, Stage, IInv, TypeOK, Linking
  <2> QED
    BY <1>1, <2>1
<1>4. ASSUME NEW p \in Procs, Return(p) \/ Retry(p) \/ Refuse(p) \/ Crash(p)
      PROVE  Goal
  BY <1>1, <1>4 DEF Return, Retry, Refuse, Crash, IInv, TypeOK, Linking
<1>5. ASSUME NEW c \in Chains, Unstick(c) PROVE Goal
  BY <1>1, <1>5 DEF Unstick
<1>6. ASSUME UNCHANGED vars PROVE Goal
  BY <1>1, <1>6 DEF vars
<1>7. ASSUME NEW p \in Procs, LinkOp(p) PROVE Goal
  <2> DEFINE now == RefsNow(p)
             id == Len(store) + 1
             e == [kind |-> draft[p].kind, chain |-> Home[p], branch |-> draft[p].branch,
                   prev |-> now.ops, onBranch |-> now.branch,
                   prevVerb |-> VerbLink(now.ops), table |-> TableOf(p),
                   planned |-> draft[p].planned]
  <2>1. now \in [ops : Ids, branch : Ids]
    BY RefsNowType DEF IInv
  <2>2. Len(store) \in Nat /\ TableAt(now.ops) \in Nat /\ VerbLink(now.ops) \in Nat
    BY <2>1, LenProperties, TableAtType, VerbLinkType DEF IInv, TypeOK
  <2>11. TableOf(p) = IF draft[p].kind = "verb" THEN id ELSE TableAt(now.ops)
    BY DEF TableOf, RefsNow
  <2>3. e \in Op
    <3>1. draft[p] \in Draft /\ Home[p] \in Chains
      BY DEF IInv, TypeOK
    <3>2. now.ops \in Nat /\ now.branch \in Nat
      BY <2>1, <2>2 DEF Ids
    <3> HIDE DEF now
    <3> QED
      BY <2>2, <2>11, <3>1, <3>2 DEF Op, Draft
  <2>4. store' = Append(store, e) /\ link' = [link EXCEPT ![p] = now]
        /\ mine' = [mine EXCEPT ![p] = id] /\ pc' = [pc EXCEPT ![p] = "linked"]
        /\ UNCHANGED <<opsRef, draft>>
    BY <1>7 DEF LinkOp
  <2>5. now.ops = opsRef[Home[p]]
    BY DEF RefsNow
  <2>6. e.prev = now.ops /\ e.branch = draft[p].branch /\ e.kind = draft[p].kind
        /\ e.prevVerb = VerbLink(now.ops)
        /\ e.table = IF draft[p].kind = "verb" THEN id ELSE TableAt(now.ops)
    BY <2>11
  <2> HIDE DEF now, e
  <2>7. /\ Len(store') = Len(store) + 1
        /\ \A i \in 1..Len(store) : store'[i] = store[i]
        /\ store'[id] = e
    BY <2>3, <2>4, AppendOne DEF IInv, TypeOK
  <2>8. \A i \in Ids : TableAt(i)' = TableAt(i) /\ VerbLink(i)' = VerbLink(i)
    BY <2>2, <2>7 DEF TableAt, VerbLink, Ids, None
  <2>9. CASE q = p
    <3>1. link'[q] = now /\ mine'[q] = id /\ draft'[q] = draft[p]
      BY <2>4, <2>9 DEF IInv, TypeOK
    <3>2. TableAt(link[q].ops)' = TableAt(now.ops) /\ VerbLink(link[q].ops)' = VerbLink(now.ops)
      BY <2>1, <2>8, <3>1 DEF TableAt, VerbLink
    <3> QED
      BY <2>2, <2>4, <2>5, <2>6, <2>7, <2>9, <3>1, <3>2
  <2>10. CASE q # p
    <3>1. link'[q] = link[q] /\ mine'[q] = mine[q] /\ pc[q] \in Linking
      BY <2>4, <2>10 DEF IInv, TypeOK
    <3>2. mine[q] \in 1..Len(store) /\ link[q].ops \in Ids
      BY <3>1 DEF IInv, ReadIsCurrent, TypeOK
    <3>3. TableAt(link[q].ops)' = TableAt(link[q].ops) /\ VerbLink(link[q].ops)' = VerbLink(link[q].ops)
      BY <2>8, <3>1, <3>2 DEF TableAt, VerbLink
    <3> QED
      BY <2>2, <2>4, <2>7, <3>1, <3>2, <3>3 DEF IInv, ReadIsCurrent
  <2> QED
    BY <2>9, <2>10
<1>8. ASSUME NEW p \in Procs, Apply(p) PROVE Goal
  <2>1. q # p /\ pc[q] \in Linking /\ pc[p] = "staged"
    BY <1>8 DEF Apply, IInv, TypeOK, Linking
  <2>2. Home[q] # Home[p]
    BY <2>1 DEF IInv, HolderIsNamed, InCritical, Critical, Linking
  <2>3. opsRef'[Home[q]] = opsRef[Home[q]]
    BY <1>8, <2>2 DEF Apply, IInv, TypeOK
  <2> QED
    BY <1>8, <2>1, <2>3 DEF Apply, IInv, ReadIsCurrent, TableAt, VerbLink
<1> QED
  BY <1>2, <1>3, <1>4, <1>5, <1>6, <1>7, <1>8 DEF Next, Step, Quiet

(* Writers of one chain exclude each other, and a writer's reading of the  *)
(* tip is true until the refs move: the span commit_op holds the lock over *)
(* (ops/append.rs 105-117, ops/lock.rs).                                   *)
THEOREM AppendInvariant == Spec => []IInv
<1>1. IInv /\ [Next]_vars => IInv'
  BY StepType, StepHolder, StepRead DEF IInv
<1> QED
  BY <1>1, InitIInv, PTL DEF Spec

(* TypeOK holds in every reachable state.                                  *)
THEOREM TypeCorrect == Spec => []TypeOK
  BY AppendInvariant, PTL DEF IInv

(* The tip of a chain only ever moves to an operation that names the tip   *)
(* it replaces: no append is written over (NoAppendLost).                  *)
THEOREM NoAppendIsLost == Spec => NoAppendLost
<1>1. ASSUME IInv, [Next]_vars, NEW c \in Chains, opsRef'[c] # opsRef[c]
      PROVE  store'[opsRef'[c]].prev = opsRef[c]
  <2>1. PICK p \in Procs : Apply(p)
    BY <1>1 DEF Next, Step, Quiet, vars, Plan, Acquire, GiveUp, LinkOp, Prepare, Stage,
                Return, Retry, Refuse, Crash, Unstick
  <2>2. opsRef' = [opsRef EXCEPT ![Home[p]] = mine[p]] /\ store' = store /\ pc[p] = "staged"
    BY <2>1 DEF Apply
  <2>3. c = Home[p] /\ opsRef'[c] = mine[p]
    BY <1>1, <2>2, HomeAssumption DEF IInv, TypeOK
  <2> QED
    BY <1>1, <2>2, <2>3 DEF IInv, ReadIsCurrent, Linking
<1>2. IInv /\ [Next]_vars =>
        [\A c \in Chains : opsRef'[c] # opsRef[c] => store'[opsRef'[c]].prev = opsRef[c]]_vars
  BY <1>1
<1> QED
  BY <1>2, AppendInvariant, PTL DEF Spec, NoAppendLost

-----------------------------------------------------------------------------
(***************************************************************************)
(* The log, its reflog and the branch pointers agree.                      *)
(***************************************************************************)

(* Only Apply moves a reference, and only LinkOp grows the store.          *)
LEMMA StepKinds ==
  ASSUME [Next]_vars
  PROVE  \/ \E p \in Procs : Apply(p)
         \/ \E p \in Procs : LinkOp(p)
         \/ UNCHANGED <<store, opsRef, snapRef, reflog>>
  BY DEF Next, Step, Quiet, vars, Plan, Acquire, GiveUp, Prepare, Stage,
         Return, Retry, Refuse, Crash, Unstick

(* Writing an operation leaves the ones the reflogs name as they were.     *)
LEMMA LinkKeepsLogs ==
  ASSUME IInv, NEW p \in Procs, LinkOp(p)
  PROVE  /\ UNCHANGED <<opsRef, snapRef, reflog>>
         /\ \A c \in Chains : \A i \in 1..Len(reflog[c]) :
               /\ reflog[c][i] \in 1..Len(store)
               /\ store'[reflog[c][i]] = store[reflog[c][i]]
<1>1. \A i \in 1..Len(store) : store'[i] = store[i]
  <2>1. store' \in Seq(Op)
    BY StepType DEF Next, Step, IInv, TypeOK
  <2>2. PICK e : store' = Append(store, e)
    BY DEF LinkOp
  <2> QED
    BY <2>2, LenProperties DEF IInv, TypeOK
<1>2. \A c \in Chains : \A i \in 1..Len(reflog[c]) : reflog[c][i] \in 1..Len(store)
  BY ElementOfSeq DEF IInv, TypeOK
<1> QED
  BY <1>1, <1>2 DEF LinkOp

(* What a reflog holds after the refs have moved.                          *)
LEMMA ApplyExtends ==
  ASSUME IInv, NEW p \in Procs, Apply(p)
  PROVE  LET c == Home[p]
             n == Len(reflog[c])
         IN /\ n \in Nat
            /\ Len(reflog'[c]) = n + 1
            /\ \A i \in 1..n : reflog'[c][i] = reflog[c][i]
            /\ reflog'[c][n + 1] = mine[p]
            /\ opsRef'[c] = mine[p]
            /\ \A d \in Chains \ {c} : reflog'[d] = reflog[d] /\ opsRef'[d] = opsRef[d]
<1>1. Home[p] \in Chains /\ reflog[Home[p]] \in Seq(1..Len(store))
      /\ mine[p] \in 1..Len(store)
  BY HomeAssumption DEF IInv, TypeOK, ReadIsCurrent, Apply, Linking
<1>2. reflog'[Home[p]] = Append(reflog[Home[p]], mine[p])
  BY <1>1 DEF Apply, IInv, TypeOK
<1>3. opsRef'[Home[p]] = mine[p]
  BY <1>1 DEF Apply, IInv, TypeOK
<1>4. \A d \in Chains \ {Home[p]} : reflog'[d] = reflog[d] /\ opsRef'[d] = opsRef[d]
  BY DEF Apply, IInv, TypeOK
<1> QED
  BY <1>1, <1>2, <1>3, <1>4, AppendOne

LEMMA StepLog == IInv /\ LogIsReflog /\ [Next]_vars => LogIsReflog'
<1> SUFFICES ASSUME IInv, LogIsReflog, [Next]_vars, NEW c \in Chains
             PROVE  /\ opsRef'[c] = IF reflog'[c] = << >> THEN None
                                    ELSE reflog'[c][Len(reflog'[c])]
                    /\ \A i \in 1..Len(reflog'[c]) :
                          store'[reflog'[c][i]].prev = IF i = 1 THEN None ELSE reflog'[c][i - 1]
  BY DEF LogIsReflog
<1>1. CASE UNCHANGED <<store, opsRef, snapRef, reflog>>
  BY <1>1 DEF LogIsReflog
<1>2. ASSUME NEW p \in Procs, LinkOp(p)
      PROVE  /\ opsRef'[c] = IF reflog'[c] = << >> THEN None
                             ELSE reflog'[c][Len(reflog'[c])]
             /\ \A i \in 1..Len(reflog'[c]) :
                   store'[reflog'[c][i]].prev = IF i = 1 THEN None ELSE reflog'[c][i - 1]
  BY <1>2, LinkKeepsLogs DEF LogIsReflog
<1>3. ASSUME NEW p \in Procs, Apply(p)
      PROVE  /\ opsRef'[c] = IF reflog'[c] = << >> THEN None
                             ELSE reflog'[c][Len(reflog'[c])]
             /\ \A i \in 1..Len(reflog'[c]) :
                   store'[reflog'[c][i]].prev = IF i = 1 THEN None ELSE reflog'[c][i - 1]
  <2>1. store' = store /\ store[mine[p]].prev = opsRef[Home[p]]
    BY <1>3 DEF Apply, IInv, ReadIsCurrent, Linking
  <2>2. CASE c # Home[p]
    BY <1>3, <2>1, <2>2, ApplyExtends DEF LogIsReflog
  <2>3. CASE c = Home[p]
    <3> DEFINE n == Len(reflog[c])
    <3>1. /\ n \in Nat
          /\ Len(reflog'[c]) = n + 1
          /\ \A i \in 1..n : reflog'[c][i] = reflog[c][i]
          /\ reflog'[c][n + 1] = mine[p]
          /\ opsRef'[c] = mine[p]
      BY <1>3, <2>3, ApplyExtends
    <3>2. reflog[c] = << >> <=> n = 0
      BY EmptySeq DEF IInv, TypeOK
    <3>3. opsRef[c] = IF n = 0 THEN None ELSE reflog[c][n]
      BY <3>2 DEF LogIsReflog
    <3>4. reflog'[c] # << >>
      BY <3>1
    <3> HIDE DEF n
    <3>5. ASSUME NEW i \in 1..(n + 1)
          PROVE  store[reflog'[c][i]].prev = IF i = 1 THEN None ELSE reflog'[c][i - 1]
      <4>1. CASE i = n + 1
        BY <2>1, <2>3, <3>1, <3>3, <4>1
      <4>2. CASE i \in 1..n
        <5>1. store[reflog[c][i]].prev = IF i = 1 THEN None ELSE reflog[c][i - 1]
          BY <4>2 DEF LogIsReflog, n
        <5> QED
          BY <3>1, <4>2, <5>1
      <4> QED
        BY <3>1, <4>1, <4>2
    <3> QED
      BY <2>1, <3>1, <3>4, <3>5
  <2> QED
    BY <2>2, <2>3
<1> QED
  BY <1>1, <1>2, <1>3, StepKinds

(* The walk over fufu-prev and the ops ref's reflog are the same list, in  *)
(* every reachable state: nothing the reflog reaches is off the log.       *)
THEOREM LogSafe == Spec => []LogIsReflog
<1>1. Init => LogIsReflog
  BY DEF Init, LogIsReflog, None
<1> QED
  BY <1>1, StepLog, AppendInvariant, PTL DEF Spec

(* The indices of the operations of chain c on branch b, after an append.  *)
LEMMA StepPointer == IInv /\ PointerIsNewest /\ [Next]_vars => PointerIsNewest'
<1> SUFFICES ASSUME IInv, PointerIsNewest, [Next]_vars,
                    NEW c \in Chains, NEW b \in Branches, Exclusive(b, c)
             PROVE  IF OnBranch(c, b)' = {} THEN snapRef'[b] = None
                    ELSE \E i \in OnBranch(c, b)' :
                            /\ snapRef'[b] = reflog'[c][i]
                            /\ \A j \in OnBranch(c, b)' : j <= i
  BY DEF PointerIsNewest, Exclusive
<1> DEFINE Goal == IF OnBranch(c, b)' = {} THEN snapRef'[b] = None
                   ELSE \E i \in OnBranch(c, b)' :
                            /\ snapRef'[b] = reflog'[c][i]
                            /\ \A j \in OnBranch(c, b)' : j <= i
<1>1. IF OnBranch(c, b) = {} THEN snapRef[b] = None
      ELSE \E i \in OnBranch(c, b) : /\ snapRef[b] = reflog[c][i]
                                    /\ \A j \in OnBranch(c, b) : j <= i
  BY DEF PointerIsNewest
(* A step that leaves the log of c and the pointer of b alone.             *)
<1>2. ASSUME OnBranch(c, b)' = OnBranch(c, b), snapRef'[b] = snapRef[b],
             \A i \in OnBranch(c, b) : reflog'[c][i] = reflog[c][i]
      PROVE  Goal
  BY <1>1, <1>2
<1>3. CASE UNCHANGED <<store, opsRef, snapRef, reflog>>
  BY <1>2, <1>3 DEF OnBranch
<1>4. ASSUME NEW p \in Procs, LinkOp(p) PROVE Goal
  <2>1. OnBranch(c, b)' = OnBranch(c, b)
    BY <1>4, LinkKeepsLogs DEF OnBranch
  <2> QED
    BY <1>2, <1>4, <2>1, LinkKeepsLogs
<1>5. ASSUME NEW p \in Procs, Apply(p) PROVE Goal
  <2>1. /\ store' = store /\ store[mine[p]].branch = draft[p].branch
        /\ snapRef' = [snapRef EXCEPT ![draft[p].branch] = mine[p]]
        /\ draft[p].branch \in Work[Home[p]] /\ Home[p] \in Chains
    BY <1>5, HomeAssumption DEF Apply, PointersAfter, IInv, TypeOK, ReadIsCurrent, Linking
  <2>2. CASE Home[p] # c
    <3>1. draft[p].branch # b
      BY <2>1, <2>2 DEF Exclusive
    <3>2. reflog'[c] = reflog[c]
      BY <1>5, <2>2, ApplyExtends
    <3>3. snapRef'[b] = snapRef[b] /\ OnBranch(c, b)' = OnBranch(c, b)
      BY <2>1, <3>1, <3>2 DEF OnBranch, IInv, TypeOK
    <3> QED
      BY <1>2, <3>2, <3>3
  <2>3. CASE Home[p] = c
    <3> DEFINE n == Len(reflog[c])
    <3>1. /\ n \in Nat
          /\ Len(reflog'[c]) = n + 1
          /\ \A i \in 1..n : reflog'[c][i] = reflog[c][i]
          /\ reflog'[c][n + 1] = mine[p]
      BY <1>5, <2>3, ApplyExtends
    <3>2. OnBranch(c, b) = {i \in 1..n : store[reflog[c][i]].branch = b}
      BY DEF OnBranch
    <3>3. OnBranch(c, b)' = {i \in 1..(n + 1) : store[reflog'[c][i]].branch = b}
      BY <2>1, <3>1 DEF OnBranch
    <3> HIDE DEF n
    <3>4. CASE draft[p].branch = b
      <4>1. n + 1 \in OnBranch(c, b)' /\ snapRef'[b] = reflog'[c][n + 1]
        BY <2>1, <3>1, <3>3, <3>4 DEF IInv, TypeOK
      <4>2. \A j \in OnBranch(c, b)' : j <= n + 1
        BY <3>1, <3>3
      <4> QED
        BY <4>1, <4>2
    <3>5. CASE draft[p].branch # b
      <4>1. OnBranch(c, b)' = OnBranch(c, b)
        <5>1. n + 1 \notin OnBranch(c, b)'
          BY <2>1, <3>1, <3>3, <3>5
        <5>2. \A i \in 1..n : i \in OnBranch(c, b)' <=> i \in OnBranch(c, b)
          BY <2>1, <3>1, <3>2, <3>3
        <5> QED
          BY <3>1, <3>2, <3>3, <5>1, <5>2
      <4>2. snapRef'[b] = snapRef[b]
        BY <2>1, <3>5 DEF IInv, TypeOK
      <4>3. \A i \in OnBranch(c, b) : reflog'[c][i] = reflog[c][i]
        BY <3>1, <3>2
      <4> QED
        BY <1>2, <4>1, <4>2, <4>3
    <3> QED
      BY <3>4, <3>5
  <2> QED
    BY <2>2, <2>3
<1> QED
  BY <1>3, <1>4, <1>5, StepKinds

(* The pointer of a branch that one worktree alone is opened on names the  *)
(* newest operation of that worktree's log on the branch (PointerIsNewest).*)
THEOREM PointerSafe == Spec => []PointerIsNewest
<1>1. Init => PointerIsNewest
  BY DEF Init, PointerIsNewest, OnBranch, None
<1> QED
  BY <1>1, StepPointer, AppendInvariant, PTL DEF Spec

-----------------------------------------------------------------------------
(***************************************************************************)
(* The tables and the verb links agree with the log.                       *)
(***************************************************************************)

(* The first operation goes on an empty log, every later one on the newest *)
(* operation there, and it carries what that one carried.                  *)
LEMMA ApplyCarries ==
  ASSUME IInv, LogIsReflog, NEW p \in Procs, Apply(p)
  PROVE  LET c == Home[p]
             n == Len(reflog[c])
             new == store[mine[p]]
         IN /\ store' = store
            /\ n = 0 => /\ new.table = IF new.kind = "verb" THEN mine[p] ELSE None
                        /\ new.prevVerb = None
            /\ n # 0 =>
                 LET was == reflog[c][n]
                 IN /\ new.table = IF new.kind = "verb" THEN mine[p] ELSE store[was].table
                    /\ new.prevVerb = IF store[was].kind = "verb" THEN was ELSE store[was].prevVerb
<1> DEFINE c == Home[p]
           n == Len(reflog[c])
           was == reflog[c][n]
<1>1. c \in Chains /\ reflog[c] \in Seq(1..Len(store)) /\ n \in Nat
  BY HomeAssumption, LenProperties DEF IInv, TypeOK
<1>2. /\ store' = store
      /\ store[mine[p]].table =
           IF store[mine[p]].kind = "verb" THEN mine[p] ELSE TableAt(opsRef[c])
      /\ store[mine[p]].prevVerb = VerbLink(opsRef[c])
  BY DEF Apply, IInv, ReadIsCurrent, Linking
<1>3. CASE n = 0
  <2>1. opsRef[c] = None
    BY <1>1, <1>3, EmptySeq DEF LogIsReflog
  <2> QED
    BY <1>2, <1>3, <2>1 DEF TableAt, VerbLink
<1>4. CASE n # 0
  <2>1. was \in 1..Len(store)
    BY <1>1, <1>4, ElementOfSeq
  <2>2. opsRef[c] = was /\ was # None
    BY <1>1, <1>4, <2>1, EmptySeq DEF LogIsReflog, None
  <2>3. store[was].kind \in {"verb", "capture"}
    <3>1. store[was] \in Op
      BY <2>1, ElementOfSeq DEF IInv, TypeOK
    <3> QED
      BY <3>1 DEF Op, Kinds
  <2> QED
    BY <1>2, <1>4, <2>2, <2>3 DEF TableAt, VerbLink
<1> QED
  BY <1>2, <1>3, <1>4

(* The verbs among the first i operations of a chain, and the newest.      *)
VerbsTo(c, i) == {j \in 1..i : store[reflog[c][j]].kind = "verb"}
NamesNewest(log, verbs, id) ==
  IF verbs = {} THEN id = None
  ELSE \E j \in verbs : (\A k \in verbs : k <= j) /\ id = log[j]

LEMMA StepVerbs ==
  IInv /\ LogIsReflog /\ TableIsNewestVerbs /\ VerbLinksMissNone /\ [Next]_vars
    => TableIsNewestVerbs' /\ VerbLinksMissNone'
<1> SUFFICES ASSUME IInv, LogIsReflog, TableIsNewestVerbs, VerbLinksMissNone, [Next]_vars,
                    NEW c \in Chains, NEW i \in 1..Len(reflog'[c])
             PROVE  /\ NamesNewest(reflog'[c], VerbsTo(c, i)', store'[reflog'[c][i]].table)
                    /\ NamesNewest(reflog'[c], VerbsTo(c, i - 1)', store'[reflog'[c][i]].prevVerb)
  BY DEF TableIsNewestVerbs, VerbLinksMissNone, NamesNewest, VerbsTo
<1> DEFINE Goal == /\ NamesNewest(reflog'[c], VerbsTo(c, i)', store'[reflog'[c][i]].table)
                   /\ NamesNewest(reflog'[c], VerbsTo(c, i - 1)', store'[reflog'[c][i]].prevVerb)
<1>1. \A k \in 1..Len(reflog[c]) :
         /\ NamesNewest(reflog[c], VerbsTo(c, k), store[reflog[c][k]].table)
         /\ NamesNewest(reflog[c], VerbsTo(c, k - 1), store[reflog[c][k]].prevVerb)
  BY DEF TableIsNewestVerbs, VerbLinksMissNone, NamesNewest, VerbsTo
<1>2. Len(reflog[c]) \in Nat
  BY LenProperties DEF IInv, TypeOK
(* Where the operations up to i stand as they stood, so do their verbs.    *)
<1>3. ASSUME i \in 1..Len(reflog[c]),
             \A k \in 1..i : /\ reflog'[c][k] = reflog[c][k]
                             /\ store'[reflog[c][k]] = store[reflog[c][k]]
      PROVE  Goal
  <2>1. VerbsTo(c, i)' = VerbsTo(c, i) /\ VerbsTo(c, i - 1)' = VerbsTo(c, i - 1)
    BY <1>2, <1>3 DEF VerbsTo
  <2>2. /\ store'[reflog'[c][i]] = store[reflog[c][i]]
        /\ \A j \in VerbsTo(c, i) \cup VerbsTo(c, i - 1) : reflog'[c][j] = reflog[c][j]
    BY <1>2, <1>3 DEF VerbsTo
  <2> QED
    BY <1>1, <1>3, <2>1, <2>2 DEF NamesNewest
<1>4. CASE UNCHANGED <<store, opsRef, snapRef, reflog>>
  BY <1>2, <1>3, <1>4
<1>5. ASSUME NEW p \in Procs, LinkOp(p) PROVE Goal
  BY <1>2, <1>3, <1>5, LinkKeepsLogs
<1>6. ASSUME NEW p \in Procs, Apply(p) PROVE Goal
  <2> DEFINE n == Len(reflog[c])
  <2>1. store' = store
    BY <1>6 DEF Apply
  <2>2. CASE Home[p] # c
    BY <1>2, <1>3, <1>6, <2>1, <2>2, ApplyExtends
  <2>3. CASE Home[p] = c
    <3>1. /\ n \in Nat
          /\ Len(reflog'[c]) = n + 1
          /\ \A k \in 1..n : reflog'[c][k] = reflog[c][k]
          /\ reflog'[c][n + 1] = mine[p]
      BY <1>6, <2>3, ApplyExtends
    <3>2. CASE i # n + 1
      BY <1>3, <2>1, <3>1, <3>2
    <3>3. CASE i = n + 1
      <4> HIDE DEF n
      <4> DEFINE old == {j \in 1..n : store[reflog[c][j]].kind = "verb"}
                 now == {j \in 1..(n + 1) : store[reflog'[c][j]].kind = "verb"}
                 new == store[mine[p]]
      <4>1. VerbsTo(c, n) = old /\ VerbsTo(c, i - 1)' = old /\ VerbsTo(c, i)' = now
        BY <2>1, <3>1, <3>3 DEF VerbsTo
      <4>2. now = old \cup (IF new.kind = "verb" THEN {n + 1} ELSE {})
        BY <3>1
      <4>3. old \subseteq 1..n
        OBVIOUS
      <4>9. store'[reflog'[c][i]] = new
        BY <2>1, <3>1, <3>3
      <4> HIDE DEF old, now, new
      <4>4. CASE n = 0
        <5>1. new.table = (IF new.kind = "verb" THEN mine[p] ELSE None) /\ new.prevVerb = None
          BY <1>6, <2>3, <4>4, ApplyCarries DEF n, new
        <5>2. old = {}
          BY <4>3, <4>4
        <5> QED
          BY <3>1, <3>3, <4>1, <4>2, <4>4, <4>9, <5>1, <5>2 DEF NamesNewest
      <4>5. CASE n # 0
        <5> DEFINE was == reflog[c][n]
                   before == VerbsTo(c, n - 1)
        <5>1. /\ new.table = (IF new.kind = "verb" THEN mine[p] ELSE store[was].table)
              /\ new.prevVerb = (IF store[was].kind = "verb" THEN was ELSE store[was].prevVerb)
          BY <1>6, <2>3, <4>5, ApplyCarries DEF n, new
        <5>2. n \in 1..Len(reflog[c])
          BY <3>1, <4>5 DEF n
        <5>3. NamesNewest(reflog[c], old, store[was].table) /\ NamesNewest(reflog[c], before, store[was].prevVerb)
          BY <1>1, <4>1, <5>2
        <5>4. old = before \cup (IF store[was].kind = "verb" THEN {n} ELSE {})
          BY <3>1, <4>1, <5>2 DEF VerbsTo
        <5>5. before \subseteq 1..(n - 1)
          BY DEF VerbsTo
        <5> HIDE DEF before, was
        <5>6. NamesNewest(reflog'[c], now, new.table)
          <6>1. CASE new.kind = "verb"
            <7>1. now = old \cup {n + 1} /\ new.table = reflog'[c][n + 1]
              BY <3>1, <4>2, <5>1, <6>1
            <7>2. n + 1 \in now /\ \A k \in now : k <= n + 1
              BY <3>1, <4>3, <7>1
            <7> QED
              BY <7>1, <7>2 DEF NamesNewest
          <6>2. CASE new.kind # "verb"
            BY <3>1, <4>2, <4>3, <5>1, <5>3, <6>2 DEF NamesNewest
          <6> QED
            BY <6>1, <6>2
        <5>7. NamesNewest(reflog'[c], old, new.prevVerb)
          <6>1. CASE store[was].kind = "verb"
            BY <3>1, <4>3, <5>1, <5>2, <5>4, <5>5, <6>1 DEF NamesNewest, was
          <6>2. CASE store[was].kind # "verb"
            BY <3>1, <4>3, <5>1, <5>3, <5>4, <6>2 DEF NamesNewest
          <6> QED
            BY <6>1, <6>2
        <5> QED
          BY <4>1, <4>9, <5>6, <5>7
      <4> QED
        BY <4>4, <4>5
    <3> QED
      BY <3>2, <3>3
  <2> QED
    BY <2>2, <2>3
<1> QED
  BY <1>4, <1>5, <1>6, StepKinds

(* A log is whole in every reachable state: the refs, the reflog, the      *)
(* tables and the links between verbs say one thing (LogIsWhole).          *)
THEOREM LogWhole == Spec => []LogIsWhole
<1>1. Init => TableIsNewestVerbs /\ VerbLinksMissNone
  BY DEF Init, TableIsNewestVerbs, VerbLinksMissNone
<1>2. IInv /\ LogIsReflog /\ TableIsNewestVerbs /\ VerbLinksMissNone /\ [Next]_vars
        => TableIsNewestVerbs' /\ VerbLinksMissNone'
  BY StepVerbs
<1>3. Spec => [](TableIsNewestVerbs /\ VerbLinksMissNone)
  BY <1>1, <1>2, AppendInvariant, LogSafe, PTL DEF Spec
<1> QED
  BY <1>3, LogSafe, PointerSafe, PTL DEF LogIsWhole

-----------------------------------------------------------------------------
(***************************************************************************)
(* The chains implement one append-only list each.                         *)
(***************************************************************************)

(* An operation names one that was written before it.                      *)
NamesOlder == \A i \in 1..Len(store) : store[i].prev \in 0..(i - 1)

(* An operation that is written and not yet put on its chain is on no log, *)
(* and is one process's.                                                   *)
Unlisted ==
  \A p \in Procs : pc[p] \in Linking =>
     /\ \A c \in Chains : \A i \in 1..Len(reflog[c]) : reflog[c][i] # mine[p]
     /\ \A q \in Procs \ {p} : pc[q] \in Linking => mine[q] # mine[p]

(* What an operation is when it is written.                                *)
LEMMA LinkWrites ==
  ASSUME IInv, NEW p \in Procs, LinkOp(p)
  PROVE  /\ Len(store) \in Nat
         /\ Len(store') = Len(store) + 1
         /\ \A i \in 1..Len(store) : store'[i] = store[i]
         /\ store'[Len(store) + 1].prev = opsRef[Home[p]]
         /\ mine' = [mine EXCEPT ![p] = Len(store) + 1]
         /\ pc' = [pc EXCEPT ![p] = "linked"]
         /\ UNCHANGED <<opsRef, reflog>>
<1> DEFINE now == RefsNow(p)
           id == Len(store) + 1
           e == [kind |-> draft[p].kind, chain |-> Home[p], branch |-> draft[p].branch,
                 prev |-> now.ops, onBranch |-> now.branch,
                 prevVerb |-> VerbLink(now.ops), table |-> TableOf(p),
                 planned |-> draft[p].planned]
<1>1. now \in [ops : Ids, branch : Ids]
  BY RefsNowType DEF IInv
<1>2. Len(store) \in Nat /\ TableAt(now.ops) \in Nat /\ VerbLink(now.ops) \in Nat
  BY <1>1, LenProperties, TableAtType, VerbLinkType DEF IInv, TypeOK
<1>3. TableOf(p) \in Nat
  BY <1>2 DEF TableOf, RefsNow
<1>4. draft[p] \in Draft /\ Home[p] \in Chains
  BY HomeAssumption DEF IInv, TypeOK
<1>5. now.ops \in Nat /\ now.branch \in Nat /\ now.ops = opsRef[Home[p]]
  BY <1>1, <1>2 DEF Ids, RefsNow
<1>6. store' = Append(store, e)
  BY DEF LinkOp
<1>7. e \in Op /\ e.prev = opsRef[Home[p]]
  <2> HIDE DEF now
  <2> QED
    BY <1>2, <1>3, <1>4, <1>5 DEF Op, Draft
<1> HIDE DEF e, now
<1>8. /\ Len(store') = Len(store) + 1
      /\ \A i \in 1..Len(store) : store'[i] = store[i]
      /\ store'[id] = e
  BY <1>6, <1>7, AppendOne DEF IInv, TypeOK
<1>9. /\ mine' = [mine EXCEPT ![p] = id] /\ pc' = [pc EXCEPT ![p] = "linked"]
      /\ UNCHANGED <<opsRef, reflog>>
  BY DEF LinkOp, Goto
<1> QED
  BY <1>2, <1>7, <1>8, <1>9

LEMMA StepOlder == IInv /\ NamesOlder /\ [Next]_vars => NamesOlder'
<1> SUFFICES ASSUME IInv, NamesOlder, [Next]_vars PROVE NamesOlder'
  OBVIOUS
<1>1. ASSUME NEW p \in Procs, LinkOp(p) PROVE NamesOlder'
  <2>1. opsRef[Home[p]] \in 0..Len(store)
    BY HomeAssumption DEF IInv, TypeOK, Ids
  <2>2. /\ Len(store) \in Nat
        /\ Len(store') = Len(store) + 1
        /\ \A i \in 1..Len(store) : store'[i] = store[i]
        /\ store'[Len(store) + 1].prev = opsRef[Home[p]]
    BY <1>1, LinkWrites
  <2>3. ASSUME NEW i \in 1..(Len(store) + 1) PROVE store'[i].prev \in 0..(i - 1)
    <3>1. CASE i = Len(store) + 1
      BY <2>1, <2>2, <3>1
    <3>2. CASE i # Len(store) + 1
      <4>1. i \in 1..Len(store)
        BY <2>2, <3>2
      <4> QED
        BY <2>2, <4>1 DEF NamesOlder
    <3> QED
      BY <3>1, <3>2
  <2> QED
    BY <2>2, <2>3 DEF NamesOlder
<1>2. ASSUME NEW p \in Procs, Apply(p) PROVE NamesOlder'
  BY <1>2 DEF Apply, NamesOlder
<1>3. CASE UNCHANGED <<store, opsRef, snapRef, reflog>>
  BY <1>3 DEF NamesOlder
<1> QED
  BY <1>1, <1>2, <1>3, StepKinds

LEMMA StepUnlisted == IInv /\ Unlisted /\ [Next]_vars => Unlisted'
<1> SUFFICES ASSUME IInv, Unlisted, [Next]_vars, NEW r \in Procs, pc'[r] \in Linking
             PROVE  /\ \A c \in Chains : \A i \in 1..Len(reflog'[c]) : reflog'[c][i] # mine'[r]
                    /\ \A q \in Procs \ {r} : pc'[q] \in Linking => mine'[q] # mine'[r]
  BY DEF Unlisted
<1> DEFINE Goal == /\ \A c \in Chains : \A i \in 1..Len(reflog'[c]) : reflog'[c][i] # mine'[r]
                   /\ \A q \in Procs \ {r} : pc'[q] \in Linking => mine'[q] # mine'[r]
<1> USE DEF Goto
(* A step that writes no operation and starts nobody on linking.           *)
<1>1. ASSUME UNCHANGED <<reflog, mine>>,
             \A q \in Procs : pc'[q] \in Linking => pc[q] \in Linking
      PROVE  Goal
  BY <1>1 DEF Unlisted
<1>2. ASSUME NEW p \in Procs,
             \/ \E kind \in Kinds, b \in Work[Home[p]] : Plan(p, kind, b)
             \/ Acquire(p) \/ GiveUp(p) \/ Return(p) \/ Retry(p) \/ Refuse(p) \/ Crash(p)
      PROVE  Goal
  <2>1. UNCHANGED <<reflog, mine>>
    BY <1>2 DEF Plan, Acquire, GiveUp, Return, Retry, Refuse, Crash
  <2>2. \E step \in {"ready", "locked", "idle"} : pc' = [pc EXCEPT ![p] = step]
    BY <1>2 DEF Plan, Acquire, GiveUp, Return, Retry, Refuse, Crash
  <2> QED
    BY <1>1, <2>1, <2>2 DEF Linking, IInv, TypeOK
<1>3. ASSUME NEW p \in Procs, Prepare(p) \/ Stage(p) PROVE Goal
  <2>1. UNCHANGED <<reflog, mine>> /\ pc[p] \in Linking
    BY <1>3 DEF Prepare, Stage, Linking
  <2>2. \A q \in Procs \ {p} : pc'[q] = pc[q]
    BY <1>3 DEF Prepare, Stage, IInv, TypeOK
  <2> QED
    BY <1>1, <2>1, <2>2
<1>4. ASSUME NEW p \in Procs, LinkOp(p) PROVE Goal
  <2> DEFINE n == Len(store)
  <2>1. /\ n \in Nat /\ mine' = [mine EXCEPT ![p] = n + 1]
        /\ pc' = [pc EXCEPT ![p] = "linked"] /\ reflog' = reflog
    BY <1>4, LinkWrites
  <2>2. \A q \in Procs : pc[q] \in Linking => mine[q] \in 1..n
    BY DEF IInv, ReadIsCurrent
  <2>3. \A c \in Chains : \A i \in 1..Len(reflog[c]) : reflog[c][i] \in 1..n
    BY <1>4, LinkKeepsLogs
  <2>4. \A k \in 1..n : k # n + 1
    BY <2>1
  <2> HIDE DEF n
  <2>5. \A q \in Procs \ {p} : pc'[q] = pc[q] /\ mine'[q] = mine[q]
    BY <2>1 DEF IInv, TypeOK
  <2>6. mine'[p] = n + 1
    BY <2>1 DEF IInv, TypeOK
  <2> QED
    BY <2>1, <2>2, <2>3, <2>4, <2>5, <2>6 DEF Unlisted
<1>5. ASSUME NEW p \in Procs, Apply(p) PROVE Goal
  <2>1. /\ mine' = mine /\ pc[p] \in Linking /\ pc' = [pc EXCEPT ![p] = "moved"]
    BY <1>5 DEF Apply, Linking
  <2>2. r # p /\ pc[r] \in Linking /\ mine[p] # mine[r]
    BY <2>1 DEF Linking, IInv, TypeOK, Unlisted
  <2>3. ASSUME NEW c \in Chains, NEW i \in 1..Len(reflog'[c])
        PROVE  reflog'[c][i] # mine[r]
    <3>1. CASE Home[p] # c
      <4>1. reflog'[c] = reflog[c]
        BY <1>5, <3>1, ApplyExtends
      <4> QED
        BY <2>2, <4>1 DEF Unlisted
    <3>2. CASE Home[p] = c
      <4>1. /\ Len(reflog[c]) \in Nat
            /\ Len(reflog'[c]) = Len(reflog[c]) + 1
            /\ \A k \in 1..Len(reflog[c]) : reflog'[c][k] = reflog[c][k]
            /\ reflog'[c][Len(reflog[c]) + 1] = mine[p]
        BY <1>5, <3>2, ApplyExtends
      <4>2. CASE i = Len(reflog[c]) + 1
        BY <2>2, <4>1, <4>2
      <4>3. CASE i # Len(reflog[c]) + 1
        <5>1. i \in 1..Len(reflog[c])
          BY <4>1, <4>3
        <5> QED
          BY <2>2, <4>1, <5>1 DEF Unlisted
      <4> QED
        BY <4>2, <4>3
    <3> QED
      BY <3>1, <3>2
  <2>4. \A q \in Procs : pc'[q] \in Linking => pc[q] \in Linking
    BY <2>1 DEF IInv, TypeOK
  <2> QED
    BY <2>1, <2>2, <2>3, <2>4 DEF Unlisted
<1>6. ASSUME NEW c \in Chains, Unstick(c) PROVE Goal
  BY <1>1, <1>6 DEF Unstick
<1>7. ASSUME UNCHANGED vars PROVE Goal
  BY <1>1, <1>7 DEF vars
<1> QED
  BY <1>2, <1>3, <1>4, <1>5, <1>6, <1>7 DEF Next, Step, Quiet

(* The walk over fufu-prev from the tip of a chain is the chain's reflog.  *)
LEMMA WalkIsReflog ==
  ASSUME IInv, LogIsReflog, NamesOlder, NEW c \in Chains
  PROVE  Walk(opsRef[c]) = reflog[c]
<1> DEFINE n == Len(store)
           prev == [i \in 1..n |-> store[i].prev]
           path[i \in Ids] == IF i = None THEN << >> ELSE Append(path[store[i].prev], i)
<1>1. n \in Nat /\ reflog[c] \in Seq(1..n)
  BY LenProperties DEF IInv, TypeOK
<1>2. LeadsDown(prev, n)
  BY DEF LeadsDown, NamesOlder
<1>3. \A f : IsWalk(f, prev, n) <=> f = [i \in Ids |-> IF i = None THEN << >> ELSE Append(f[store[i].prev], i)]
  <2> SUFFICES ASSUME NEW f
               PROVE  [i \in 0..n |-> IF i = 0 THEN << >> ELSE Append(f[prev[i]], i)]
                        = [i \in Ids |-> IF i = None THEN << >> ELSE Append(f[store[i].prev], i)]
    BY DEF IsWalk
  <2>1. \A i \in 0..n : i = 0 \/ prev[i] = store[i].prev
    BY <1>1
  <2> HIDE DEF prev
  <2> QED
    BY <2>1 DEF Ids, None
<1>4. \E f : IsWalk(f, prev, n)
  <2> HIDE DEF prev, n
  <2> QED
    BY <1>1, <1>2, WalkExists
<1>5. path = [i \in Ids |-> IF i = None THEN << >> ELSE Append(path[store[i].prev], i)]
  BY <1>3, <1>4
<1>6. Walk(opsRef[c]) = path[opsRef[c]]
  BY DEF Walk
<1>7. IsWalk(path, prev, n)
  <2> HIDE DEF path, prev, n
  <2> QED
    BY <1>3, <1>5
<1>8. \A i \in 1..Len(reflog[c]) : prev[reflog[c][i]] = IF i = 1 THEN 0 ELSE reflog[c][i - 1]
  <2> SUFFICES ASSUME NEW i \in 1..Len(reflog[c])
               PROVE  prev[reflog[c][i]] = IF i = 1 THEN 0 ELSE reflog[c][i - 1]
    OBVIOUS
  <2>1. reflog[c][i] \in 1..n
    BY <1>1, ElementOfSeq
  <2> QED
    BY <2>1 DEF LogIsReflog, None
<1>9. opsRef[c] = IF reflog[c] = << >> THEN 0 ELSE reflog[c][Len(reflog[c])]
  BY DEF LogIsReflog, None
<1> DEFINE s == reflog[c]
<1>10. path[IF s = << >> THEN 0 ELSE s[Len(s)]] = s
  <2>1. \A i \in 1..Len(s) : prev[s[i]] = IF i = 1 THEN 0 ELSE s[i - 1]
    BY <1>8
  <2> HIDE DEF path, prev, n, s
  <2> QED
    BY ONLY <1>1, <1>7, <2>1, WalkFollows DEF s
<1> HIDE DEF path, prev, n
<1> QED
  BY <1>6, <1>9, <1>10

(* Where a chain's list is the walk from its tip and is its reflog, a step *)
(* of the append path is a step of AppendLog, or leaves every list alone.  *)
LEMMA StepAppendLog ==
  ASSUME IInv, Unlisted, [Next]_vars,
         [c \in Chains |-> Walk(opsRef[c])] = reflog,
         ([c \in Chains |-> Walk(opsRef[c])] = reflog)'
  PROVE  \/ Abstract!Next
         \/ UNCHANGED <<Len(store), [c \in Chains |-> Walk(opsRef[c])]>>
<1>1. ASSUME NEW p \in Procs, LinkOp(p) PROVE Abstract!Write
  <2>1. Len(store') = Len(store) + 1 /\ reflog' = reflog
    BY <1>1, LinkWrites
  <2> QED
    BY <2>1 DEF Abstract!Write
<1>2. ASSUME NEW p \in Procs, Apply(p) PROVE Abstract!Push(Home[p], mine[p])
  <2>1. /\ pc[p] \in Linking /\ store' = store
        /\ reflog' = [reflog EXCEPT ![Home[p]] = Append(@, mine[p])]
    BY <1>2 DEF Apply, Linking
  <2>2. ~Abstract!OnSomeLog(mine[p])
    BY <2>1 DEF Abstract!OnSomeLog, Unlisted
  <2> QED
    BY <2>1, <2>2 DEF Abstract!Push
<1>3. ASSUME NEW p \in Procs, Apply(p) PROVE Home[p] \in Chains /\ mine[p] \in 1..Len(store)
  BY <1>3, HomeAssumption DEF Apply, Linking, IInv, ReadIsCurrent
<1>4. CASE UNCHANGED <<store, opsRef, snapRef, reflog>>
  BY <1>4
<1> QED
  BY <1>1, <1>2, <1>3, <1>4, StepKinds DEF Abstract!Next

(* What the log promises its readers, for every set of processes, chains   *)
(* and branches and any number of appends and kills: the walk over         *)
(* fufu-prev from the tip of a chain is a list that grows by one operation *)
(* at its end, an operation is on one list, once, and nothing on a list    *)
(* moves or disappears (ImplementsAppendLog).                              *)
THEOREM ImplementsLog == Spec => ImplementsAppendLog
<1> DEFINE list == [c \in Chains |-> Walk(opsRef[c])]
<1>1. Init => NamesOlder /\ Unlisted
  BY DEF Init, NamesOlder, Unlisted, Linking
<1>2. Spec => [](NamesOlder /\ Unlisted)
  <2>1. IInv /\ (NamesOlder /\ Unlisted) /\ [Next]_vars => (NamesOlder /\ Unlisted)'
    BY StepOlder, StepUnlisted
  <2> QED
    BY <1>1, <2>1, AppendInvariant, PTL DEF Spec
<1>3. IInv /\ LogIsReflog /\ NamesOlder => list = reflog
  BY WalkIsReflog DEF IInv, TypeOK
<1>4. Init => IInv /\ LogIsReflog /\ NamesOlder
  BY <1>1, InitIInv DEF Init, LogIsReflog, None
<1>5. Init => Abstract!Init
  BY <1>3, <1>4 DEF Init, Abstract!Init
<1>6. IInv /\ Unlisted /\ list = reflog /\ (list = reflog)' /\ [Next]_vars
        => [Abstract!Next]_<<Len(store), list>>
  BY StepAppendLog
<1> QED
  BY <1>2, <1>3, <1>5, <1>6, AppendInvariant, LogSafe, PTL
     DEF Spec, ImplementsAppendLog, Abstract!Spec

-----------------------------------------------------------------------------
(***************************************************************************)
(* Readers: operations, and what a walk finds.                             *)
(***************************************************************************)

Linkable == [prev : Nat, of : Nat]

(* Operations in the order they were written: each names an older one.     *)
Linked(o) == o \in Seq(Linkable) /\ \A k \in 1..Len(o) : o[k].prev \in 0..(k - 1)

(* The operations at and below i.                                          *)
BelowIn(o, i) == ToSet(ChainIn(o, i))
Below(i) == ToSet(Chain(i))

-----------------------------------------------------------------------------
(***************************************************************************)
(* What a walk finds.                                                      *)
(***************************************************************************)

Links(o) == [k \in 1..Len(o) |-> o[k].prev]

LEMMA ChainWalks ==
  ASSUME NEW o, Linked(o)
  PROVE  /\ Len(o) \in Nat
         /\ LeadsDown(Links(o), Len(o))
         /\ \E f : IsWalk(f, Links(o), Len(o)) /\ \A i : ChainIn(o, i) = f[i]
<1> DEFINE n == Len(o)
           to[k \in 0..Len(o)] == IF k = 0 THEN << >> ELSE Append(to[o[k].prev], k)
<1>1. n \in Nat
  BY DEF Linked
<1>2. LeadsDown(Links(o), n)
  BY DEF LeadsDown, Linked, Links
<1>3. \A f : IsWalk(f, Links(o), n) <=> f = [k \in 0..n |-> IF k = 0 THEN << >> ELSE Append(f[o[k].prev], k)]
  <2> SUFFICES ASSUME NEW f
               PROVE  [i \in 0..n |-> IF i = 0 THEN << >> ELSE Append(f[Links(o)[i]], i)]
                        = [k \in 0..n |-> IF k = 0 THEN << >> ELSE Append(f[o[k].prev], k)]
    BY DEF IsWalk
  <2>1. \A i \in 0..n : i = 0 \/ Links(o)[i] = o[i].prev
    BY <1>1 DEF Links
  <2> QED
    BY <2>1
<1>4. \E f : IsWalk(f, Links(o), n)
  <2> HIDE DEF n
  <2> QED
    BY <1>1, <1>2, WalkExists
<1>5. to = [k \in 0..n |-> IF k = 0 THEN << >> ELSE Append(to[o[k].prev], k)]
  BY <1>3, <1>4
<1>6. \A i : ChainIn(o, i) = to[i]
  BY DEF ChainIn
<1>7. IsWalk(to, Links(o), n)
  <2> HIDE DEF to, n
  <2> QED
    BY <1>3, <1>5
<1> HIDE DEF to
<1> QED
  BY <1>1, <1>2, <1>6, <1>7

LEMMA ChainFacts ==
  ASSUME NEW o, Linked(o)
  PROVE  /\ Len(o) \in Nat
         /\ ChainIn(o, 0) = << >>
         /\ \A i \in 1..Len(o) : ChainIn(o, i) = Append(ChainIn(o, o[i].prev), i)
         /\ \A i \in 0..Len(o) :
               /\ ChainIn(o, i) \in Seq(1..i)
               /\ i # 0 => Len(ChainIn(o, i)) # 0 /\ ChainIn(o, i)[Len(ChainIn(o, i))] = i
               /\ \A j \in 1..Len(ChainIn(o, i)) :
                     ChainIn(o, ChainIn(o, i)[j]) = SubSeq(ChainIn(o, i), 1, j)
<1> DEFINE n == Len(o)
           prev == Links(o)
<1>1. n \in Nat /\ LeadsDown(prev, n)
  BY ChainWalks
<1>2. PICK f : IsWalk(f, prev, n) /\ \A i : ChainIn(o, i) = f[i]
  BY ChainWalks
<1>3. \A i \in 1..n : prev[i] = o[i].prev
  BY DEF Links
<1> HIDE DEF n, prev
<1>4. f[0] = << >>
  BY <1>1, <1>2, WalkStep
<1>5. \A i \in 1..n : f[i] = Append(f[prev[i]], i)
  BY ONLY <1>1, <1>2, WalkStep
<1>6. \A i \in 0..n : /\ f[i] \in Seq(1..i)
                      /\ i # 0 => Len(f[i]) # 0 /\ f[i][Len(f[i])] = i
  BY ONLY <1>1, <1>2, WalkType
<1>7. \A i \in 0..n : \A j \in 1..Len(f[i]) : f[f[i][j]] = SubSeq(f[i], 1, j)
  BY ONLY <1>1, <1>2, WalkPrefix
<1>8. \A i \in 1..n : ChainIn(o, i) = Append(ChainIn(o, o[i].prev), i)
  BY <1>2, <1>3, <1>5
<1>9. ChainIn(o, 0) = << >>
  BY ONLY <1>2, <1>4
<1>10. \A i \in 0..n : /\ ChainIn(o, i) \in Seq(1..i)
                       /\ i # 0 => /\ Len(ChainIn(o, i)) # 0
                                  /\ ChainIn(o, i)[Len(ChainIn(o, i))] = i
  BY ONLY <1>2, <1>6
<1>11. \A i \in 0..n : \A j \in 1..Len(ChainIn(o, i)) :
          ChainIn(o, ChainIn(o, i)[j]) = SubSeq(ChainIn(o, i), 1, j)
  BY ONLY <1>2, <1>7
<1> QED
  BY ONLY <1>1, <1>8, <1>9, <1>10, <1>11 DEF n

LEMMA BelowFacts ==
  ASSUME NEW o, Linked(o)
  PROVE  /\ Len(o) \in Nat
         /\ BelowIn(o, 0) = {}
         /\ \A i \in 1..Len(o) : BelowIn(o, i) = BelowIn(o, o[i].prev) \cup {i}
         /\ \A i \in 0..Len(o) : /\ BelowIn(o, i) \subseteq 1..i
                                 /\ i # 0 => i \in BelowIn(o, i)
                                 /\ \A j \in BelowIn(o, i) : BelowIn(o, j) \subseteq BelowIn(o, i)
<1> DEFINE n == Len(o)
<1>1. n \in Nat
  BY ChainFacts
<1>2. ASSUME NEW i \in 1..n PROVE BelowIn(o, i) = BelowIn(o, o[i].prev) \cup {i}
  <2> DEFINE s == ChainIn(o, o[i].prev)
  <2>1. o[i].prev \in 0..n
    BY <1>1 DEF Linked
  <2>2. s \in Seq(1..o[i].prev)
    BY <2>1, ChainFacts
  <2>3. ChainIn(o, i) = Append(s, i)
    BY ChainFacts
  <2>4. s \in Seq(Nat)
    <3>1. 1..o[i].prev \subseteq Nat
      BY <2>1
    <3> HIDE DEF s
    <3> QED
      BY ONLY <2>2, <3>1, SeqMonotone
  <2> HIDE DEF s
  <2>5. /\ Len(s) \in Nat /\ DOMAIN s = 1..Len(s) /\ DOMAIN Append(s, i) = 1..(Len(s) + 1)
        /\ \A j \in 1..Len(s) : Append(s, i)[j] = s[j]
        /\ Append(s, i)[Len(s) + 1] = i
    BY <2>4
  <2>6. ToSet(Append(s, i)) = ToSet(s) \cup {i}
    <3>1. ToSet(Append(s, i)) = {Append(s, i)[j] : j \in 1..(Len(s) + 1)}
      BY <2>5, ToSetIs
    <3>2. ToSet(s) = {s[j] : j \in 1..Len(s)}
      BY <2>5, ToSetIs
    <3> QED
      BY <2>5, <3>1, <3>2
  <2> QED
    BY <2>3, <2>6 DEF BelowIn, s
<1>3. BelowIn(o, 0) = {}
  <2>1. ToSet(<< >>) = {}
    BY ToSetIs
  <2> QED
    BY <2>1, ChainFacts DEF BelowIn
<1>4. ASSUME NEW i \in 0..n
      PROVE  /\ BelowIn(o, i) \subseteq 1..i
             /\ i # 0 => i \in BelowIn(o, i)
             /\ \A j \in BelowIn(o, i) : BelowIn(o, j) \subseteq BelowIn(o, i)
  <2> DEFINE s == ChainIn(o, i)
  <2>1. s \in Seq(1..i)
    BY ChainFacts
  <2>2. \A j \in 1..Len(s) : ChainIn(o, s[j]) = SubSeq(s, 1, j)
    BY ChainFacts
  <2>3. i # 0 => Len(s) # 0 /\ s[Len(s)] = i
    BY ChainFacts
  <2>4. BelowIn(o, i) = ToSet(s)
    BY DEF BelowIn
  <2> HIDE DEF s
  <2>5. ToSet(s) = {s[j] : j \in 1..Len(s)} /\ Len(s) \in Nat
    BY <2>1, ToSetIs
  <2>6. ASSUME NEW j \in 1..Len(s) PROVE BelowIn(o, s[j]) \subseteq ToSet(s)
    <3> DEFINE u == SubSeq(s, 1, j)
    <3>1. DOMAIN u = 1..j /\ \A k \in 1..j : u[k] = s[k] /\ k \in 1..Len(s)
      BY <2>1, <2>5
    <3>2. BelowIn(o, s[j]) = ToSet(u)
      BY <2>2 DEF BelowIn
    <3> HIDE DEF u
    <3>3. ToSet(u) = {u[k] : k \in 1..j}
      BY <3>1, ToSetIs
    <3> QED
      BY <2>5, <3>1, <3>2, <3>3
  <2>7. ToSet(s) \subseteq 1..i
    BY <2>1, <2>5
  <2>8. i # 0 => i \in ToSet(s)
    BY <2>3, <2>5
  <2>9. \A j \in ToSet(s) : BelowIn(o, j) \subseteq ToSet(s)
    BY ONLY <2>5, <2>6
  <2> QED
    BY <2>4, <2>7, <2>8, <2>9
<1> QED
  BY <1>1, <1>2, <1>3, <1>4

(* An operation that is written leaves every walk as it was, and is the    *)
(* end of one.                                                             *)
LEMMA ChainGrows ==
  ASSUME NEW o, Linked(o), NEW e \in Linkable, e.prev \in 0..Len(o)
  PROVE  LET w == Append(o, e)
             n == Len(o)
         IN /\ Linked(w)
            /\ n \in Nat /\ Len(w) = n + 1
            /\ \A i \in 0..n : ChainIn(w, i) = ChainIn(o, i)
            /\ ChainIn(w, n + 1) = Append(ChainIn(o, e.prev), n + 1)
<1> DEFINE w == Append(o, e)
           n == Len(o)
<1>1. /\ n \in Nat /\ w \in Seq(Linkable) /\ Len(w) = n + 1
      /\ \A i \in 1..n : w[i] = o[i]
      /\ w[n + 1] = e
  BY AppendProperties DEF Linked
<1>2. e.prev \in 0..n
  OBVIOUS
<1> HIDE DEF w, n
<1>3. Linked(w)
  <2> SUFFICES ASSUME NEW k \in 1..(n + 1) PROVE w[k].prev \in 0..(k - 1)
    BY <1>1 DEF Linked
  <2>1. CASE k = n + 1
    BY <1>1, <1>2, <2>1
  <2>2. CASE k # n + 1
    <3>1. k \in 1..n
      BY <1>1, <2>2
    <3> QED
      BY <1>1, <3>1 DEF Linked, n
  <2> QED
    BY <2>1, <2>2
<1>4. ASSUME NEW i \in 0..n PROVE ChainIn(w, i) = ChainIn(o, i)
  <2>1. PICK f : IsWalk(f, Links(o), n) /\ \A j : ChainIn(o, j) = f[j]
    BY ChainWalks DEF n
  <2>2. PICK g : IsWalk(g, Links(w), n + 1) /\ \A j : ChainIn(w, j) = g[j]
    BY <1>1, <1>3, ChainWalks
  <2>3. LeadsDown(Links(o), n)
    BY ChainWalks DEF n
  <2>4. \A j \in 1..n : Links(w)[j] = Links(o)[j]
    BY <1>1 DEF Links, n
  <2>5. n + 1 \in Nat /\ n <= n + 1
    BY <1>1
  <2>6. g[i] = f[i]
    BY ONLY <1>1, <2>1, <2>2, <2>3, <2>4, <2>5, WalkStays, i \in 0..n
  <2> QED
    BY <2>1, <2>2, <2>6
<1>5. ChainIn(w, n + 1) = Append(ChainIn(o, e.prev), n + 1)
  <2>1. \A i \in 1..Len(w) : ChainIn(w, i) = Append(ChainIn(w, w[i].prev), i)
    BY <1>3, ChainFacts
  <2>2. n + 1 \in 1..Len(w) /\ w[n + 1].prev = e.prev
    BY <1>1
  <2>3. ChainIn(w, n + 1) = Append(ChainIn(w, e.prev), n + 1)
    BY ONLY <2>1, <2>2
  <2> QED
    BY <1>2, <1>4, <2>3
<1> QED
  BY <1>1, <1>3, <1>4, <1>5 DEF w, n

-----------------------------------------------------------------------------
(***************************************************************************)
(* The invariant.                                                          *)
(***************************************************************************)

(* A writer knows what it has written and, while it records it in the      *)
(* index, what the tip was before.                                         *)
WriterShape ==
  \/ writer = Idle
  \/ /\ writer \in [at : {"record"}, prev : 0..Len(ops), inode : Nat]
     /\ tip # 0 /\ ops[tip].prev = writer.prev
  \/ /\ writer \in [at : {"header"}, prev : 1..Len(ops), inode : Nat]
     /\ tip # 0 /\ ops[tip].prev = writer.prev
     /\ writer.inode <= file.inode
  \/ writer \in [at : {"torn"}, prev : 0..Len(ops), inode : Nat]
  \/ writer = [at |-> "refresh"]
  \/ writer \in [at : {"drop"}, kept : 0..Len(Chain(tip))] /\ tip # 0
  \/ writer \in [at : {"replay"}, rest : Seq(1..Len(ops)) \ {<< >>}]

ReaderShape ==
  \/ reader = Idle
  \/ reader \in [at : {"walk"}, tip : 1..Len(ops)]
  \/ reader \in [at : {"write"}, tip : 1..Len(ops), ids : SUBSET Nat]

(* The tip is one its reflog took.                                         *)
LogShape ==
  /\ Linked(ops)
  /\ tip \in 0..Len(ops)
  /\ reached \subseteq 1..Len(ops)
  /\ tip # 0 => tip \in reached

(* Every variable has its type.                                            *)
Shape ==
  /\ LogShape
  /\ trash \in 0..Len(ops)
  /\ file \in [head : 0..Len(ops), ids : SUBSET Nat, whole : BOOLEAN, inode : Nat]
  /\ WriterShape
  /\ ReaderShape
  /\ watch \in [at : {"idle", "tip"}, trash : 0..Len(ops), seen : 0..Len(ops), seenTrash : 0..Len(ops)]

(* A set of ids said to be the index at `head', as long as head is in      *)
(* `dom', what the log and its reflog reach: it has all at and below head, *)
(* and nothing a trim has taken off.  After a trim no head of before is on *)
(* the log again.                                                          *)
Fits(o, dom, head, ids) == head \in dom => BelowIn(o, head) \subseteq ids /\ ids \subseteq dom

(* The file, and what a rebuild is about to write, fit what they name; an  *)
(* append that has written its id and not the header has the file it       *)
(* verified under it, unless it was replaced.                              *)
IndexInv ==
  /\ file.whole => Fits(ops, Domain, file.head, file.ids)
  /\ reader.at = "write" => Fits(ops, Domain, reader.tip, reader.ids)
  /\ (writer.at = "header" /\ writer.inode = file.inode) =>
        file.whole /\ file.head = writer.prev /\ tip \in file.ids

(* The subscriber has the log that was last seen, or has none.             *)
StreamInv ==
  /\ told # Unknown => told = Chain(watch.seen)
  /\ watch.seen = 0 => told = Unknown

FilesInv == Shape /\ IndexInv

-----------------------------------------------------------------------------
(***************************************************************************)
(* What happens to the log, and to what is on it.                          *)
(***************************************************************************)

LEMMA WalksOf ==
  ASSUME LogShape
  PROVE  /\ Len(ops) \in Nat
         /\ Chain(0) = << >> /\ Below(0) = {}
         /\ \A i \in 1..Len(ops) : Below(i) = Below(ops[i].prev) \cup {i}
         /\ \A i \in 0..Len(ops) : Chain(i) \in Seq(1..i)
         /\ \A i \in 0..Len(ops) : /\ Below(i) \subseteq 1..i
                                   /\ i # 0 => i \in Below(i)
                                   /\ \A j \in Below(i) : Below(j) \subseteq Below(i)
  BY ChainFacts, BelowFacts DEF LogShape, Chain, Below, BelowIn

LEMMA DomainIs ==
  ASSUME LogShape
  PROVE  /\ Domain = UNION {Below(i) : i \in reached}
         /\ Domain \subseteq 1..Len(ops)
         /\ \A i \in Domain : Below(i) \subseteq Domain
         /\ tip # 0 => tip \in Domain
<1>1. (reached \cup {tip}) \ {0} = reached
  BY DEF LogShape
<1>2. Domain = UNION {Below(i) : i \in reached}
  BY <1>1 DEF Domain, Below
<1>3. \A i \in reached : /\ i \in 0..Len(ops) /\ i # 0
                        /\ Below(i) \subseteq 1..i /\ 1..i \subseteq 1..Len(ops)
                        /\ i \in Below(i) /\ \A j \in Below(i) : Below(j) \subseteq Below(i)
  <2> SUFFICES ASSUME NEW i \in reached
               PROVE  /\ i \in 0..Len(ops) /\ i # 0
                      /\ Below(i) \subseteq 1..i /\ 1..i \subseteq 1..Len(ops)
                      /\ i \in Below(i) /\ \A j \in Below(i) : Below(j) \subseteq Below(i)
    OBVIOUS
  <2>1. Len(ops) \in Nat
    BY WalksOf
  <2>2. i \in 0..Len(ops) /\ i # 0 /\ 1..i \subseteq 1..Len(ops)
    BY <2>1 DEF LogShape
  <2>3. \A k \in 0..Len(ops) : /\ Below(k) \subseteq 1..k
                               /\ k # 0 => k \in Below(k)
                               /\ \A j \in Below(k) : Below(j) \subseteq Below(k)
    BY WalksOf
  <2> QED
    BY ONLY <2>2, <2>3
<1> QED
  BY <1>2, <1>3 DEF LogShape

(* An operation goes on the log: an append, or one a trim replays.         *)
LEMMA LogGrows ==
  ASSUME LogShape, NEW of \in Nat,
         ops' = Append(ops, [prev |-> tip, of |-> of]),
         tip' = Len(ops) + 1,
         reached' = reached \cup {Len(ops) + 1}
  PROVE  /\ LogShape'
         /\ Len(ops) \in Nat /\ Len(ops') = Len(ops) + 1
         /\ ops'[tip'].prev = tip
         /\ \A i \in 0..Len(ops) : Chain(i)' = Chain(i) /\ Below(i)' = Below(i)
         /\ Domain' = Domain \cup {Len(ops) + 1}
<1> DEFINE n == Len(ops)
           e == [prev |-> tip, of |-> of]
<1>1. e \in Linkable /\ e.prev = tip /\ n \in Nat /\ tip \in 0..n
  BY WalksOf DEF LogShape, Linkable
<1> HIDE DEF e
<1>2. /\ Linked(ops') /\ Len(ops') = n + 1
      /\ \A i \in 0..n : ChainIn(ops', i) = ChainIn(ops, i)
      /\ ChainIn(ops', n + 1) = Append(ChainIn(ops, tip), n + 1)
  BY <1>1, ChainGrows DEF LogShape, e
<1>3. ops'[n + 1] = e
  BY <1>1, AppendProperties DEF LogShape, Linked, e
<1>4. LogShape'
  <2>1. n + 1 \in 0..(n + 1) /\ reached \cup {n + 1} \subseteq 1..(n + 1)
    <3>1. reached \subseteq 1..n /\ n \in Nat
      BY <1>1 DEF LogShape
    <3> HIDE DEF n
    <3> QED
      BY <3>1
  <2> HIDE DEF n
  <2> QED
    BY <1>2, <2>1 DEF LogShape, n
<1>5. \A i \in 0..n : Chain(i)' = Chain(i) /\ Below(i)' = Below(i)
  BY <1>2 DEF Chain, Below
<1>6. Domain' = Domain \cup {n + 1}
  <2>1. Domain = UNION {BelowIn(ops, i) : i \in reached}
    BY DomainIs DEF Below, BelowIn, Chain
  <2>2. Domain' = UNION {BelowIn(ops', i) : i \in reached'}
    <3>1. (reached' \cup {tip'}) \ {0} = reached'
      BY <1>1 DEF LogShape
    <3> QED
      BY <3>1 DEF Domain, BelowIn, Chain
  <2>3. \A i \in 0..n : BelowIn(ops', i) = BelowIn(ops, i)
    BY <1>2 DEF BelowIn
  <2>4. BelowIn(ops', n + 1) = BelowIn(ops, tip) \cup {n + 1}
    <3>1. n + 1 \in 1..Len(ops') /\ tip \in 0..n /\ ops'[n + 1].prev = tip
      BY <1>1, <1>2, <1>3
    <3>2. \A i \in 1..Len(ops') : BelowIn(ops', i) = BelowIn(ops', ops'[i].prev) \cup {i}
      BY <1>2, BelowFacts
    <3>3. BelowIn(ops', n + 1) = BelowIn(ops', tip) \cup {n + 1}
      BY ONLY <3>1, <3>2
    <3> QED
      BY <2>3, <3>1, <3>3
  <2>5. BelowIn(ops, tip) \subseteq Domain
    <3>1. CASE tip = 0
      BY <3>1, WalksOf DEF Below, BelowIn, Chain
    <3>2. CASE tip # 0
      BY <3>2, <2>1 DEF LogShape
    <3> QED
      BY <3>1, <3>2
  <2>6. reached \subseteq 0..n
    BY <1>1 DEF LogShape
  <2> HIDE DEF n
  <2> QED
    BY <2>1, <2>2, <2>3, <2>4, <2>5, <2>6 DEF n
<1> QED
  BY <1>1, <1>2, <1>3, <1>4, <1>5, <1>6

(* The pointer moves to what the log or its reflog reaches.                *)
LEMMA LogMoves ==
  ASSUME LogShape, NEW to \in Domain,
         ops' = ops, tip' = to, reached' = reached \cup {to}
  PROVE  /\ LogShape'
         /\ \A i : Chain(i)' = Chain(i) /\ Below(i)' = Below(i)
         /\ Domain' = Domain
<1>1. to \in 1..Len(ops) /\ Below(to) \subseteq Domain
  BY DomainIs
<1>2. LogShape'
  BY <1>1, WalksOf DEF LogShape
<1>3. \A i : Chain(i)' = Chain(i) /\ Below(i)' = Below(i)
  BY DEF Chain, Below
<1>4. Domain' = UNION {Below(i) : i \in reached \cup {to}}
  <2>1. (reached' \cup {tip'}) \ {0} = reached \cup {to}
    BY <1>1 DEF LogShape
  <2> QED
    BY <2>1 DEF Domain, Below, Chain
<1> QED
  BY <1>1, <1>2, <1>3, <1>4, DomainIs

(* A trim takes the log away.                                              *)
LEMMA LogDropped ==
  ASSUME LogShape, ops' = ops, tip' = 0, reached' = {}
  PROVE  /\ LogShape'
         /\ \A i : Chain(i)' = Chain(i) /\ Below(i)' = Below(i)
         /\ Domain' = {}
<1>1. LogShape'
  BY WalksOf DEF LogShape
<1>2. \A i : Chain(i)' = Chain(i) /\ Below(i)' = Below(i)
  BY DEF Chain, Below
<1>3. (reached' \cup {tip'}) \ {0} = {}
  OBVIOUS
<1> QED
  BY <1>1, <1>2, <1>3 DEF Domain

LEMMA LogStands ==
  ASSUME UNCHANGED <<ops, tip, reached>>
  PROVE  /\ LogShape' = LogShape
         /\ \A i : Chain(i)' = Chain(i) /\ Below(i)' = Below(i)
         /\ Domain' = Domain
  BY DEF LogShape, Chain, Below, Domain

-----------------------------------------------------------------------------
(***************************************************************************)
(* Shape is preserved.                                                     *)
(***************************************************************************)

(* The parts that are not the log and not the writer's.                    *)
RestShape ==
  /\ trash \in 0..Len(ops)
  /\ file \in [head : 0..Len(ops), ids : SUBSET Nat, whole : BOOLEAN, inode : Nat]
  /\ ReaderShape
  /\ watch \in [at : {"idle", "tip"}, trash : 0..Len(ops), seen : 0..Len(ops), seenTrash : 0..Len(ops)]

LEMMA WriterStands ==
  ASSUME Shape, UNCHANGED <<ops, tip, writer>>, file'.inode \in Nat, file.inode <= file'.inode
  PROVE  WriterShape'
<1>1. Chain(tip)' = Chain(tip)
  BY DEF Chain
<1>2. WriterShape /\ file.inode \in Nat
  BY DEF Shape
<1>3. CASE writer.at = "header"
  BY <1>2, <1>3 DEF WriterShape, Idle
<1>4. CASE writer.at # "header"
  BY <1>1, <1>2, <1>4 DEF WriterShape, Idle
<1> QED
  BY <1>3, <1>4

LEMMA RestGrows ==
  ASSUME Shape, Len(ops') = Len(ops) + 1, UNCHANGED <<trash, file, reader, watch>>
  PROVE  RestShape'
<1>1. Len(ops) \in Nat
  BY WalksOf DEF Shape
<1> DEFINE n == Len(ops)
           m == Len(ops')
<1>2. 0..n \subseteq 0..m /\ 1..n \subseteq 1..m
  BY <1>1
<1>3. /\ trash \in 0..n
      /\ file \in [head : 0..n, ids : SUBSET Nat, whole : BOOLEAN, inode : Nat]
      /\ \/ reader = Idle
         \/ reader \in [at : {"walk"}, tip : 1..n]
         \/ reader \in [at : {"write"}, tip : 1..n, ids : SUBSET Nat]
      /\ watch \in [at : {"idle", "tip"}, trash : 0..n, seen : 0..n, seenTrash : 0..n]
  BY DEF Shape, ReaderShape
<1> HIDE DEF n, m
<1>4. /\ trash \in 0..m
      /\ file \in [head : 0..m, ids : SUBSET Nat, whole : BOOLEAN, inode : Nat]
      /\ watch \in [at : {"idle", "tip"}, trash : 0..m, seen : 0..m, seenTrash : 0..m]
  BY <1>2, <1>3
<1>5. \/ reader = Idle
      \/ reader \in [at : {"walk"}, tip : 1..m]
      \/ reader \in [at : {"write"}, tip : 1..m, ids : SUBSET Nat]
  BY <1>2, <1>3
<1> QED
  BY <1>4, <1>5 DEF RestShape, ReaderShape, m

(* What takes an operation: the log, and the parts that only name it.      *)
LEMMA AppendedShape ==
  ASSUME Shape, Appended
  PROVE  Shape'
<1>0. LogShape' /\ WriterShape' /\ RestShape' => Shape'
  BY DEF Shape, RestShape
<1> DEFINE n == Len(ops)
<1>1. n \in Nat /\ tip \in 0..n
  BY WalksOf DEF Shape, LogShape
<1>2. n + 1 \in Nat
  BY <1>1
<1>3. /\ LogShape' /\ Len(ops') = n + 1 /\ ops'[tip'].prev = tip
  BY <1>2, LogGrows DEF Appended, Shape
<1>4. RestShape'
  BY <1>3, RestGrows DEF Appended
<1>5. WriterShape'
  <2>1. writer' = [at |-> "record", prev |-> tip, inode |-> 0] /\ tip' = n + 1
    BY DEF Appended
  <2>2. tip \in 0..Len(ops') /\ tip' # 0
    BY <1>1, <1>3, <2>1
  <2> HIDE DEF n
  <2> QED
    BY <1>3, <2>1, <2>2 DEF WriterShape
<1> QED
  BY <1>3, <1>4, <1>5, <1>0

LEMMA RecordShape ==
  ASSUME Shape, Record
  PROVE  Shape'
<1>0. LogShape' /\ WriterShape' /\ RestShape' => Shape'
  BY DEF Shape, RestShape
<1>1. /\ writer \in [at : {"record"}, prev : 0..Len(ops), inode : Nat]
      /\ tip # 0 /\ ops[tip].prev = writer.prev /\ Len(ops) \in Nat
      /\ tip \in 0..Len(ops)
  <2>1. Len(ops) \in Nat /\ tip \in 0..Len(ops)
    BY WalksOf DEF Shape, LogShape
  <2>2. WriterShape /\ writer.at = "record"
    BY DEF Shape, Record
  <2> QED
    BY <2>1, <2>2 DEF WriterShape, Idle
<1>2. /\ file \in [head : 0..Len(ops), ids : SUBSET Nat, whole : BOOLEAN, inode : Nat]
      /\ ReaderShape /\ LogShape
      /\ trash \in 0..Len(ops)
      /\ watch \in [at : {"idle", "tip"}, trash : 0..Len(ops), seen : 0..Len(ops), seenTrash : 0..Len(ops)]
  BY DEF Shape
<1>3. UNCHANGED <<ops, tip, reached, trash, reader, watch>>
  BY DEF Record
<1>4. LogShape'
  BY <1>2, <1>3, LogStands
<1>5. ASSUME file' \in [head : 0..Len(ops), ids : SUBSET Nat, whole : BOOLEAN, inode : Nat]
      PROVE  RestShape'
  BY <1>2, <1>3, <1>5 DEF RestShape, ReaderShape
<1>6. CASE writer.prev = 0 /\ file' = Written(tip, {tip}) /\ writer' = Idle
  <2>1. file' \in [head : 0..Len(ops), ids : SUBSET Nat, whole : BOOLEAN, inode : Nat]
    BY <1>1, <1>2, <1>6 DEF Written
  <2> QED
    BY <1>4, <1>5, <1>6, <2>1, <1>0 DEF WriterShape
<1>7. ASSUME writer.prev # 0,
             NEW torn \in BOOLEAN,
             file' = [file EXCEPT !.ids = IF torn THEN @ ELSE @ \cup {tip}, !.whole = ~torn],
             writer' = [writer EXCEPT !.at = IF torn THEN "torn" ELSE "header", !.inode = file.inode]
      PROVE  Shape'
  <2>1. /\ file'.head = file.head /\ file'.inode = file.inode
        /\ file' \in [head : 0..Len(ops), ids : SUBSET Nat, whole : BOOLEAN, inode : Nat]
    <3> DEFINE ids == IF torn THEN file.ids ELSE file.ids \cup {tip}
               whole == ~torn
    <3>1. ids \in SUBSET Nat /\ whole \in BOOLEAN
      BY <1>1, <1>2
    <3>2. file' = [file EXCEPT !.ids = ids, !.whole = whole]
      BY <1>7
    <3> HIDE DEF ids, whole
    <3> QED
      BY <1>2, <3>1, <3>2
  <2>2. writer.prev \in 1..Len(ops) /\ file.inode \in Nat
    BY <1>1, <1>2, <1>7
  <2>3. CASE torn
    <3>1. writer' \in [at : {"torn"}, prev : 0..Len(ops), inode : Nat]
      BY <1>1, <1>7, <2>2, <2>3
    <3> QED
      BY <1>3, <1>4, <1>5, <2>1, <3>1, <1>0 DEF WriterShape
  <2>4. CASE ~torn
    <3>1. /\ writer' \in [at : {"header"}, prev : 1..Len(ops), inode : Nat]
          /\ writer'.prev = writer.prev /\ writer'.inode = file.inode
      BY <1>1, <1>7, <2>2, <2>4
    <3>2. writer'.inode <= file'.inode
      BY <2>1, <2>2, <3>1
    <3> QED
      BY <1>1, <1>3, <1>4, <1>5, <2>1, <3>1, <3>2, <1>0 DEF WriterShape
  <2> QED
    BY <2>3, <2>4
<1>8. CASE writer' = Idle /\ UNCHANGED file
  BY <1>2, <1>4, <1>5, <1>8, <1>0 DEF WriterShape
<1> QED
  BY <1>6, <1>7, <1>8 DEF Record

(* The next operation a trim writes anew is a copy of one that was there.  *)
LEMMA ReplayedOp ==
  ASSUME Shape, ReplayOne
  PROVE  ops[Head(writer.rest)].of \in Nat
<1>1. writer \in [at : {"replay"}, rest : Seq(1..Len(ops)) \ {<< >>}]
  BY DEF ReplayOne, Shape, WriterShape, Idle
<1>2. Head(writer.rest) \in 1..Len(ops)
  BY <1>1, HeadTailProperties
<1>3. ops \in Seq(Linkable)
  BY DEF Shape, LogShape, Linked
<1>4. ops[Head(writer.rest)] \in Linkable
  BY <1>2, <1>3, ElementOfSeq
<1> QED
  BY <1>4 DEF Linkable

LEMMA StepShape == Shape /\ [ReadersNext]_readersVars => Shape'
<1> SUFFICES ASSUME Shape, [ReadersNext]_readersVars PROVE Shape'
  OBVIOUS
<1>0. LogShape' /\ WriterShape' /\ RestShape' => Shape'
  BY DEF Shape, RestShape
<1> DEFINE n == Len(ops)
           File == [head : 0..n, ids : SUBSET Nat, whole : BOOLEAN, inode : Nat]
<1>1. /\ n \in Nat /\ LogShape /\ WriterShape /\ RestShape
      /\ tip \in 0..n /\ file \in File
  BY WalksOf DEF Shape, LogShape, RestShape
<1>2. Domain \subseteq 1..n /\ Domain \subseteq Nat /\ 1..n \subseteq Nat
  BY <1>1, DomainIs
(* A step that leaves the log alone and writes a file of its type.         *)
<1>3. ASSUME UNCHANGED <<ops, trash, reader, watch>>, file' \in File
      PROVE  RestShape'
  BY <1>1, <1>3 DEF RestShape, ReaderShape
<1>4. ASSUME UNCHANGED <<ops, tip, reached>> PROVE LogShape'
  BY <1>1, <1>4, LogStands
<1>5. CASE AppendOp \/ Note
  BY <1>5, AppendedShape DEF AppendOp, Note
<1>6. CASE Record
  BY <1>6, RecordShape
<1>7. CASE Header
  <2>1. /\ file' = IF file.inode = writer.inode THEN [file EXCEPT !.head = tip] ELSE file
        /\ writer' = Idle /\ UNCHANGED <<ops, tip, reached, trash, reader, watch>>
    BY <1>7 DEF Header
  <2>2. file' \in File
    BY <1>1, <2>1
  <2> QED
    BY <1>3, <1>4, <2>1, <2>2, <1>0 DEF WriterShape
<1>8. CASE Move
  <2>1. PICK to \in Domain : tip' = to /\ reached' = reached \cup {to}
    BY <1>8 DEF Move
  <2>2. writer' = [at |-> "refresh"] /\ UNCHANGED <<ops, trash, file, reader, watch>>
    BY <1>8 DEF Move
  <2>3. LogShape'
    BY <1>1, <2>1, <2>2, LogMoves
  <2> QED
    BY <1>1, <1>3, <2>2, <2>3, <1>0 DEF WriterShape
<1>9. CASE Refresh
  <2>1. file' = Written(tip, Domain) /\ writer' = Idle
        /\ UNCHANGED <<ops, tip, reached, trash, reader, watch>>
    BY <1>9 DEF Refresh
  <2>2. file' \in File
    BY <1>1, <1>2, <2>1 DEF Written
  <2> QED
    BY <1>3, <1>4, <2>1, <2>2, <1>0 DEF WriterShape
<1>10. CASE Trim
  <2>1. /\ tip # 0 /\ trash' = tip
        /\ UNCHANGED <<ops, tip, reached, file, reader, watch>>
    BY <1>10 DEF Trim
  <2>2. PICK kept \in 0 .. Len(Chain(tip)) - 1 : writer' = [at |-> "drop", kept |-> kept]
    BY <1>10 DEF Trim
  <2>3. Len(Chain(tip)) \in Nat
    BY <1>1, WalksOf
  <2>4. kept \in 0..Len(Chain(tip)) /\ Chain(tip)' = Chain(tip)
    BY <2>1, <2>3 DEF Chain
  <2>5. WriterShape'
    BY <2>1, <2>2, <2>4 DEF WriterShape
  <2>6. RestShape'
    BY <1>1, <2>1 DEF RestShape, ReaderShape
  <2> QED
    BY <1>4, <2>1, <2>5, <2>6, <1>0
<1>11. CASE Drop
  <2>1. /\ tip' = 0 /\ reached' = {}
        /\ UNCHANGED <<ops, trash, file, reader, watch>>
    BY <1>11 DEF Drop
  <2>2. LogShape'
    BY <1>1, <2>1, LogDropped
  <2>3. RestShape'
    BY <1>1, <1>3, <2>1
  <2> DEFINE s == Chain(tip)
             rest == SubSeq(s, Len(s) - writer.kept + 1, Len(s))
  <2>4. writer.kept \in 0..Len(s)
    BY <1>1, <1>11 DEF Drop, WriterShape, Idle
  <2>5. writer' = IF writer.kept = 0 THEN Idle ELSE [at |-> "replay", rest |-> rest]
    BY <1>11 DEF Drop
  <2>6. s \in Seq(1..n)
    <3>1. s \in Seq(1..tip) /\ 1..tip \subseteq 1..n
      BY <1>1, WalksOf
    <3> HIDE DEF s
    <3> QED
      BY <3>1, SeqMonotone
  <2>7. CASE writer.kept = 0
    BY <2>2, <2>3, <2>5, <2>7, <1>0 DEF WriterShape
  <2>8. CASE writer.kept # 0
    <3>1. rest \in Seq(1..n) /\ rest # << >>
      <4> DEFINE k == writer.kept
      <4>1. k \in 1..Len(s) /\ Len(s) \in Nat
        BY <2>4, <2>6, <2>8
      <4>2. rest = SubSeq(s, Len(s) - k + 1, Len(s))
        OBVIOUS
      <4> HIDE DEF k, s, rest
      <4>3. Len(s) - k + 1 \in 1..Len(s)
        BY <4>1
      <4>4. rest \in Seq(1..n) /\ Len(rest) = k
        BY <2>6, <4>1, <4>2, <4>3
      <4> QED
        BY <4>1, <4>4
    <3> HIDE DEF rest
    <3>2. writer' \in [at : {"replay"}, rest : Seq(1..Len(ops')) \ {<< >>}]
      BY <2>1, <2>5, <2>8, <3>1
    <3> QED
      BY <2>2, <2>3, <3>2, <1>0 DEF WriterShape
  <2> QED
    BY <2>7, <2>8
<1>12. CASE ReplayOne
  <2> DEFINE of == ops[Head(writer.rest)].of
  <2>1. writer \in [at : {"replay"}, rest : Seq(1..n) \ {<< >>}]
    BY <1>1, <1>12 DEF ReplayOne, WriterShape, Idle
  <2>2. Head(writer.rest) \in 1..n /\ Tail(writer.rest) \in Seq(1..n)
    BY <2>1, HeadTailProperties
  <2>3. of \in Nat
    BY <1>12, ReplayedOp
  <2>4. /\ ops' = Append(ops, [prev |-> tip, of |-> of])
        /\ tip' = n + 1 /\ reached' = reached \cup {n + 1}
        /\ UNCHANGED <<trash, file, reader, watch>>
    BY <1>12 DEF ReplayOne
  <2> HIDE DEF of
  <2>5. LogShape' /\ Len(ops') = n + 1
    BY <1>1, <2>3, <2>4, LogGrows
  <2>6. RestShape'
    BY <2>4, <2>5, RestGrows
  <2>7. CASE Len(writer.rest) = 1
    <3>1. writer' = Idle
      BY <1>12, <2>7 DEF ReplayOne
    <3> QED
      BY <2>5, <2>6, <3>1, <1>0 DEF WriterShape
  <2>8. CASE Len(writer.rest) # 1
    <3>1. writer' = [writer EXCEPT !.rest = Tail(@)]
      BY <1>12, <2>8 DEF ReplayOne
    <3>2. Tail(writer.rest) # << >>
      <4>1. PICK r \in Seq(1..n) : r # << >> /\ writer.rest = r /\ Len(r) # 1
        BY <2>1, <2>8
      <4>2. Len(Tail(r)) = Len(r) - 1 /\ Len(r) \in Nat /\ Len(r) # 0
        BY <4>1
      <4>3. Len(Tail(r)) # 0
        BY <4>1, <4>2
      <4> QED
        BY <4>1, <4>3, EmptySeq
    <3>3. Tail(writer.rest) \in Seq(1..Len(ops'))
      <4>1. 1..n \subseteq 1..(n + 1)
        BY <1>1
      <4> QED
        BY <2>2, <2>5, <4>1, SeqMonotone
    <3>4. writer' \in [at : {"replay"}, rest : Seq(1..Len(ops')) \ {<< >>}]
      BY <2>1, <3>1, <3>2, <3>3
    <3> QED
      BY <2>5, <2>6, <3>4, <1>0 DEF WriterShape
  <2> QED
    BY <2>7, <2>8
<1>13. CASE Kill
  <2>1. UNCHANGED <<ops, tip, reached, trash, file, reader, watch>>
    BY <1>13 DEF Kill
  <2>2. WriterShape'
    <3>1. CASE writer' = Idle
      BY <3>1 DEF WriterShape
    <3>2. CASE UNCHANGED writer
      BY <1>1, <2>1, <3>2, WriterStands
    <3> QED
      BY <1>13, <3>1, <3>2 DEF Kill
  <2> QED
    BY <1>1, <1>3, <1>4, <2>1, <2>2, <1>0
<1>14. ASSUME UNCHANGED <<ops, tip, reached, trash, writer, watch>>, ReaderShape',
              file' \in File, file.inode <= file'.inode
       PROVE  Shape'
  <2>1. RestShape'
    BY <1>1, <1>14 DEF RestShape
  <2>2. WriterShape'
    BY <1>14, WriterStands
  <2> QED
    BY <1>4, <1>14, <2>1, <2>2, <1>0
<1>15. CASE Rebuild
  <2>1. reader' = [at |-> "walk", tip |-> tip] /\ tip # 0
        /\ UNCHANGED <<ops, tip, reached, trash, file, writer, watch>>
    BY <1>15 DEF Rebuild
  <2>2. ReaderShape'
    BY <1>1, <2>1 DEF ReaderShape
  <2> QED
    BY <1>1, <1>14, <2>1, <2>2
<1>16. CASE ReadDomain
  <2>1. reader' = [at |-> "write", tip |-> reader.tip, ids |-> Domain]
        /\ UNCHANGED <<ops, tip, reached, trash, file, writer, watch>>
    BY <1>16 DEF ReadDomain
  <2>2. reader.tip \in 1..n
    BY <1>1, <1>16 DEF ReadDomain, RestShape, ReaderShape, Idle
  <2>3. ReaderShape'
    BY <1>2, <2>1, <2>2 DEF ReaderShape
  <2> QED
    BY <1>1, <1>14, <2>1, <2>3
<1>17. CASE WriteRebuilt
  <2>1. file' = Written(reader.tip, reader.ids) /\ reader' = Idle
        /\ UNCHANGED <<ops, tip, reached, trash, writer, watch>>
    BY <1>17 DEF WriteRebuilt
  <2>2. reader \in [at : {"write"}, tip : 1..n, ids : SUBSET Nat]
    BY <1>1, <1>17 DEF WriteRebuilt, RestShape, ReaderShape, Idle
  <2>3. file' \in File /\ file.inode <= file'.inode
    BY <1>1, <2>1, <2>2 DEF Written
  <2> QED
    BY <1>14, <2>1, <2>3 DEF ReaderShape
<1>18. CASE TickReadsTrash \/ TickReadsTip
  <2>1. UNCHANGED <<ops, tip, reached, trash, file, writer, reader>>
    BY <1>18 DEF TickReadsTrash, TickReadsTip
  <2>2. watch' \in [at : {"idle", "tip"}, trash : 0..n, seen : 0..n, seenTrash : 0..n]
    BY <1>1, <1>18 DEF TickReadsTrash, TickReadsTip, RestShape
  <2>3. RestShape'
    BY <1>1, <2>1, <2>2 DEF RestShape, ReaderShape
  <2>4. WriterShape'
    BY <1>1, <2>1, WriterStands
  <2> QED
    BY <1>4, <2>1, <2>3, <2>4, <1>0
<1>19. CASE UNCHANGED readersVars
  <2>1. UNCHANGED <<ops, tip, reached, trash, file, writer, reader, watch>>
    BY <1>19 DEF readersVars
  <2> QED
    BY <1>1, <1>14, <2>1 DEF RestShape, ReaderShape
<1> QED
  BY <1>5, <1>6, <1>7, <1>8, <1>9, <1>10, <1>11, <1>12, <1>13, <1>15, <1>16, <1>17, <1>18, <1>19 DEF ReadersNext

-----------------------------------------------------------------------------
(***************************************************************************)
(* What the index holds.                                                   *)
(***************************************************************************)

(* Steps that leave the log, the file and what is about to be written.     *)
LEMMA IndexStands ==
  ASSUME IndexInv, UNCHANGED <<ops, tip, reached, file>>,
         UNCHANGED reader \/ reader'.at # "write",
         UNCHANGED writer \/ writer'.at # "header"
  PROVE  IndexInv'
<1>1. Domain' = Domain
  BY LogStands
<1> QED
  BY <1>1 DEF IndexInv

(* Steps that put an operation on the log.                                 *)
LEMMA IndexGrows ==
  ASSUME Shape, IndexInv, NEW of \in Nat,
         ops' = Append(ops, [prev |-> tip, of |-> of]),
         tip' = Len(ops) + 1,
         reached' = reached \cup {Len(ops) + 1},
         UNCHANGED <<file, reader>>, writer'.at # "header"
  PROVE  IndexInv'
<1> DEFINE n == Len(ops)
<1>1. /\ n \in Nat
      /\ \A i \in 0..n : BelowIn(ops', i) = BelowIn(ops, i)
      /\ Domain' = Domain \cup {n + 1}
  BY LogGrows DEF Shape, Below, BelowIn, Chain
<1>2. ASSUME NEW head \in 0..n, NEW ids, Fits(ops, Domain, head, ids)
      PROVE  Fits(ops', Domain', head, ids)
  <2>1. head # n + 1
    BY <1>1
  <2> QED
    BY <1>1, <1>2, <2>1 DEF Fits
<1>3. file.head \in 0..n
  BY DEF Shape
<1>4. reader.at = "write" => reader.tip \in 0..n
  BY <1>1 DEF Shape, ReaderShape, Idle
<1> QED
  BY <1>2, <1>3, <1>4 DEF IndexInv

(* A file written anew that fits what it names.                            *)
LEMMA IndexWritten ==
  ASSUME Shape, IndexInv, UNCHANGED <<ops, tip, reached>>,
         NEW head, NEW ids, Fits(ops, Domain, head, ids),
         file' = Written(head, ids),
         UNCHANGED reader \/ reader'.at # "write",
         UNCHANGED writer \/ writer'.at # "header"
  PROVE  IndexInv'
<1>1. Domain' = Domain
  BY LogStands
<1>2. file'.head = head /\ file'.ids = ids
  BY DEF Written
<1>3. file'.inode = file.inode + 1 /\ file.inode \in Nat
  BY DEF Written, Shape
<1>4. ~(writer'.at = "header" /\ writer'.inode = file'.inode)
  <2>1. CASE writer'.at # "header"
    BY <2>1
  <2>2. CASE writer' = writer /\ writer.at = "header"
    <3>1. writer.inode \in Nat /\ writer.inode <= file.inode
      BY <2>2 DEF Shape, WriterShape, Idle
    <3> QED
      BY <1>3, <2>2, <3>1
  <2> QED
    BY <2>1, <2>2
<1> QED
  BY <1>1, <1>2, <1>4 DEF IndexInv

(* The tip of a log fits what is below the tip before it and itself.       *)
LEMMA TipFits ==
  ASSUME Shape, tip # 0
  PROVE  /\ tip \in Domain
         /\ BelowIn(ops, tip) = BelowIn(ops, ops[tip].prev) \cup {tip}
         /\ BelowIn(ops, tip) \subseteq Domain
         /\ ops[tip].prev # 0 => ops[tip].prev \in Domain
<1>1. LogShape /\ tip \in 1..Len(ops) /\ Len(ops) \in Nat
  BY WalksOf DEF Shape, LogShape
<1>2. tip \in Domain /\ Below(tip) \subseteq Domain
  BY <1>1, DomainIs
<1>3. ops[tip].prev \in 0..Len(ops)
  BY <1>1 DEF LogShape, Linked
<1>4. Below(tip) = Below(ops[tip].prev) \cup {tip}
  BY <1>1, WalksOf
<1>5. ops[tip].prev # 0 => ops[tip].prev \in Below(ops[tip].prev)
  <2>1. \A i \in 0..Len(ops) : i # 0 => i \in Below(i)
    BY <1>1, WalksOf
  <2> QED
    BY ONLY <1>3, <2>1
<1> QED
  BY <1>2, <1>4, <1>5 DEF Below, BelowIn, Chain

LEMMA StepIndex == Shape /\ IndexInv /\ [ReadersNext]_readersVars => IndexInv'
<1> SUFFICES ASSUME Shape, IndexInv, [ReadersNext]_readersVars PROVE IndexInv'
  OBVIOUS
<1>1. /\ LogShape /\ Len(ops) \in Nat /\ Domain \subseteq 1..Len(ops)
      /\ \A i \in Domain : Below(i) \subseteq Domain
  BY WalksOf, DomainIs DEF Shape
<1>2. CASE AppendOp \/ Note
  <2>1. Appended
    BY <1>2 DEF AppendOp, Note
  <2>2. Len(ops) + 1 \in Nat
    BY <1>1
  <2>3. /\ ops' = Append(ops, [prev |-> tip, of |-> Len(ops) + 1])
        /\ tip' = Len(ops) + 1 /\ reached' = reached \cup {Len(ops) + 1}
        /\ UNCHANGED <<file, reader>> /\ writer'.at # "header"
    BY <2>1 DEF Appended
  <2> QED
    BY <2>2, <2>3, IndexGrows
<1>3. CASE Record
  <2>1. /\ writer \in [at : {"record"}, prev : 0..Len(ops), inode : Nat]
        /\ tip # 0 /\ ops[tip].prev = writer.prev
    <3>1. WriterShape /\ writer.at = "record"
      BY <1>3 DEF Shape, Record
    <3> QED
      BY <3>1 DEF WriterShape, Idle
  <2>2. UNCHANGED <<ops, tip, reached, reader>>
    BY <1>3 DEF Record
  <2>3. CASE writer.prev = 0 /\ file' = Written(tip, {tip}) /\ writer' = Idle
    <3>1. BelowIn(ops, tip) = {tip} /\ tip \in Domain
      <4>1. BelowIn(ops, 0) = {}
        BY <1>1, WalksOf DEF Below, BelowIn, Chain
      <4> QED
        BY <2>1, <2>3, <4>1, TipFits
    <3>2. Fits(ops, Domain, tip, {tip})
      BY <3>1 DEF Fits
    <3> QED
      BY <2>2, <2>3, <3>2, IndexWritten DEF Idle
  <2>4. ASSUME writer.prev # 0, Verifies(file, writer.prev),
               NEW torn \in BOOLEAN,
               file' = [file EXCEPT !.ids = IF torn THEN @ ELSE @ \cup {tip}, !.whole = ~torn],
               writer' = [writer EXCEPT !.at = IF torn THEN "torn" ELSE "header", !.inode = file.inode]
        PROVE  IndexInv'
    <3>1. Domain' = Domain
      BY <2>2, LogStands
    <3> DEFINE ids == IF torn THEN file.ids ELSE file.ids \cup {tip}
               whole == ~torn
    <3>2. /\ file' = [file EXCEPT !.ids = ids, !.whole = whole]
          /\ writer'.at = IF torn THEN "torn" ELSE "header"
          /\ writer'.prev = writer.prev
      BY <2>1, <2>4
    <3>3. whole <=> ~torn
      OBVIOUS
    <3>4. ~torn => ids = file.ids \cup {tip}
      OBVIOUS
    <3> HIDE DEF ids, whole
    <3>5. file'.ids = ids /\ file'.head = file.head /\ (file'.whole = whole)
      BY <3>2 DEF Shape
    <3>6. reader.at = "write" => Fits(ops, Domain, reader.tip, reader.ids)
      BY DEF IndexInv
    <3>7. CASE torn
      BY <2>2, <3>1, <3>2, <3>3, <3>5, <3>6, <3>7 DEF IndexInv
    <3>8. CASE ~torn
      <4>1. file.whole /\ file.head = writer.prev
        BY <2>4 DEF Verifies
      <4>2. Fits(ops, Domain, file.head, file.ids)
        BY <4>1 DEF IndexInv
      <4>3. Fits(ops, Domain, file.head, ids)
        BY <2>1, <3>4, <3>8, <4>2, TipFits DEF Fits
      <4> QED
        BY <2>2, <3>1, <3>2, <3>3, <3>4, <3>5, <3>6, <3>8, <4>1, <4>3 DEF IndexInv
    <3> QED
      BY <3>7, <3>8
  <2>5. CASE writer' = Idle /\ UNCHANGED file
    BY <2>2, <2>5, IndexStands DEF Idle
  <2> QED
    BY <1>3, <2>3, <2>4, <2>5 DEF Record
<1>4. CASE Header
  <2>1. /\ writer \in [at : {"header"}, prev : 1..Len(ops), inode : Nat]
        /\ tip # 0 /\ ops[tip].prev = writer.prev
    BY <1>4 DEF Shape, WriterShape, Header, Idle
  <2>2. UNCHANGED <<ops, tip, reached, reader>> /\ writer' = Idle
    BY <1>4 DEF Header
  <2>3. CASE file.inode = writer.inode
    <3>1. /\ file.whole /\ file.head = writer.prev /\ tip \in file.ids
          /\ Fits(ops, Domain, file.head, file.ids)
      BY <2>1, <2>3 DEF IndexInv
    <3>2. Fits(ops, Domain, tip, file.ids)
      <4>1. writer.prev # 0
        BY <2>1
      <4> QED
        BY <2>1, <3>1, <4>1, TipFits DEF Fits
    <3>3. file'.head = tip /\ file'.ids = file.ids
      BY <1>4, <2>3 DEF Header, Shape
    <3>4. Domain' = Domain /\ writer'.at # "header"
      BY <2>2, LogStands DEF Idle
    <3> QED
      BY <2>2, <3>2, <3>3, <3>4 DEF IndexInv
  <2>4. CASE file.inode # writer.inode
    BY <1>4, <2>2, <2>4, IndexStands DEF Header, Idle
  <2> QED
    BY <2>3, <2>4
<1>5. CASE Move
  <2>1. PICK to \in Domain : tip' = to /\ reached' = reached \cup {to}
    BY <1>5 DEF Move
  <2>2. writer' = [at |-> "refresh"] /\ UNCHANGED <<ops, file, reader>>
    BY <1>5 DEF Move
  <2>3. Domain' = Domain
    BY <1>1, <2>1, <2>2, LogMoves
  <2> QED
    BY <2>2, <2>3 DEF IndexInv
<1>6. CASE Refresh
  <2>1. file' = Written(tip, Domain) /\ writer' = Idle /\ UNCHANGED <<ops, tip, reached, reader>>
    BY <1>6 DEF Refresh
  <2>2. Fits(ops, Domain, tip, Domain)
    BY <1>1 DEF Fits, Below, BelowIn, Chain
  <2> QED
    BY <2>1, <2>2, IndexWritten DEF Idle
<1>7. CASE Trim
  <2>1. writer'.at = "drop" /\ UNCHANGED <<ops, tip, reached, file, reader>>
    BY <1>7 DEF Trim
  <2> QED
    BY <2>1, IndexStands
<1>8. CASE Drop
  <2>1. tip' = 0 /\ reached' = {} /\ UNCHANGED <<ops, file, reader>> /\ writer'.at # "header"
    BY <1>8 DEF Drop, Idle
  <2>2. Domain' = {}
    BY <1>1, <2>1, LogDropped
  <2> QED
    BY <2>1, <2>2 DEF IndexInv, Fits
<1>9. CASE ReplayOne
  <2> DEFINE of == ops[Head(writer.rest)].of
  <2>1. writer \in [at : {"replay"}, rest : Seq(1..Len(ops)) \ {<< >>}]
    BY <1>9 DEF ReplayOne, Shape, WriterShape, Idle
  <2>2. of \in Nat
    BY <1>9, ReplayedOp
  <2>3. /\ ops' = Append(ops, [prev |-> tip, of |-> of])
        /\ tip' = Len(ops) + 1 /\ reached' = reached \cup {Len(ops) + 1}
        /\ UNCHANGED <<file, reader>>
    BY <1>9 DEF ReplayOne
  <2>4. writer'.at # "header"
    BY <1>9, <2>1 DEF ReplayOne, Idle
  <2> HIDE DEF of
  <2> QED
    BY <2>2, <2>3, <2>4, IndexGrows
<1>10. CASE Kill
  <2>1. UNCHANGED <<ops, tip, reached, file, reader>> /\ (writer' = Idle \/ UNCHANGED writer)
    BY <1>10 DEF Kill
  <2> QED
    BY <2>1, IndexStands DEF Idle
<1>11. CASE Rebuild
  <2>1. UNCHANGED <<ops, tip, reached, file, writer>> /\ reader'.at = "walk"
    BY <1>11 DEF Rebuild
  <2> QED
    BY <2>1, IndexStands
<1>12. CASE ReadDomain
  <2>1. reader' = [at |-> "write", tip |-> reader.tip, ids |-> Domain]
        /\ UNCHANGED <<ops, tip, reached, file, writer>>
    BY <1>12 DEF ReadDomain
  <2>2. Fits(ops, Domain, reader.tip, Domain)
    BY <1>1 DEF Fits, Below, BelowIn, Chain
  <2>3. Domain' = Domain /\ reader'.tip = reader.tip /\ reader'.ids = Domain
    BY <2>1, LogStands
  <2> QED
    BY <2>1, <2>2, <2>3 DEF IndexInv
<1>13. CASE WriteRebuilt
  <2>1. file' = Written(reader.tip, reader.ids) /\ reader' = Idle
        /\ UNCHANGED <<ops, tip, reached, writer>>
    BY <1>13 DEF WriteRebuilt
  <2>2. Fits(ops, Domain, reader.tip, reader.ids)
    BY <1>13 DEF WriteRebuilt, IndexInv
  <2> QED
    BY <2>1, <2>2, IndexWritten DEF Idle
<1>14. CASE TickReadsTrash \/ TickReadsTip \/ UNCHANGED readersVars
  <2>1. UNCHANGED <<ops, tip, reached, file, reader, writer>>
    BY <1>14 DEF TickReadsTrash, TickReadsTip, readersVars
  <2> QED
    BY <2>1, IndexStands
<1> QED
  BY <1>2, <1>3, <1>4, <1>5, <1>6, <1>7, <1>8, <1>9, <1>10, <1>11, <1>12, <1>13, <1>14 DEF ReadersNext

LEMMA InitShape == ReadersInit => Shape /\ IndexInv
<1> SUFFICES ASSUME ReadersInit PROVE Shape /\ IndexInv
  OBVIOUS
<1> DEFINE e == [prev |-> 0, of |-> 1]
<1>1. e \in Linkable /\ e.prev = 0
  BY DEF Linkable
<1> HIDE DEF e
<1>2. ops = <<e>>
  BY DEF ReadersInit, e
<1>3. ops \in Seq(Linkable) /\ Len(ops) = 1 /\ ops[1] = e
  BY <1>1, <1>2
<1>4. Linked(ops)
  BY <1>1, <1>3 DEF Linked
<1>5. tip = 1 /\ reached = {1} /\ trash = 0
      /\ file = [head |-> 1, ids |-> {1}, whole |-> TRUE, inode |-> 1]
      /\ writer = Idle /\ reader = Idle
      /\ watch = [at |-> "idle", trash |-> 0, seen |-> 1, seenTrash |-> 0]
  BY DEF ReadersInit
<1>6. LogShape
  BY <1>3, <1>4, <1>5 DEF LogShape
<1>7. Shape
  BY <1>3, <1>5, <1>6 DEF Shape, WriterShape, ReaderShape
<1>8. Domain = {1} /\ BelowIn(ops, 1) = {1}
  <2>1. BelowIn(ops, 0) = {} /\ BelowIn(ops, 1) = BelowIn(ops, ops[1].prev) \cup {1}
    BY <1>3, <1>4, BelowFacts
  <2>2. BelowIn(ops, 1) = {1}
    BY <1>1, <1>3, <2>1
  <2>3. Domain = UNION {Below(i) : i \in {1}}
    BY <1>5, <1>6, DomainIs
  <2> QED
    BY <2>2, <2>3 DEF Below, BelowIn, Chain
<1>9. IndexInv
  BY <1>5, <1>8 DEF IndexInv, Fits, Idle
<1> QED
  BY <1>7, <1>9

(* Every reader, writer and file is as the steps leave them: a whole index *)
(* file holds all at and below the operation its header names, and what a  *)
(* reader carries between two of its steps was the log when it read it     *)
(* (ops/index.rs, watch.rs).                                               *)
THEOREM ReadersInvariant == ReadersSpec => []FilesInv
<1>1. FilesInv /\ [ReadersNext]_readersVars => FilesInv'
  BY StepShape, StepIndex DEF FilesInv
<1>2. ReadersInit => FilesInv
  BY InitShape DEF FilesInv
<1> QED
  BY <1>1, <1>2, PTL DEF ReadersSpec

(* What a walk from i to j below it passes on the way.                     *)
LEMMA AboveIs ==
  ASSUME LogShape, NEW i \in 0..Len(ops), NEW j \in Below(i)
  PROVE  LET s == Chain(i)
             k == Len(Chain(j))
         IN /\ s \in Seq(1..Len(ops)) /\ Len(s) \in Nat
            /\ k \in 1..Len(s) /\ s[k] = j
            /\ Chain(j) = SubSeq(s, 1, k)
            /\ Above(i, j) \in Seq(1..Len(ops))
            /\ Len(Above(i, j)) = Len(s) - k
            /\ \A m \in 1..(Len(s) - k) : Above(i, j)[m] = s[k + m]
<1> DEFINE n == Len(ops)
           s == Chain(i)
<1>1. /\ n \in Nat
      /\ \A k \in 1..Len(s) : Chain(s[k]) = SubSeq(s, 1, k)
  BY ChainFacts DEF LogShape, Chain
<1>2. s \in Seq(1..n)
  <2>1. s \in Seq(1..i) /\ 1..i \subseteq 1..n
    BY <1>1, WalksOf
  <2> HIDE DEF s
  <2> QED
    BY <2>1, SeqMonotone
<1>3. PICK k \in 1..Len(s) : s[k] = j
  <2>1. j \in {s[m] : m \in DOMAIN s}
    BY ToSetIs DEF Below
  <2> HIDE DEF s
  <2> QED
    BY <1>2, <2>1
<1>4. Chain(j) = SubSeq(s, 1, k)
  BY <1>1, <1>3
<1>5. Above(i, j) = SubSeq(s, Len(Chain(j)) + 1, Len(s))
  BY DEF Above
<1> HIDE DEF s, n
<1>6. Len(s) \in Nat /\ Len(SubSeq(s, 1, k)) = k
  BY <1>2
<1>7. Above(i, j) = SubSeq(s, k + 1, Len(s))
  BY <1>4, <1>5, <1>6
<1>8. /\ SubSeq(s, k + 1, Len(s)) \in Seq(1..n)
      /\ Len(SubSeq(s, k + 1, Len(s))) = Len(s) - k
      /\ \A m \in 1..(Len(s) - k) : SubSeq(s, k + 1, Len(s))[m] = s[k + m]
  <2>1. k \in 0..Len(s)
    BY <1>3, <1>6
  <2> QED
    BY ONLY <1>2, <2>1, SeqEnd
<1> QED
  BY <1>2, <1>3, <1>4, <1>6, <1>7, <1>8 DEF s, n

LEMMA AnswerHolds == FilesInv => IndexHoldsTheLog
<1> SUFFICES ASSUME FilesInv, tip # 0, InSync(tip) \/ Behind(tip)
             PROVE  Below(tip) \subseteq Answer(tip) /\ Answer(tip) \subseteq Domain
  BY DEF IndexHoldsTheLog, Answers, Below
<1>1. /\ Shape /\ LogShape /\ tip \in 0..Len(ops)
      /\ tip \in Domain /\ Below(tip) \subseteq Domain
  BY TipFits DEF FilesInv, Shape, LogShape, Below, BelowIn, Chain
<1>2. CASE InSync(tip)
  <2>1. Fits(ops, Domain, tip, file.ids)
    BY <1>2 DEF InSync, Verifies, FilesInv, IndexInv
  <2> QED
    BY <1>1, <1>2, <2>1 DEF Fits, Answer, Below, BelowIn, Chain
<1>3. CASE ~InSync(tip)
  <2> DEFINE h == file.head
             s == Chain(tip)
             k == Len(Chain(h))
             up == Above(tip, h)
  <2>1. file.whole /\ h \in Below(tip)
    BY <1>3 DEF Behind, Reaches, Below
  <2>2. Fits(ops, Domain, h, file.ids) /\ h \in Domain
    BY <1>1, <2>1 DEF FilesInv, IndexInv
  <2>3. Below(h) \subseteq file.ids /\ file.ids \subseteq Domain
    BY <2>2 DEF Fits, Below, BelowIn, Chain
  <2>4. Answer(tip) = file.ids \cup ToSet(up)
    BY <1>3 DEF Answer
  <2>5. /\ s \in Seq(1..Len(ops)) /\ Len(s) \in Nat
        /\ k \in 1..Len(s)
        /\ Chain(h) = SubSeq(s, 1, k)
        /\ up \in Seq(1..Len(ops)) /\ Len(up) = Len(s) - k
        /\ \A m \in 1..(Len(s) - k) : up[m] = s[k + m]
    BY <1>1, <2>1, AboveIs
  <2>6. Below(tip) = ToSet(s) /\ Below(h) = ToSet(Chain(h))
    BY DEF Below
  <2> HIDE DEF s, k, up, h
  <2>7. /\ ToSet(s) = {s[m] : m \in 1..Len(s)}
        /\ ToSet(up) = {up[m] : m \in 1..(Len(s) - k)}
    <3>1. DOMAIN s = 1..Len(s) /\ DOMAIN up = 1..(Len(s) - k)
      BY <2>5
    <3> QED
      BY ONLY <3>1, ToSetIs
  <2>8. ToSet(Chain(h)) = {s[m] : m \in 1..k}
    <3>1. DOMAIN SubSeq(s, 1, k) = 1..k /\ \A m \in 1..k : SubSeq(s, 1, k)[m] = s[m]
      BY <2>5
    <3>2. ToSet(SubSeq(s, 1, k)) = {SubSeq(s, 1, k)[m] : m \in 1..k}
      BY ONLY <3>1, ToSetIs
    <3> QED
      BY ONLY <2>5, <3>1, <3>2
  <2>9. ToSet(up) \subseteq ToSet(s)
    <3> SUFFICES ASSUME NEW m \in 1..(Len(s) - k) PROVE up[m] \in ToSet(s)
      BY <2>7
    <3>1. k + m \in 1..Len(s)
      BY <2>5
    <3> QED
      BY <2>5, <2>7, <3>1
  <2>10. ToSet(s) \subseteq ToSet(Chain(h)) \cup ToSet(up)
    <3> SUFFICES ASSUME NEW m \in 1..Len(s) PROVE s[m] \in ToSet(Chain(h)) \cup ToSet(up)
      BY <2>7
    <3>1. CASE m <= k
      BY <2>5, <2>8, <3>1
    <3>2. CASE m > k
      <4>1. m - k \in 1..(Len(s) - k) /\ k + (m - k) = m
        <5>1. Len(s) \in Nat /\ k \in 1..Len(s)
          BY <2>5
        <5> QED
          BY ONLY <3>2, <5>1, m \in 1..Len(s)
      <4>2. up[m - k] = s[k + (m - k)]
        BY <2>5, <4>1
      <4> QED
        BY <2>7, <4>1, <4>2
    <3> QED
      BY <2>5, <3>1, <3>2
  <2> QED
    BY <1>1, <2>3, <2>4, <2>6, <2>9, <2>10
<1> QED
  BY <1>2, <1>3

(* Whatever an unlocked reader gets from the index file holds every        *)
(* operation of the log and calls live nothing a trim has taken off it,    *)
(* for every interleaving of appends, moves, trims, rebuilds and kills,    *)
(* torn writes included (IndexHoldsTheLog).                                *)
THEOREM IndexIsSound == ReadersSpec => []IndexHoldsTheLog
  BY ReadersInvariant, AnswerHolds, PTL

-----------------------------------------------------------------------------
(***************************************************************************)
(* What a subscriber makes of a tick.                                      *)
(***************************************************************************)

(* Motions are followed one after the other: what is right after each is   *)
(* right after all.                                                        *)
LEMMA FollowedAs ==
  ASSUME NEW line, NEW ms, Len(ms) \in Nat,
         NEW g, g = [k \in 0..Len(ms) |-> g[k]],
         g[0] = line, \A k \in 1..Len(ms) : g[k] = Follow(g[k - 1], ms[k])
  PROVE  FollowAll(line, ms) = g[Len(ms)]
<1> DEFINE after[k \in 0..Len(ms)] == IF k = 0 THEN line ELSE Follow(after[k - 1], ms[k])
           T == {k \in 0..Len(ms) : after[k] = g[k]}
<1>1. FollowAll(line, ms) = after[Len(ms)]
  BY DEF FollowAll
<1>2. g = [k \in 0..Len(ms) |-> IF k = 0 THEN line ELSE Follow(g[k - 1], ms[k])]
  <2>1. \A k \in 0..Len(ms) : g[k] = IF k = 0 THEN line ELSE Follow(g[k - 1], ms[k])
    OBVIOUS
  <2> QED
    BY <2>1
<1>3. after = [k \in 0..Len(ms) |-> IF k = 0 THEN line ELSE Follow(after[k - 1], ms[k])]
  BY <1>2
<1> HIDE DEF after
<1>4. /\ after[0] = line
      /\ \A k \in 1..Len(ms) : after[k] = Follow(after[k - 1], ms[k])
  <2>1. 0 \in 0..Len(ms) /\ \A k \in 1..Len(ms) : k \in 0..Len(ms) /\ k # 0
    OBVIOUS
  <2> QED
    BY <1>3, <2>1
<1>5. ASSUME NEW k \in 0..Len(ms), \A j \in 0..Len(ms) : j < k => j \in T
      PROVE  k \in T
  <2>1. CASE k = 0
    BY <1>4, <2>1
  <2>2. CASE k # 0
    <3>1. k \in 1..Len(ms) /\ k - 1 \in 0..Len(ms) /\ k - 1 < k
      BY <2>2
    <3>2. after[k - 1] = g[k - 1]
      BY <1>5, <3>1
    <3>3. after[k] = Follow(after[k - 1], ms[k]) /\ g[k] = Follow(g[k - 1], ms[k])
      BY <1>4, <3>1
    <3> QED
      BY <3>2, <3>3
  <2> QED
    BY <2>1, <2>2
<1>6. 0..Len(ms) \subseteq T
  <2> HIDE DEF T
  <2> QED
    BY <1>5, AllNumbers
<1>7. Len(ms) \in T
  BY <1>6
<1> QED
  BY <1>1, <1>7

LEMMA FollowOne ==
  ASSUME NEW line, NEW m
  PROVE  FollowAll(line, <<m>>) = Follow(line, m)
<1> DEFINE g == [k \in 0..1 |-> IF k = 0 THEN line ELSE Follow(line, m)]
<1>1. Len(<<m>>) = 1 /\ <<m>>[1] = m
  OBVIOUS
<1>2. g[0] = line /\ g[1] = Follow(line, m) /\ g = [k \in 0..1 |-> g[k]]
  OBVIOUS
<1>3. \A k \in 1..1 : k = 1
  OBVIOUS
<1> HIDE DEF g
<1>4. \A k \in 1..1 : g[k] = Follow(g[k - 1], <<m>>[k])
  BY <1>1, <1>2, <1>3
<1> QED
  BY <1>1, <1>2, <1>4, FollowedAs

LEMMA FollowNone ==
  ASSUME NEW line
  PROVE  FollowAll(line, << >>) = line
<1> DEFINE g == [k \in 0..0 |-> line]
<1>1. Len(<< >>) = 0 /\ g[0] = line /\ g = [k \in 0..0 |-> g[k]]
  OBVIOUS
<1>2. \A k \in 1..0 : g[k] = Follow(g[k - 1], << >>[k])
  OBVIOUS
<1> HIDE DEF g
<1> QED
  BY <1>1, <1>2, FollowedAs

(* Without a log, nothing but a new log is followed.                       *)
LEMMA FollowUnknown ==
  ASSUME NEW ms, Len(ms) \in Nat, \A k \in 1..Len(ms) : ms[k].motion # "rewritten"
  PROVE  FollowAll(Unknown, ms) = Unknown
<1> DEFINE g == [k \in 0..Len(ms) |-> Unknown]
<1>1. g[0] = Unknown /\ g[Len(ms)] = Unknown /\ g = [k \in 0..Len(ms) |-> g[k]]
  OBVIOUS
<1>2. \A k \in 1..Len(ms) : g[k] = Unknown /\ g[k - 1] = Unknown
  OBVIOUS
<1> HIDE DEF g
<1>3. \A k \in 1..Len(ms) : g[k] = Follow(g[k - 1], ms[k])
  BY <1>2 DEF Follow
<1> QED
  BY <1>1, <1>3, FollowedAs

(* A walk with something on it is not taken for no log at all.             *)
LEMMA KnownPart ==
  ASSUME NEW n \in Nat, NEW s \in Seq(1..n), NEW k \in 1..Len(s)
  PROVE  SubSeq(s, 1, k) # Unknown
<1>1. s[1] \in 1..n /\ SubSeq(s, 1, k)[1] = s[1]
  BY ElementOfSeq
<1>2. Unknown[1] = 0 /\ 0 \notin 1..n
  BY DEF Unknown
<1> QED
  BY <1>1, <1>2

(* The motions ms, of which the first brings line to the first b + 1       *)
(* operations of the walk s and the others each add the next.              *)
Along(n, s, b, line, ms) ==
  /\ n \in Nat /\ s \in Seq(1..n) /\ b \in 1..Len(s)
  /\ Len(ms) = Len(s) - b
  /\ Len(ms) # 0 => Follow(line, ms[1]) = SubSeq(s, 1, b + 1)
  /\ Len(ms) = 0 => line = s
  /\ \A k \in 2..Len(ms) : ms[k].motion = "landed" /\ ms[k].op = s[b + k]

(* Operations that landed one after the other bring a line along a walk.   *)
LEMMA FollowAlong ==
  ASSUME NEW n, NEW s, NEW b, NEW line, NEW ms, Along(n, s, b, line, ms)
  PROVE  FollowAll(line, ms) = s
<1>0. /\ n \in Nat /\ s \in Seq(1..n) /\ b \in 1..Len(s)
      /\ Len(ms) = Len(s) - b
      /\ Len(ms) # 0 => Follow(line, ms[1]) = SubSeq(s, 1, b + 1)
      /\ Len(ms) = 0 => line = s
      /\ \A k \in 2..Len(ms) : ms[k].motion = "landed" /\ ms[k].op = s[b + k]
  BY DEF Along
<1> DEFINE l == Len(ms)
           g == [k \in 0..l |-> IF k = 0 THEN line ELSE SubSeq(s, 1, b + k)]
<1>1. l \in Nat /\ b \in Nat /\ b >= 1 /\ b + l = Len(s) /\ Len(s) \in Nat
  BY <1>0
<1>2. g[0] = line /\ g = [k \in 0..l |-> g[k]]
      /\ \A k \in 1..l : g[k] = SubSeq(s, 1, b + k)
  BY <1>1
<1> HIDE DEF g, l
<1>3. ASSUME NEW k \in 1..l PROVE g[k] = Follow(g[k - 1], ms[k])
  <2>1. CASE k = 1
    <3>0. k - 1 = 0 /\ l # 0 /\ b + k = b + 1
      BY <1>1, <2>1
    <3>1. g[k - 1] = line /\ l # 0 /\ g[k] = SubSeq(s, 1, b + 1)
      BY <1>2, <2>1, <3>0
    <3> QED
      BY <1>0, <2>1, <3>1 DEF l
  <2>2. CASE k # 1
    <3>1. k \in 2..l /\ k - 1 \in 1..l /\ b + (k - 1) \in 1..Len(s) /\ b + k \in 1..Len(s)
          /\ b + k = (b + (k - 1)) + 1
      BY <1>1, <2>2
    <3>2. g[k - 1] = SubSeq(s, 1, b + (k - 1)) /\ g[k] = SubSeq(s, 1, b + k)
      BY <1>2, <3>1
    <3>3. g[k - 1] # Unknown
      BY <1>0, <3>1, <3>2, KnownPart
    <3>4. ms[k].motion = "landed" /\ ms[k].op = s[b + k]
      BY <1>0, <3>1 DEF l
    <3>5. Follow(g[k - 1], ms[k]) = Append(g[k - 1], s[b + k])
      BY <3>3, <3>4 DEF Follow
    <3> DEFINE m == b + (k - 1)
    <3>6. m \in Nat /\ m + 1 \in 1..Len(s) /\ m \in 1..Len(s) /\ b + k = m + 1
      BY <3>1
    <3> HIDE DEF m
    <3>7. Append(SubSeq(s, 1, m), s[m + 1]) = SubSeq(s, 1, m + 1)
      BY <1>0, <3>6
    <3> QED
      BY <3>2, <3>5, <3>6, <3>7 DEF m
  <2> QED
    BY <2>1, <2>2
<1>4. FollowAll(line, ms) = g[l]
  BY <1>1, <1>2, <1>3, FollowedAs DEF l
<1>5. CASE l = 0
  BY <1>0, <1>2, <1>4, <1>5 DEF l
<1>6. CASE l # 0
  <2>1. l \in 1..l
    BY <1>1, <1>6
  <2>2. g[l] = SubSeq(s, 1, Len(s))
    BY <1>1, <1>2, <2>1
  <2>3. SubSeq(s, 1, Len(s)) = s
    BY <1>0, SubSeqFull
  <2> QED
    BY <1>4, <2>2, <2>3
<1> QED
  BY <1>5, <1>6

LEMMA LandedIs ==
  ASSUME NEW S, NEW ids \in Seq(S)
  PROVE  /\ Len(Landed(ids)) = Len(ids) /\ Len(ids) \in Nat
         /\ \A k \in 1..Len(ids) : Landed(ids)[k] = [motion |-> "landed", op |-> ids[k]]
<1> DEFINE n == Len(ids)
<1>1. n \in Nat /\ DOMAIN ids = 1..n /\ \A k \in 1..n : ids[k] \in S
  BY LenProperties, ElementOfSeq
<1> HIDE DEF n
<1>2. Landed(ids) = [k \in 1..n |-> [motion |-> "landed", op |-> ids[k]]]
  BY <1>1 DEF Landed
<1>3. Landed(ids) \in [1..n -> [motion : {"landed"}, op : S]]
  BY <1>1, <1>2
<1>4. Landed(ids) \in Seq([motion : {"landed"}, op : S])
  <2> DEFINE R == [motion : {"landed"}, op : S]
  <2> HIDE DEF R
  <2>1. \A f : f \in [1..n -> R] => f \in Seq(R)
    BY <1>1, SeqDef
  <2> QED
    BY <1>3, <2>1 DEF R
<1>5. Len(Landed(ids)) = n
  BY <1>1, <1>2, <1>4
<1> QED
  BY <1>1, <1>2, <1>4, <1>5 DEF n

(* What landed above an operation brings its walk to the one it is told of.*)
LEMMA FollowLanded ==
  ASSUME LogShape, NEW i \in 0..Len(ops), NEW j \in Below(i)
  PROVE  FollowAll(Chain(j), Landed(Above(i, j))) = Chain(i)
<1> DEFINE n == Len(ops)
           s == Chain(i)
           b == Len(Chain(j))
           ids == Above(i, j)
           ms == Landed(ids)
<1>1. n \in Nat
  BY WalksOf
<1>2. /\ s \in Seq(1..n) /\ Len(s) \in Nat
      /\ b \in 1..Len(s)
      /\ Chain(j) = SubSeq(s, 1, b)
      /\ ids \in Seq(1..n)
      /\ Len(ids) = Len(s) - b
      /\ \A m \in 1..(Len(s) - b) : ids[m] = s[b + m]
  BY AboveIs
<1> HIDE DEF ids, n, b, s
<1>3. /\ Len(ms) = Len(ids)
      /\ \A k \in 1..Len(ids) : ms[k] = [motion |-> "landed", op |-> ids[k]]
  BY <1>2, LandedIs
<1> HIDE DEF ms
<1>4. \A k \in 1..Len(ms) : ms[k].motion = "landed" /\ ms[k].op = s[b + k]
  <2> SUFFICES ASSUME NEW k \in 1..Len(ms)
               PROVE  ms[k].motion = "landed" /\ ms[k].op = s[b + k]
    OBVIOUS
  <2>1. ms[k] = [motion |-> "landed", op |-> ids[k]] /\ ids[k] = s[b + k]
    BY ONLY <1>2, <1>3, k \in 1..Len(ms)
  <2> QED
    BY <2>1
<1>5. ASSUME Len(ms) # 0 PROVE Follow(Chain(j), ms[1]) = SubSeq(s, 1, b + 1)
  <2>1. 1 \in 1..Len(ms) /\ b + 1 \in 1..Len(s) /\ b \in Nat
    BY <1>2, <1>3, <1>5
  <2>2. Chain(j) # Unknown
    BY <1>1, <1>2, KnownPart
  <2>3. Follow(Chain(j), ms[1]) = Append(SubSeq(s, 1, b), s[b + 1])
    BY <1>2, <1>4, <2>1, <2>2 DEF Follow
  <2>4. Append(SubSeq(s, 1, b), s[b + 1]) = SubSeq(s, 1, b + 1)
    BY <1>2, <2>1
  <2> QED
    BY <2>3, <2>4
<1>6. ASSUME Len(ms) = 0 PROVE Chain(j) = s
  <2>1. b = Len(s)
    BY <1>2, <1>3, <1>6
  <2> QED
    BY <1>2, <2>1, SubSeqFull
<1>7. Len(ms) = Len(s) - b /\ \A k \in 2..Len(ms) : k \in 1..Len(ms)
  BY <1>2, <1>3
<1>8. \A k \in 2..Len(ms) : ms[k].motion = "landed" /\ ms[k].op = s[b + k]
  BY ONLY <1>4, <1>7
<1> DEFINE line == Chain(j)
<1> HIDE DEF line
<1>9. /\ Len(ms) # 0 => Follow(line, ms[1]) = SubSeq(s, 1, b + 1)
      /\ Len(ms) = 0 => line = s
  BY <1>5, <1>6 DEF line
<1>10. Along(n, s, b, line, ms)
  BY <1>1, <1>2, <1>7, <1>8, <1>9 DEF Along
<1>11. FollowAll(line, ms) = s
  BY <1>10, FollowAlong
<1> QED
  BY <1>11 DEF line, ms, ids, s

(* A subscriber that is told how far back the log went has its walk.       *)
LEMMA FollowBack ==
  ASSUME LogShape, NEW i \in 0..Len(ops), NEW j \in Below(i)
  PROVE  FollowAll(Chain(i), <<[motion |-> "back", over |-> Len(Above(i, j))]>>) = Chain(j)
<1> DEFINE n == Len(ops)
           s == Chain(i)
           b == Len(Chain(j))
           over == Len(Above(i, j))
<1>1. n \in Nat
  BY WalksOf
<1>2. /\ s \in Seq(1..n) /\ Len(s) \in Nat
      /\ b \in 1..Len(s)
      /\ Chain(j) = SubSeq(s, 1, b)
      /\ over = Len(s) - b
  BY AboveIs
<1> HIDE DEF over, n, b, s
<1>3. Len(s) - over = b
  BY <1>2
<1>4. s # Unknown
  <2>1. Len(s) \in 1..Len(s) /\ SubSeq(s, 1, Len(s)) = s
    BY <1>2, SubSeqFull
  <2> QED
    BY <1>1, <1>2, <2>1, KnownPart
<1>5. Follow(s, [motion |-> "back", over |-> over]) = SubSeq(s, 1, b)
  BY <1>3, <1>4 DEF Follow
<1> QED
  BY <1>2, <1>5, FollowOne DEF s, over

(* What a log knows up to an operation is the walk from there.             *)
LEMMA UpToIs ==
  ASSUME LogShape, NEW i \in 0..Len(ops), NEW j \in Below(i)
  PROVE  UpTo(Chain(i), j) = Chain(j)
<1> DEFINE s == Chain(i)
           P(k) == k \in DOMAIN s /\ s[k] = j
<1>1. \A k \in 1..Len(s) : Chain(s[k]) = SubSeq(s, 1, k)
  BY ChainFacts DEF LogShape, Chain
<1>2. s \in Seq(1..i)
  BY WalksOf
<1>3. \E k : P(k)
  BY ToSetIs DEF Below
<1>4. UpTo(s, j) = SubSeq(s, 1, CHOOSE k \in DOMAIN s : s[k] = j)
  BY DEF UpTo
<1>5. PICK k : k = (CHOOSE m \in DOMAIN s : s[m] = j) /\ P(k)
  <2>1. \E m \in DOMAIN s : s[m] = j
    BY <1>3
  <2> HIDE DEF s
  <2> QED
    BY <2>1
<1> HIDE DEF s
<1>6. k \in 1..Len(s) /\ s[k] = j
  BY <1>2, <1>5
<1> QED
  BY <1>1, <1>4, <1>5, <1>6 DEF s

LEMMA ForkedIs ==
  ASSUME NEW S, NEW i, NEW f, Above(i, f) \in Seq(S), Above(i, f) # << >>
  PROVE  /\ Len(Above(i, f)) \in Nat /\ Len(Above(i, f)) # 0
         /\ Len(Forked(i, f)) = Len(Above(i, f))
         /\ Forked(i, f)[1] = [motion |-> "forked", from |-> f, op |-> Above(i, f)[1]]
         /\ \A k \in 2..Len(Above(i, f)) :
              Forked(i, f)[k] = [motion |-> "landed", op |-> Above(i, f)[k]]
<1> DEFINE ids == Above(i, f)
           ms == Forked(i, f)
           m1 == [motion |-> "forked", from |-> f, op |-> ids[1]]
           rest == Landed(Tail(ids))
<1>2. ids \in Seq(S)
  OBVIOUS
<1>3. ids # << >>
  OBVIOUS
<1>6. ms = <<m1>> \o rest
  BY DEF Forked
<1> HIDE DEF ids
<1>8. Len(ids) \in Nat /\ Len(ids) # 0
  BY <1>2, <1>3, EmptySeq
<1>9. /\ Tail(ids) \in Seq(S) /\ Len(Tail(ids)) = Len(ids) - 1
      /\ \A k \in 1..(Len(ids) - 1) : Tail(ids)[k] = ids[k + 1]
  BY <1>2, <1>3, HeadTailProperties
<1> DEFINE tl == Tail(ids)
<1>10. /\ Len(rest) = Len(ids) - 1
       /\ \A k \in 1..(Len(ids) - 1) : rest[k] = [motion |-> "landed", op |-> ids[k + 1]]
  <2> HIDE DEF rest
  <2>1. Len(rest) = Len(tl) /\ \A k \in 1..Len(tl) : rest[k] = [motion |-> "landed", op |-> tl[k]]
    BY <1>9, LandedIs DEF rest
  <2> QED
    BY <1>9, <2>1
<1>11. rest = [k \in 1..(Len(ids) - 1) |-> rest[k]]
  <2>1. DOMAIN Tail(ids) = 1..(Len(ids) - 1)
    BY <1>9, LenProperties
  <2> QED
    BY <2>1 DEF Landed
<1> HIDE DEF m1, rest, ms
<1>12. Len(ms) = Len(ids) /\ ms[1] = m1
       /\ \A k \in 2..Len(ids) : ms[k] = rest[k - 1]
  <2> DEFINE R == {m1} \cup {rest[k] : k \in 1..(Len(ids) - 1)}
  <2>1. rest \in Seq(R) /\ <<m1>> \in Seq(R)
    <3>1. Len(ids) - 1 \in Nat
      BY <1>8
    <3>2. rest \in [1..(Len(ids) - 1) -> R]
      BY <1>11
    <3> HIDE DEF R
    <3>3. \A g : g \in [1..(Len(ids) - 1) -> R] => g \in Seq(R)
      BY <3>1, SeqDef
    <3>4. m1 \in R
      BY DEF R
    <3> QED
      BY <3>2, <3>3, <3>4
  <2> HIDE DEF R
  <2>2. /\ Len(<<m1>> \o rest) = Len(<<m1>>) + Len(rest)
        /\ \A k \in 1..(Len(<<m1>>) + Len(rest)) :
             (<<m1>> \o rest)[k] = IF k <= Len(<<m1>>) THEN <<m1>>[k] ELSE rest[k - Len(<<m1>>)]
    BY <2>1, ConcatProperties
  <2>3. Len(<<m1>>) = 1 /\ <<m1>>[1] = m1
    OBVIOUS
  <2>4. 1 + Len(rest) = Len(ids)
    BY <1>8, <1>10
  <2>5. Len(ms) = Len(ids) /\ \A k \in 1..Len(ids) : ms[k] = IF k <= 1 THEN m1 ELSE rest[k - 1]
    <3>1. \A k \in 1..Len(ids) : k <= 1 => k = 1
      BY <1>8
    <3> QED
      BY ONLY <1>6, <2>2, <2>3, <2>4, <3>1
  <2>6. 1 \in 1..Len(ids) /\ \A k \in 2..Len(ids) : k \in 1..Len(ids) /\ ~(k <= 1)
    BY <1>8
  <2> QED
    BY <2>5, <2>6
<1>13. ASSUME NEW k \in 2..Len(ids) PROVE ms[k] = [motion |-> "landed", op |-> ids[k]]
  <2>1. k - 1 \in 1..(Len(ids) - 1) /\ (k - 1) + 1 = k
    BY <1>8
  <2>2. rest[k - 1] = [motion |-> "landed", op |-> ids[(k - 1) + 1]]
    BY <1>10, <2>1
  <2> QED
    BY <1>12, <2>1, <2>2
<1> QED
  BY <1>8, <1>12, <1>13 DEF ids, m1, ms

(* A fork is followed from the operation both logs have.                   *)
LEMMA FollowForked ==
  ASSUME LogShape, NEW i \in 0..Len(ops), NEW other \in 0..Len(ops),
         NEW f, f \in Below(i), f \in Below(other), Above(i, f) # << >>
  PROVE  FollowAll(Chain(other), Forked(i, f)) = Chain(i)
<1> DEFINE n == Len(ops)
           s == Chain(i)
           b == Len(Chain(f))
           ids == Above(i, f)
           line == Chain(other)
           ms == Forked(i, f)
           m1 == [motion |-> "forked", from |-> f, op |-> ids[1]]
<1>1. n \in Nat
  BY WalksOf
<1>2. /\ s \in Seq(1..n) /\ Len(s) \in Nat
      /\ b \in 1..Len(s)
      /\ Chain(f) = SubSeq(s, 1, b)
      /\ ids \in Seq(1..n)
      /\ Len(ids) = Len(s) - b
      /\ \A m \in 1..(Len(s) - b) : ids[m] = s[b + m]
  BY AboveIs
<1>3. ids # << >>
  OBVIOUS
<1>4. UpTo(line, f) = Chain(f)
  BY UpToIs
<1>5. line # Unknown
  <2>1. other # 0
    BY WalksOf
  <2>2. line \in Seq(1..other) /\ Len(line) # 0
    BY <2>1, ChainFacts DEF LogShape, Chain
  <2> HIDE DEF line
  <2>3. Len(line) \in 1..Len(line) /\ SubSeq(line, 1, Len(line)) = line
    BY <2>2, SubSeqFull
  <2> QED
    BY <1>1, <2>2, <2>3, KnownPart
<1> HIDE DEF n
<1>8. Len(ids) \in Nat /\ Len(ids) # 0
      /\ Len(ms) = Len(ids) /\ ms[1] = m1
      /\ \A k \in 2..Len(ids) : ms[k] = [motion |-> "landed", op |-> ids[k]]
  <2>1. Above(i, f) \in Seq(1..n) /\ Above(i, f) # << >>
    BY <1>2
  <2> QED
    BY ONLY <2>1, ForkedIs
<1> HIDE DEF s, b, ids, line
<1>7. Follow(line, m1) = Append(SubSeq(s, 1, b), ids[1])
  BY <1>2, <1>4, <1>5 DEF Follow
<1> HIDE DEF m1, ms
<1>13. \A k \in 2..Len(ms) : ms[k].motion = "landed" /\ ms[k].op = s[b + k]
  <2> SUFFICES ASSUME NEW k \in 2..Len(ids)
               PROVE  ms[k].motion = "landed" /\ ms[k].op = s[b + k]
    BY <1>8
  <2>1. k \in 1..(Len(s) - b)
    BY <1>2, <1>8
  <2>2. ms[k] = [motion |-> "landed", op |-> ids[k]] /\ ids[k] = s[b + k]
    BY ONLY <1>2, <1>8, <2>1, k \in 2..Len(ids)
  <2> QED
    BY <2>2
<1>14. Append(SubSeq(s, 1, b), ids[1]) = SubSeq(s, 1, b + 1)
  <2>1. 1 \in 1..(Len(s) - b) /\ b + 1 \in 1..Len(s) /\ b \in Nat
    BY <1>2, <1>8
  <2>2. ids[1] = s[b + 1]
    BY <1>2, <2>1
  <2> QED
    BY <1>2, <2>1, <2>2
<1>15. Along(n, s, b, line, ms)
  <2>1. Len(ms) = Len(s) - b /\ Len(ms) # 0
    BY <1>2, <1>8
  <2>2. Follow(line, ms[1]) = SubSeq(s, 1, b + 1)
    BY <1>7, <1>8, <1>14 DEF ms
  <2> QED
    BY <1>1, <1>2, <1>13, <2>1, <2>2 DEF Along
<1>16. FollowAll(line, ms) = s
  BY <1>15, FollowAlong
<1> QED
  BY <1>16 DEF line, ms, s

(* A fork point lies on both logs.                                         *)
LEMMA ForkPointIs ==
  ASSUME LogShape, NEW i \in 0..Len(ops), NEW other \in 0..Len(ops),
         ForkPoint(i, other) # 0
  PROVE  ForkPoint(i, other) \in Below(i) /\ ForkPoint(i, other) \in Below(other)
<1> DEFINE n == Len(ops)
           joins == Joins(i, other)
           c == Chain(other)
           a == IF Len(c) > Cap THEN Len(c) - Cap ELSE 0
<1>1. n \in Nat /\ c \in Seq(1..other) /\ Below(i) \subseteq 1..i
  BY WalksOf
<1>2. Newest(other) \subseteq Below(other)
  <2>1. a \in 0..Len(c) /\ (IF Len(c) > Cap THEN Len(c) - Cap + 1 ELSE 1) = a + 1
        /\ Len(c) \in Nat
    BY <1>1, ReadersAssumption
  <2> DEFINE e == SubSeq(c, a + 1, Len(c))
  <2>2. Newest(other) = ToSet(e)
    BY <2>1 DEF Newest
  <2> HIDE DEF c, a
  <2>3. /\ e \in Seq(1..other) /\ Len(e) = Len(c) - a
        /\ \A m \in 1..(Len(c) - a) : e[m] = c[a + m]
    BY <1>1, <2>1, SeqEnd
  <2> HIDE DEF e
  <2>4. ASSUME NEW k \in DOMAIN e PROVE e[k] \in Below(other)
    <3>1. k \in 1..(Len(c) - a)
      BY <2>3, LenProperties
    <3>2. a + k \in 1..Len(c) /\ e[k] = c[a + k]
      <4>1. e[k] = c[a + k]
        BY ONLY <2>3, <3>1
      <4>2. a \in Nat /\ Len(c) \in Nat
        BY <2>1
      <4> QED
        BY ONLY <3>1, <4>1, <4>2
    <3>3. c[a + k] \in ToSet(c)
      BY <1>1, <3>2, ToSetIs
    <3> QED
      BY <3>2, <3>3 DEF c, Below
  <2> QED
    BY <2>2, <2>4, ToSetIs
<1>3. joins # {} /\ ForkPoint(i, other) = CHOOSE f \in joins : \A g \in joins : g <= f
  BY DEF ForkPoint
<1>4. joins \subseteq Below(i) /\ joins \subseteq Below(other)
  BY <1>2 DEF Joins, Below
<1>5. joins \subseteq 0..n
  <2>1. 1..i \subseteq 0..n
    BY <1>1
  <2> QED
    BY <1>1, <1>4, <2>1
<1> HIDE DEF joins, n
<1>6. \E f \in joins : \A g \in joins : g <= f
  BY <1>1, <1>3, <1>5, GreatestNumber
<1>7. ForkPoint(i, other) \in joins
  BY <1>3, <1>6
<1> QED
  BY <1>4, <1>7

(* One tick of the stream: the rules of classify_in, one by one.           *)
LEMMA TickFollows ==
  ASSUME LogShape, NEW seen \in 0..Len(ops), NEW parked, seen = watch.seen,
         told # Unknown => told = Chain(seen),
         seen = 0 => told = Unknown
  PROVE  LET line == FollowAll(told, Classify(tip, parked))
         IN (line # Unknown => line = Chain(tip)) /\ (tip = 0 => line = Unknown)
<1> DEFINE ms == Classify(tip, parked)
           line == FollowAll(told, ms)
           Holds(to) == (to # Unknown => to = Chain(tip)) /\ (tip = 0 => to = Unknown)
           from == ForkPoint(tip, seen)
<1>0. tip \in 0..Len(ops)
  BY DEF LogShape
<1>1. CASE seen = 0
  <2>1. ms = << >>
    BY <1>1 DEF Classify
  <2>2. line = told
    BY <2>1, FollowNone
  <2> QED
    BY <1>1, <2>2
<1>2. CASE seen # 0 /\ parked # watch.seenTrash
  <2>1. ms = Rewritten(tip)
    BY <1>2 DEF Classify
  <2>2. line = IF tip = 0 THEN Unknown ELSE Chain(tip)
    BY <2>1, FollowOne DEF Rewritten, Follow
  <2> QED
    BY <2>2
<1>3. CASE seen # 0 /\ parked = watch.seenTrash /\ tip = 0
  <2>1. ms = Rewritten(0)
    BY <1>3 DEF Classify
  <2>2. line = Unknown
    BY <2>1, FollowOne DEF Rewritten, Follow
  <2> QED
    BY <2>2
<1>4. CASE seen # 0 /\ parked = watch.seenTrash /\ tip # 0 /\ tip = seen
  <2>1. ms = << >>
    BY <1>4 DEF Classify
  <2>2. line = told
    BY <2>1, FollowNone
  <2> QED
    BY <1>4, <2>2
<1>5. CASE seen # 0 /\ parked = watch.seenTrash /\ tip # 0 /\ tip # seen
  <2>1. ms = IF Reaches(tip, seen) THEN Landed(Above(tip, seen))
             ELSE IF Reaches(seen, tip)
                  THEN <<[motion |-> "back", over |-> Len(Above(seen, tip))]>>
             ELSE IF from # 0 /\ Above(tip, from) # << >> THEN Forked(tip, from)
             ELSE Rewritten(tip)
    BY <1>5 DEF Classify
  <2>2. \A i, j : Reaches(i, j) => j \in Below(i)
    BY DEF Reaches, Below
  <2>3. CASE Reaches(tip, seen)
    <3>1. seen \in Below(tip)
      BY <2>2, <2>3
    <3>2. told # Unknown => line = Chain(tip)
      BY <1>0, <2>1, <2>3, <3>1, FollowLanded
    <3>3. told = Unknown => line = Unknown
      <4>1. Above(tip, seen) \in Seq(1..Len(ops))
        BY <1>0, <3>1, AboveIs
      <4> DEFINE ids == Above(tip, seen)
      <4>2. Len(ms) \in Nat /\ \A k \in 1..Len(ms) : ms[k].motion = "landed"
        <5>1. /\ Len(ms) \in Nat
              /\ \A k \in 1..Len(ms) : ms[k] = [motion |-> "landed", op |-> ids[k]]
          BY <2>1, <2>3, <4>1, LandedIs
        <5> HIDE DEF ms, ids
        <5>2. ASSUME NEW k \in 1..Len(ms) PROVE ms[k].motion = "landed"
          <6>1. ms[k] = [motion |-> "landed", op |-> ids[k]]
            BY <5>1
          <6> QED
            BY <6>1
        <5> QED
          BY <5>1, <5>2
      <4>3. \A k \in 1..Len(ms) : ms[k].motion # "rewritten"
        BY <4>2
      <4> HIDE DEF ms
      <4> QED
        BY <4>2, <4>3, FollowUnknown
    <3> QED
      BY <1>5, <3>2, <3>3
  <2>4. CASE ~Reaches(tip, seen) /\ Reaches(seen, tip)
    <3> DEFINE m == [motion |-> "back", over |-> Len(Above(seen, tip))]
    <3>1. tip \in Below(seen) /\ ms = <<m>>
      BY <2>1, <2>2, <2>4
    <3>2. told # Unknown => line = Chain(tip)
      BY <3>1, FollowBack
    <3>3. told = Unknown => line = Unknown
      BY <3>1, FollowOne DEF Follow
    <3> QED
      BY <1>5, <3>2, <3>3
  <2>5. CASE ~Reaches(tip, seen) /\ ~Reaches(seen, tip) /\ from # 0 /\ Above(tip, from) # << >>
    <3>1. from \in Below(tip) /\ from \in Below(seen) /\ ms = Forked(tip, from)
      BY <1>0, <2>1, <2>5, ForkPointIs
    <3>2. told # Unknown => line = Chain(tip)
      BY <1>0, <2>5, <3>1, FollowForked
    <3>3. told = Unknown => line = Unknown
      <4> DEFINE ids == Above(tip, from)
      <4>0. ids \in Seq(1..Len(ops))
        BY <1>0, <3>1, AboveIs
      <4>1. /\ Len(ms) \in Nat
            /\ ms[1] = [motion |-> "forked", from |-> from, op |-> ids[1]]
            /\ \A k \in 2..Len(ms) : ms[k] = [motion |-> "landed", op |-> ids[k]]
        BY <2>5, <3>1, <4>0, ForkedIs
      <4> HIDE DEF ms
      <4>2. \A k \in 1..Len(ms) : k = 1 \/ k \in 2..Len(ms)
        BY <4>1
      <4>3. ASSUME NEW k \in 1..Len(ms) PROVE ms[k].motion # "rewritten"
        <5> HIDE DEF ids
        <5>1. CASE k = 1
          <6>1. ms[k] = [motion |-> "forked", from |-> from, op |-> ids[1]]
            BY <4>1, <5>1
          <6> QED
            BY <6>1
        <5>2. CASE k \in 2..Len(ms)
          <6>1. ms[k] = [motion |-> "landed", op |-> ids[k]]
            BY <4>1, <5>2
          <6> QED
            BY <6>1
        <5> QED
          BY <4>2, <5>1, <5>2
      <4> QED
        BY <4>1, <4>3, FollowUnknown
    <3> QED
      BY <1>5, <3>2, <3>3
  <2>6. CASE ~Reaches(tip, seen) /\ ~Reaches(seen, tip) /\ ~(from # 0 /\ Above(tip, from) # << >>)
    <3>1. ms = Rewritten(tip)
      BY <2>1, <2>6
    <3>2. line = IF tip = 0 THEN Unknown ELSE Chain(tip)
      BY <3>1, FollowOne DEF Rewritten, Follow
    <3> QED
      BY <1>5, <3>2
  <2> QED
    BY <2>3, <2>4, <2>5, <2>6
<1> QED
  BY <1>1, <1>2, <1>3, <1>4, <1>5

(* Steps other than a tick leave the walk from what was seen alone.        *)
LEMMA StepStream == Shape /\ StreamInv /\ [ReadersNext]_readersVars => StreamInv'
<1> SUFFICES ASSUME Shape, StreamInv, [ReadersNext]_readersVars PROVE StreamInv'
  OBVIOUS
<1>1. LogShape /\ watch.seen \in 0..Len(ops) /\ Len(ops) \in Nat /\ Len(ops) + 1 \in Nat
  BY WalksOf DEF Shape
<1>2. CASE TickReadsTip
  <2>1. /\ told' = FollowAll(told, Classify(tip, watch.trash))
        /\ watch'.seen = tip /\ tip' = tip /\ ops' = ops
    BY <1>2 DEF TickReadsTip, Shape
  <2> DEFINE line == FollowAll(told, Classify(tip, watch.trash))
  <2>2. (line # Unknown => line = Chain(tip)) /\ (tip = 0 => line = Unknown)
    BY <1>1, TickFollows DEF StreamInv
  <2> HIDE DEF line
  <2>3. told' = line
    BY <2>1 DEF line
  <2>4. Chain(watch.seen)' = Chain(tip)
    BY <2>1 DEF Chain
  <2> QED
    BY <2>1, <2>2, <2>3, <2>4 DEF StreamInv, Unknown
<1>3. ASSUME watch'.seen = watch.seen, told' = told,
             Chain(watch.seen)' = Chain(watch.seen)
      PROVE  StreamInv'
  BY <1>3 DEF StreamInv, Unknown
<1>4. ASSUME ops' = ops, watch'.seen = watch.seen, told' = told
      PROVE  StreamInv'
  <2>1. Chain(watch.seen)' = Chain(watch.seen)
    BY <1>4 DEF Chain
  <2> QED
    BY <1>3, <1>4, <2>1
<1>5. ASSUME NEW of \in Nat, UNCHANGED <<watch, told>>,
             ops' = Append(ops, [prev |-> tip, of |-> of]),
             tip' = Len(ops) + 1, reached' = reached \cup {Len(ops) + 1}
      PROVE  StreamInv'
  <2>1. \A i \in 0..Len(ops) : ChainIn(ops', i) = ChainIn(ops, i)
    BY <1>1, <1>5, LogGrows DEF Chain
  <2>2. Chain(watch.seen)' = Chain(watch.seen)
    BY <1>1, <1>5, <2>1 DEF Chain
  <2> QED
    BY <1>3, <1>5, <2>2
<1>6. CASE AppendOp \/ Note
  <2>1. Appended
    BY <1>6 DEF AppendOp, Note
  <2> QED
    BY <1>1, <1>5, <2>1 DEF Appended
<1>7. CASE ReplayOne
  <2>1. /\ ops' = Append(ops, [prev |-> tip, of |-> ops[Head(writer.rest)].of])
        /\ tip' = Len(ops) + 1 /\ reached' = reached \cup {Len(ops) + 1}
        /\ UNCHANGED <<watch, told>>
    BY <1>7 DEF ReplayOne
  <2>2. ops[Head(writer.rest)].of \in Nat
    BY <1>7, ReplayedOp
  <2> QED
    BY <1>5, <2>1, <2>2
<1>8. CASE TickReadsTrash
  BY <1>4, <1>8 DEF TickReadsTrash, Shape
<1>9. CASE Record \/ Header \/ Move \/ Refresh \/ Trim \/ Drop \/ Kill
  BY <1>4, <1>9 DEF Record, Header, Move, Refresh, Trim, Drop, Kill
<1>10. CASE Rebuild \/ ReadDomain \/ WriteRebuilt \/ UNCHANGED readersVars
  BY <1>4, <1>10 DEF Rebuild, ReadDomain, WriteRebuilt, readersVars
<1> QED
  BY <1>2, <1>6, <1>7, <1>8, <1>9, <1>10 DEF ReadersNext

(* The subscriber has the log the last tick read, or was told it is gone.  *)
LEMMA InitStream == ReadersInit => StreamInv
<1> SUFFICES ASSUME ReadersInit PROVE StreamInv
  OBVIOUS
<1>1. Linked(ops) /\ Len(ops) = 1 /\ ops[1].prev = 0
  BY InitShape DEF ReadersInit, Shape, LogShape
<1>2. 1 \in 1..Len(ops)
  BY <1>1
<1>3. Chain(1) = Append(Chain(0), 1) /\ Chain(0) = << >>
  BY <1>1, <1>2, ChainFacts DEF Chain
<1>4. Append(<< >>, 1) = <<1>>
  OBVIOUS
<1>5. Chain(1) = <<1>>
  BY <1>3, <1>4
<1> QED
  BY <1>5 DEF ReadersInit, StreamInv

(* A subscriber that follows the motions of the watch stream has the log   *)
(* of the tip the last tick read, whatever was undone, redone, trimmed or  *)
(* forked between two ticks, and between the two refs one tick reads; it   *)
(* has none only after it was told that the log is gone                    *)
(* (SubscriberFollows).                                                    *)
THEOREM SubscriberHasTheLog == ReadersSpec => []SubscriberFollows
<1>1. ReadersInit => Shape /\ StreamInv
  BY InitShape, InitStream
<1>2. (Shape /\ StreamInv) /\ [ReadersNext]_readersVars => (Shape /\ StreamInv)'
  BY StepShape, StepStream
<1>3. Shape /\ StreamInv => SubscriberFollows
  BY DEF StreamInv, SubscriberFollows
<1> QED
  BY <1>1, <1>2, <1>3, PTL DEF ReadersSpec
==============================================================================
