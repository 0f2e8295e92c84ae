------------------------ MODULE RecipeExecutor_proofs ------------------------
(***************************************************************************)
(* The apply loop over the pool, for any items, languages, slots, program  *)
(* and failures: type correctness; that no forward write is in flight      *)
(* while or after the push is rolled back; that tolerated failures do not  *)
(* abort a push; that the result of a push that ends is final; that the    *)
(* snapshot cache, written through before the calls are made, neither      *)
(* misleads a plan nor keeps a field from its last value; and that the     *)
(* unwind of an aborted push puts back what the push found.                *)
(***************************************************************************)
EXTENDS RecipeExecutor, WritePool_proofs

(* What each place of the loop has at hand.                                *)
AtHand ==
    /\ pc = "plan" => cur \in Request
    /\ pc = "dispatch" => ops # <<>>
    /\ pc = "rollback" => cursor <= Len(applied)

IInv == PoolInv /\ LoopTypeOK /\ CacheTypeOK /\ AtHand /\ DrainedBeforeRollback

-----------------------------------------------------------------------------
(* Snapshots.                                                              *)

LEMMA ConstantFacts ==
    /\ Shared \in Langs /\ Default \in Langs
    /\ 1 \in Versions /\ Versions \subseteq Nat
    /\ Blank \in Values
  BY PoolAssumption, ExecutorAssumption DEF Versions

LEMMA RemoteType ==
    ASSUME PoolInv, CacheTypeOK, NEW i \in Items
    PROVE  Remote(i) \in Snapshot \cup {None}
<1>1. <<i, Shared>> \in Stacks /\ <<i, Default>> \in Stacks
  BY ConstantFacts DEF Stacks
<1>2. cell \in [Stacks -> [Versions -> Values]]
  BY DEF PoolInv, ResultsInv
<1>3. cell[<<i, Shared>>][1] \in Known
  BY <1>1, <1>2, ConstantFacts DEF Known
<1>4. (IF top[<<i, Default>>] \in Versions
       THEN cell[<<i, Default>>][top[<<i, Default>>]] ELSE None) \in Known
  BY <1>1, <1>2 DEF Known
<1>5. NoTags \in [Locales -> [Versions -> Known]]
  BY DEF NoTags, Known
<1>6. WireRead(i) \in Snapshot
  BY <1>3, <1>4, <1>5 DEF WireRead, Snapshot
<1> QED  BY <1>6 DEF Remote, CacheTypeOK

LEMMA FindPriorValueType ==
    ASSUME NEW sn \in Snapshot, NEW l \in Langs, NEW v \in Versions
    PROVE  FindPriorValue(sn, l, v) \in Values
<1>1. sn.shared \in Known
  BY DEF Snapshot
<1>2. l # Shared => sn.tag[l][v] \in Known
  BY DEF Snapshot, Locales
<1> QED  BY <1>1, <1>2, ConstantFacts DEF FindPriorValue, Known

LEMMA WriteThroughType ==
    ASSUME NEW sn \in Snapshot, NEW l \in Langs, NEW v \in Versions, NEW x \in Values
    PROVE  WriteThrough(sn, l, v, x) \in Snapshot
<1>1. x \in Known
  BY DEF Known
<1>2. CASE l = Shared
  BY <1>1, <1>2 DEF WriteThrough, Snapshot
<1>3. CASE l # Shared
  <2>1. sn.tag \in [Locales -> [Versions -> Known]] /\ l \in Locales
    BY <1>3 DEF Snapshot, Locales
  <2>2. [sn.tag EXCEPT ![l][v] = x] \in [Locales -> [Versions -> Known]]
    BY <1>1, <2>1
  <2>3. WriteThrough(sn, l, v, x) = [sn EXCEPT !.tag = [sn.tag EXCEPT ![l][v] = x]]
    BY <1>3 DEF WriteThrough, Snapshot
  <2> QED  BY <2>2, <2>3 DEF Snapshot
<1> QED  BY <1>2, <1>3

LEMMA SyntheticType ==
    ASSUME NEW x \in Values
    PROVE  Synthetic(x) \in Snapshot
  BY DEF Synthetic, Snapshot, NoTags, Known

-----------------------------------------------------------------------------
(* Steps of the loop that decide where to go and touch nothing else.       *)

(* While nothing is queued, no step of the pool is possible.               *)
LEMMA DrainedIsStill ==
    ASSUME PoolInv, Drained, NEW s \in Stacks
    PROVE  ~PoolStep(s)
<1>1. chain[s] = <<>> /\ at[s] = "idle"
  BY DEF Drained, Settled, PoolInv, StacksInv, HeadRuns
<1> QED  BY <1>1 DEF PoolStep, Proceed, Answer, SkipDoomed, AwaitSlot, StartNow,
                     Resume, Ready, AnswerMerged, AnswerSingle, AnswerAdd

LEMMA TurnKeeps ==
    ASSUME IInv, UNCHANGED <<vars, cacheVars, residue>>,
           pc' \in {"loop", "plan", "failing", "cancelling", "ending", "rollback", "done"},
           pc' = "plan" => cur' \in Request,
           cur' \in Request \cup {None},
           trigger' \in {"none", "apply-error", "plan-error", "cancelled"},
           cursor' \in 0 .. Len(applied) \/ (pc' # "rollback" /\ cursor' \in Nat),
           pc' \in {"rollback", "done"} /\ trigger' # "plan-error" => Drained
    PROVE  IInv'
<1>1. PoolInv'
  BY StutterKeeps DEF IInv
<1>2. Len(applied) \in Nat
  BY DEF IInv, PoolInv, ResultsInv
<1>3. LoopTypeOK' /\ AtHand'
  BY <1>2 DEF IInv, LoopTypeOK, AtHand, vars, poolVars
<1>4. CacheTypeOK'
  BY DEF IInv, CacheTypeOK, cacheVars
<1>5. DrainedBeforeRollback'
  BY DEF IInv, DrainedBeforeRollback, Drained, Settled, vars, poolVars
<1> QED  BY <1>1, <1>3, <1>4, <1>5 DEF IInv

LEMMA LoopTypes ==
    ASSUME IInv
    PROVE  /\ cur \in Request \cup {None}
           /\ trigger \in {"none", "apply-error", "plan-error", "cancelled"}
           /\ cursor \in Nat
           /\ Len(applied) \in Nat
           /\ Len(applied) \in 0 .. Len(applied)
  BY DEF IInv, LoopTypeOK, PoolInv, ResultsInv

LEMMA NextOpKeeps ==
    ASSUME IInv, NEW r \in Request, NextOp(r)
    PROVE  IInv'
<1>1. /\ pc' \in {"plan", "failing"} /\ (pc' = "plan" => cur' = r)
      /\ cur' \in {cur, r} /\ UNCHANGED <<vars, cacheVars, residue, trigger, cursor>>
  BY DEF NextOp
<1> QED  BY <1>1, LoopTypes, TurnKeeps

LEMMA TurningKeeps ==
    ASSUME IInv, Cancel \/ EndOfIr \/ PlanError \/ Drain \/ RollbackEnds
    PROVE  IInv'
<1>1. CASE Cancel \/ EndOfIr
  <2>1. /\ pc' \in {"cancelling", "ending"}
        /\ UNCHANGED <<vars, cacheVars, residue, cur, trigger, cursor>>
    BY <1>1 DEF Cancel, EndOfIr
  <2> QED  BY <2>1, LoopTypes, TurnKeeps
<1>2. CASE PlanError
  <2>1. /\ pc' = "rollback" /\ trigger' = "plan-error" /\ cursor' = Len(applied)
        /\ UNCHANGED <<vars, cacheVars, residue, cur>>
    BY <1>2 DEF PlanError, StartRollback
  <2> QED  BY <2>1, LoopTypes, TurnKeeps
<1>3. CASE DrainedFatal \/ DrainedCancelled
  <2>1. /\ pc' = "rollback" /\ trigger' \in {"apply-error", "cancelled"}
        /\ cursor' = Len(applied) /\ Drained
        /\ UNCHANGED <<vars, cacheVars, residue, cur>>
    BY <1>3 DEF DrainedFatal, DrainedCancelled, StartRollback
  <2> QED  BY <2>1, LoopTypes, TurnKeeps
<1>4. CASE DrainedEnd
  <2>1. /\ pc' = "done" /\ Drained
        /\ UNCHANGED <<vars, cacheVars, residue, cur, trigger, cursor>>
    BY <1>4 DEF DrainedEnd
  <2> QED  BY <2>1, LoopTypes, TurnKeeps
<1>5. CASE RollbackEnds
  <2>1. /\ pc = "rollback" /\ pc' = "done"
        /\ UNCHANGED <<vars, cacheVars, residue, cur, trigger, cursor>>
    BY <1>5 DEF RollbackEnds
  <2>2. trigger # "plan-error" => Drained
    BY <2>1 DEF IInv, DrainedBeforeRollback
  <2> QED  BY <2>1, <2>2, LoopTypes, TurnKeeps
<1> QED  BY <1>1, <1>2, <1>3, <1>4, <1>5 DEF Drain

-----------------------------------------------------------------------------
(* Planning: one operation is recorded, and noted, dispatched or enqueued. *)

(* An operation that mutates nothing.                                      *)
Notes(a, st) ==
    /\ Record(a, st)
    /\ pc' = "loop" /\ cur' = None
    /\ UNCHANGED <<tenant, poolVars, trigger, cursor, residue>>

(* What planning does with its operation.                                  *)
Plans(a) ==
    \/ \E st \in {"skip", "noop"} : Notes(a, st)
    \/ ToDispatch(a)
    \/ a.kind \in {"set", "add"} /\ ToPool(a)

LEMMA PlansKeeps ==
    ASSUME IInv, pc = "plan", NEW a \in Op, Plans(a), CacheTypeOK'
    PROVE  IInv'
<1>1. {"queued", "skip", "noop"} \subseteq Status
  BY DEF Status
<1>2. ASSUME NEW x \in Status, Record(a, x), UNCHANGED <<tenant, poolVars>>
      PROVE  PoolInv' /\ ops' # <<>>
  <2>1. PoolInv'
    BY <1>2, NoteKeeps DEF IInv, Record
  <2>2. ops \in Seq(Op)
    BY DEF IInv, PoolInv, ResultsInv
  <2>3. ops' # <<>>
    BY <1>2, <2>2, AppendFacts DEF Record
  <2> QED  BY <2>1, <2>3
<1>3. ASSUME Record(a, "queued"), Enqueue(Len(ops) + 1, a), UNCHANGED tenant
      PROVE  PoolInv'
  BY <1>1, <1>3, EnqueueKeeps DEF IInv, Record
<1>4. /\ PoolInv' /\ pc' \in {"loop", "dispatch"} /\ cur' = None
      /\ (pc' = "dispatch" => ops' # <<>>)
      /\ UNCHANGED <<trigger, cursor, residue>>
  <2>1. CASE \E st \in {"skip", "noop"} : Notes(a, st)
    BY <1>1, <1>2, <2>1 DEF Notes
  <2>2. CASE ToDispatch(a)
    BY <1>1, <1>2, <2>2 DEF ToDispatch
  <2>3. CASE ToPool(a)
    BY <1>1, <1>2, <1>3, <2>3 DEF ToPool, ToDispatch
  <2> QED  BY <2>1, <2>2, <2>3 DEF Plans
<1> QED  BY <1>4 DEF IInv, LoopTypeOK, AtHand, DrainedBeforeRollback

LEMMA ActionType ==
    ASSUME cur \in Request, NEW k \in {"set", "add", "create", "prune"}, NEW n \in Nat,
           NEW p \in Values, NEW d \in SUBSET Items
    PROVE  Action(k, n, p, d) \in Op /\ Target \in Stacks
  BY DEF Action, Target, Op, Request, Stacks

LEMMA ActionKind ==
    ASSUME NEW k, NEW n, NEW p, NEW d
    PROVE  Action(k, n, p, d).kind = k
  BY DEF Action

LEMMA CacheReadType ==
    ASSUME PoolInv, CacheTypeOK, NEW i \in Items, CacheRead(i)
    PROVE  snap' \in [Items -> Snapshot \cup {None}]
  BY RemoteType DEF CacheRead, CacheTypeOK

LEMMA PlanSetRecords ==
    ASSUME IInv, PlanSetInSync \/ PlanSetWithheld \/ PlanSetWrite
    PROVE  /\ pc = "plan" /\ CacheTypeOK'
           /\ \E a \in Op : Plans(a)
<1>1. /\ pc = "plan" /\ cur \in Request /\ cur.item \in Items /\ cur.lang \in Langs
      /\ cur.version \in Versions /\ cur.value \in Values
  BY DEF PlanSetInSync, PlanSetWithheld, PlanSetWrite, Planning, IInv, AtHand, Request
<1>2. Blank \in Values /\ {} \in SUBSET Items /\ 0 \in Nat
  BY ConstantFacts
<1>3. CASE PlanSetInSync \/ PlanSetWithheld
  <2>1. CacheTypeOK'
    <3>1. CacheRead(cur.item) /\ UNCHANGED <<captured, adopted, vcache>>
      BY <1>3 DEF PlanSetInSync, PlanSetWithheld
    <3>2. snap' \in [Items -> Snapshot \cup {None}]
      BY <1>1, <3>1, CacheReadType DEF IInv
    <3> QED  BY <3>1, <3>2 DEF IInv, CacheTypeOK
  <2>2. PICK st \in {"noop", "skip"} : NoMutation("set", st)
    BY <1>3 DEF PlanSetInSync, PlanSetWithheld
  <2>3. Action("set", 0, Blank, {}) \in Op /\ st \in Status
    BY <1>1, <1>2, ActionType DEF Status
  <2> QED  BY <1>1, <2>1, <2>2, <2>3, ActionKind DEF NoMutation, Notes, Plans
<1>4. CASE PlanSetWrite
  <2> DEFINE sn == Remote(cur.item)
             p == FindPriorValue(sn, cur.lang, cur.version)
             w == WriteThrough(sn, cur.lang, cur.version, cur.value)
  <2>1. /\ sn # None /\ ToPool(Action("set", 0, p, {}))
        /\ snap' = [snap EXCEPT ![cur.item] = w]
        /\ UNCHANGED <<captured, adopted, vcache>>
    BY <1>4 DEF PlanSetWrite, Unresolved
  <2>2. sn \in Snapshot
    BY <1>1, <2>1, RemoteType DEF IInv
  <2> HIDE DEF sn
  <2>3. p \in Values /\ w \in Snapshot
    BY <1>1, <2>2, FindPriorValueType, WriteThroughType
  <2> HIDE DEF p, w
  <2>4. CacheTypeOK'
    BY <1>1, <2>1, <2>3 DEF IInv, CacheTypeOK
  <2>5. Action("set", 0, p, {}) \in Op /\ "queued" \in Status
    BY <1>1, <1>2, <2>3, ActionType DEF Status
  <2> QED  BY <1>1, <2>1, <2>4, <2>5, ActionKind DEF Plans
<1> QED  BY <1>3, <1>4

LEMMA PlanAddRecords ==
    ASSUME IInv, PlanAddPresent \/ PlanAdd
    PROVE  /\ pc = "plan" /\ CacheTypeOK'
           /\ \E a \in Op : Plans(a)
<1>1. /\ pc = "plan" /\ cur \in Request /\ cur.item \in Items
      /\ cur.version \in Versions /\ Target \in Stacks
  BY DEF PlanAddPresent, PlanAdd, Planning, IInv, AtHand, Request, Target, Stacks
<1>2. /\ Blank \in Values /\ {} \in SUBSET Items /\ 0 \in Nat
      /\ cur.version \in Nat
  BY <1>1, ConstantFacts
<1>3. CacheRead(cur.item) /\ UNCHANGED <<captured, adopted>>
  BY DEF PlanAddPresent, PlanAdd
<1>4. snap' \in [Items -> Snapshot \cup {None}]
  BY <1>1, <1>3, CacheReadType DEF IInv
<1>5. CurrentMax \in Nat
  BY <1>1 DEF CurrentMax, IInv, CacheTypeOK, PoolInv, ResultsInv
<1>6. CacheTypeOK'
  <2>1. PICK n \in Nat : vcache' = [vcache EXCEPT ![Target] = n]
    BY <1>2, <1>5 DEF PlanAddPresent, PlanAdd
  <2> QED  BY <1>3, <1>4, <2>1 DEF IInv, CacheTypeOK
<1>7. CASE PlanAddPresent
  <2>1. Action("add", 0, Blank, {}) \in Op /\ "noop" \in Status
    BY <1>1, <1>2, ActionType DEF Status
  <2> QED  BY <1>1, <1>6, <1>7, <2>1, ActionKind DEF PlanAddPresent, NoMutation, Notes, Plans
<1>8. CASE PlanAdd
  <2>1. cur.version - CurrentMax \in Nat
    BY <1>2, <1>5, <1>8 DEF PlanAdd
  <2>2. Action("add", cur.version - CurrentMax, Blank, {}) \in Op /\ "queued" \in Status
    BY <1>1, <1>2, <2>1, ActionType DEF Status
  <2> QED  BY <1>1, <1>6, <1>8, <2>2, ActionKind DEF PlanAdd, Plans
<1> QED  BY <1>7, <1>8

LEMMA PlanOtherRecords ==
    ASSUME IInv,
           \/ \E kind \in {"set", "add"} : PlanUnresolved(kind)
           \/ PlanCreateSkip \/ PlanCreateUpdate \/ PlanCreateUnresolved
           \/ PlanCreate \/ PlanPrune
    PROVE  /\ pc = "plan" /\ CacheTypeOK'
           /\ \E a \in Op : Plans(a)
<1>1. /\ pc = "plan" /\ cur \in Request /\ cur.item \in Items /\ Target \in Stacks
  BY DEF PlanUnresolved, PlanCreateSkip, PlanCreateUpdate,
         PlanCreateUnresolved, PlanCreate, PlanPrune,
         Planning, IInv, AtHand, Request, Target, Stacks
<1>2. /\ Blank \in Values /\ {} \in SUBSET Items /\ 0 \in Nat /\ 1 \in Versions
      /\ {"queued", "skip", "noop"} \subseteq Status
  BY ConstantFacts DEF Status
<1>3. CacheTypeOK'
  <2>1. /\ captured' \in {captured, captured \cup {cur.item}}
        /\ UNCHANGED <<adopted, snap, vcache>>
    BY DEF PlanUnresolved, PlanCreateSkip, PlanCreateUpdate,
         PlanCreateUnresolved, PlanCreate, PlanPrune,
           cacheVars
  <2> QED  BY <1>1, <2>1 DEF IInv, CacheTypeOK
<1>4. \A k \in {"set", "add", "create", "prune"} : Action(k, 0, Blank, {}) \in Op
  BY <1>1, <1>2, ActionType
<1>5. ASSUME NEW kind \in {"set", "add"}, PlanUnresolved(kind)
      PROVE  /\ pc = "plan" /\ CacheTypeOK'
           /\ \E a \in Op : Plans(a)
  <2>1. NoMutation(kind, "skip")
    BY <1>5 DEF PlanUnresolved
  <2> QED  BY <1>1, <1>2, <1>3, <1>4, <2>1, ActionKind DEF NoMutation, Notes, Plans
<1>6. CASE PlanCreateSkip
  <2>1. NoMutation("create", "skip")
    BY <1>6 DEF PlanCreateSkip
  <2> QED  BY <1>1, <1>2, <1>3, <1>4, <2>1, ActionKind DEF NoMutation, Notes, Plans
<1>7. CASE PlanCreateUpdate
  <2>1. cell[Target][1] \in Values
    BY <1>1, <1>2 DEF IInv, PoolInv, ResultsInv
  <2>2. Action("set", 0, cell[Target][1], {}) \in Op
    BY <1>1, <1>2, <2>1, ActionType
  <2>3. ToPool(Action("set", 0, cell[Target][1], {}))
    BY <1>7 DEF PlanCreateUpdate
  <2> QED  BY <1>1, <1>2, <1>3, <2>2, <2>3, ActionKind DEF Plans
<1>8. CASE PlanCreate
  <2>1. ToDispatch(Action("create", 0, Blank, {}))
    BY <1>8 DEF PlanCreate
  <2> QED  BY <1>1, <1>2, <1>3, <1>4, <2>1, ActionKind DEF Plans
<1>9. CASE PlanPrune
  <2>1. Prunable \in SUBSET Items
    BY DEF Prunable, IInv, PoolInv, ResultsInv
  <2>2. Action("prune", 0, Blank, Prunable) \in Op
    BY <1>1, <1>2, <2>1, ActionType
  <2>3. \/ NoMutation("prune", "noop")
        \/ ToDispatch(Action("prune", 0, Blank, Prunable))
    BY <1>9 DEF PlanPrune
  <2>4. CASE NoMutation("prune", "noop")
    BY <1>1, <1>2, <1>3, <1>4, <2>4, ActionKind DEF NoMutation, Notes, Plans
  <2>5. CASE ToDispatch(Action("prune", 0, Blank, Prunable))
    BY <1>1, <1>2, <1>3, <2>2, <2>5, ActionKind DEF Plans
  <2> QED  BY <2>3, <2>4, <2>5
<1>10. CASE PlanCreateUnresolved
  <2>1. NoMutation("create", "skip")
    BY <1>10 DEF PlanCreateUnresolved
  <2> QED  BY <1>1, <1>2, <1>3, <1>4, <2>1, ActionKind DEF NoMutation, Notes, Plans
<1> QED  BY <1>5, <1>6, <1>7, <1>8, <1>9, <1>10

LEMMA PlanRecords ==
    ASSUME IInv, Plan, ~PlanError
    PROVE  /\ pc = "plan" /\ CacheTypeOK'
           /\ \E a \in Op : Plans(a)
<1>1. CASE PlanSetInSync \/ PlanSetWithheld \/ PlanSetWrite
  BY <1>1, PlanSetRecords
<1>2. CASE PlanAddPresent \/ PlanAdd
  BY <1>2, PlanAddRecords
<1>3. CASE \/ \E kind \in {"set", "add"} : PlanUnresolved(kind)
           \/ PlanCreateSkip \/ PlanCreateUpdate
           \/ PlanCreateUnresolved \/ PlanCreate \/ PlanPrune
  BY <1>3, PlanOtherRecords
<1> QED  BY <1>1, <1>2, <1>3 DEF Plan

-----------------------------------------------------------------------------
(* Dispatching and undoing: the pool stands still, the tenant changes.     *)

StacksStill == UNCHANGED <<ops, chain, at, step, active, waiters, fatal>>

TenantTyped ==
    /\ present \subseteq Items
    /\ top \in [Stacks -> Nat]
    /\ cell \in [Stacks -> [Versions -> Values]]

LEMMA StillKeeps ==
    ASSUME PoolInv, StacksStill, TenantTyped',
           status' \in Seq(Status), Len(status') = Len(status),
           applied' = applied \/ \E i \in DOMAIN ops : applied' = Append(applied, i)
    PROVE  PoolInv'
<1>1. applied \in Seq(Nat \ {0}) /\ DOMAIN ops \subseteq Nat \ {0}
  BY DEF PoolInv, ResultsInv
<1>2. applied' \in Seq(Nat \ {0}) /\ ResultsKnown'
  <2>1. CASE applied' = applied
    BY <1>1, <2>1 DEF StacksStill, PoolInv, ResultsInv, ResultsKnown
  <2>2. ASSUME NEW i \in DOMAIN ops, applied' = Append(applied, i)
        PROVE  applied' \in Seq(Nat \ {0}) /\ ResultsKnown'
    <3>1. /\ applied' \in Seq(Nat \ {0})
          /\ \A k \in DOMAIN applied' :
                applied'[k] = i \/ (k \in DOMAIN applied /\ applied'[k] = applied[k])
      BY <1>1, <2>2, AppendFacts
    <3> QED  BY <3>1 DEF StacksStill, PoolInv, ResultsInv, ResultsKnown
  <2> QED  BY <2>1, <2>2
<1>3. StacksInv'
  BY DEF StacksStill, PoolInv, StacksInv, TasksKnown, HeadRuns, Head1, SemaphoreExact,
         NoIdleSlot, Busy, Woken, Sleeps
<1> QED  BY <1>2, <1>3 DEF StacksStill, TenantTyped, PoolInv, ResultsInv

(* What follows a dispatch, whatever was dispatched.                       *)
LEMMA AfterDispatch ==
    ASSUME IInv, pc = "dispatch", Drained, StacksStill, TenantTyped', CacheTypeOK',
           Dispatched \/ \E r : DispatchFailed(r)
    PROVE  IInv'
<1>1. status \in Seq(Status) /\ Len(status) = Len(ops) /\ ops \in Seq(Op) /\ ops # <<>>
  BY DEF IInv, PoolInv, ResultsInv, ResultsKnown, AtHand
<1>2. Latest \in DOMAIN ops /\ Latest \in DOMAIN status
  BY <1>1 DEF Latest
<1>3. \A st \in Status : /\ [status EXCEPT ![Latest] = st] \in Seq(Status)
                         /\ Len([status EXCEPT ![Latest] = st]) = Len(status)
  BY <1>1, <1>2
<1>4. {"applied", "skip", "error"} \subseteq Status
  BY DEF Status
<1>5. CASE Dispatched
  <2>1. /\ applied' = Append(applied, Latest)
        /\ status' = [status EXCEPT ![Latest] = "applied"]
        /\ pc' = "loop"
        /\ UNCHANGED <<cur, trigger, cursor, residue>>
    BY <1>5 DEF Dispatched
  <2>2. PoolInv'
    BY <1>2, <1>3, <1>4, <2>1, StillKeeps DEF IInv
  <2> QED  BY <2>1, <2>2 DEF IInv, LoopTypeOK, AtHand, DrainedBeforeRollback
<1>6. ASSUME NEW r, DispatchFailed(r)
      PROVE  IInv'
  <2> DEFINE st == IF Skippable(Latest, r) THEN "skip" ELSE "error"
  <2>1. /\ status' = [status EXCEPT ![Latest] = st] /\ applied' = applied
        /\ \/ pc' = "loop" /\ UNCHANGED <<cur, trigger, cursor, residue>>
           \/ StartRollback("apply-error")
    BY <1>6 DEF DispatchFailed
  <2>2. st \in Status
    BY <1>4
  <2> HIDE DEF st
  <2>3. PoolInv'
    BY <1>3, <2>1, <2>2, StillKeeps DEF IInv
  <2>4. Len(applied) \in Nat
    BY DEF IInv, PoolInv, ResultsInv
  <2>5. CASE pc' = "loop" /\ UNCHANGED <<cur, trigger, cursor, residue>>
    BY <2>3, <2>5 DEF IInv, LoopTypeOK, AtHand, DrainedBeforeRollback
  <2>6. CASE StartRollback("apply-error")
    <3>1. /\ pc' = "rollback" /\ trigger' = "apply-error" /\ cursor' = Len(applied)
          /\ UNCHANGED <<cur, residue>>
      BY <2>6 DEF StartRollback
    <3>2. LoopTypeOK' /\ AtHand'
      BY <2>1, <2>4, <3>1 DEF IInv, LoopTypeOK, AtHand
    <3>3. DrainedBeforeRollback'
      BY DEF DrainedBeforeRollback, Drained, Settled, StacksStill
    <3> QED  BY <2>3, <3>2, <3>3 DEF IInv
  <2> QED  BY <2>1, <2>5, <2>6
<1> QED  BY <1>5, <1>6

(* The operation being dispatched.                                         *)
LEMMA LatestOp ==
    ASSUME IInv, pc = "dispatch"
    PROVE  Latest \in DOMAIN ops /\ ops[Latest] \in Op
<1>1. ops \in Seq(Op) /\ ops # <<>>
  BY DEF IInv, PoolInv, ResultsInv, AtHand
<1> QED  BY <1>1 DEF Latest

LEMMA DispatchSetKeeps ==
    ASSUME IInv, DispatchSet
    PROVE  IInv'
<1> DEFINE o == ops[Latest]
<1>1. /\ pc = "dispatch" /\ Drained /\ StacksStill /\ UNCHANGED cacheVars
  BY DEF DispatchSet, Dispatching, StacksStill
<1>2. Latest \in DOMAIN ops /\ o \in Op
  BY <1>1, LatestOp
<1>3. PICK r \in Answers(o.stack, o.version) :
          /\ Write(o.stack, o.version, Latest, r)
          /\ IF r = "ok" THEN Dispatched ELSE DispatchFailed(r)
  BY DEF DispatchSet
<1>4. o.stack \in Stacks /\ o.version \in Versions
  BY <1>2 DEF Op
<1>5. TenantTyped'
  BY <1>2, <1>3, <1>4, WriteKeepsTenant DEF IInv, PoolInv, TenantTyped
<1>6. CacheTypeOK'
  BY <1>1 DEF IInv, CacheTypeOK, cacheVars
<1> QED  BY <1>1, <1>3, <1>5, <1>6, AfterDispatch

LEMMA DispatchAddKeeps ==
    ASSUME IInv, DispatchAdd
    PROVE  IInv'
<1> DEFINE s == ops[Latest].stack
<1>1. /\ pc = "dispatch" /\ Drained /\ StacksStill /\ UNCHANGED cacheVars
      /\ UNCHANGED <<present, cell>>
  BY DEF DispatchAdd, Dispatching, StacksStill
<1>2. ops[Latest] \in Op
  BY <1>1, LatestOp
<1>3. s \in Stacks /\ ops[Latest].count \in Nat
  BY <1>2 DEF Op
<1>4. /\ \E k \in 0 .. ops[Latest].count : top' = [top EXCEPT ![s] = top[s] + k]
      /\ Dispatched \/ \E r : DispatchFailed(r)
  BY <1>3 DEF DispatchAdd
<1>5. TenantTyped'
  BY <1>1, <1>3, <1>4 DEF IInv, PoolInv, ResultsInv, TenantTyped
<1>6. CacheTypeOK'
  BY <1>1 DEF IInv, CacheTypeOK, cacheVars
<1> QED  BY <1>1, <1>4, <1>5, <1>6, AfterDispatch

LEMMA DispatchCreateKeeps ==
    ASSUME IInv, DispatchCreate
    PROVE  IInv'
<1> DEFINE i == ops[Latest].stack[1]
           x == ops[Latest].value
<1>1. pc = "dispatch" /\ Drained /\ StacksStill
  BY DEF DispatchCreate, Dispatching, StacksStill
<1>2. i \in Items /\ x \in Values
  BY <1>1, LatestOp DEF Op, Stacks
<1>3. PICK r \in Responses :
          /\ IF Landed(r) /\ i \notin present THEN Fresh(i, x) ELSE UNCHANGED tenant
          /\ IF r = "ok"
             THEN /\ Dispatched
                  /\ captured' = captured \cup {i}
                  /\ adopted' = IF i \in present THEN adopted \cup {i} ELSE adopted
                  /\ snap' = [snap EXCEPT ![i] = Synthetic(x)]
                  /\ UNCHANGED vcache
             ELSE DispatchFailed(r) /\ UNCHANGED cacheVars
  BY DEF DispatchCreate
<1> HIDE DEF i, x
<1>4. TenantTyped'
  <2>1. CASE UNCHANGED tenant
    BY <2>1 DEF IInv, PoolInv, ResultsInv, TenantTyped, tenant
  <2>2. CASE Fresh(i, x)
    BY <1>2, <2>2, ConstantFacts DEF Fresh, IInv, PoolInv, ResultsInv, TenantTyped
  <2> QED  BY <1>3, <2>1, <2>2
<1>5. CacheTypeOK'
  <2>1. CASE UNCHANGED cacheVars
    BY <2>1 DEF IInv, CacheTypeOK, cacheVars
  <2>2. CASE r = "ok"
    BY <1>2, <1>3, <2>2, SyntheticType DEF IInv, CacheTypeOK
  <2> QED  BY <1>3, <2>1, <2>2
<1> QED  BY <1>1, <1>3, <1>4, <1>5, AfterDispatch

LEMMA DispatchPruneKeeps ==
    ASSUME IInv, DispatchPrune
    PROVE  IInv'
<1>1. /\ pc = "dispatch" /\ Drained /\ StacksStill
      /\ UNCHANGED <<top, cell, captured, adopted, vcache>>
  BY DEF DispatchPrune, Dispatching, StacksStill
<1>2. /\ present' \subseteq present
      /\ Dispatched \/ DispatchFailed("fail")
      /\ \/ snap' = snap
         \/ snap' = [i \in Items |-> IF i \in ops[Latest].items THEN None ELSE snap[i]]
  BY DEF DispatchPrune
<1>3. TenantTyped'
  BY <1>1, <1>2 DEF IInv, PoolInv, ResultsInv, TenantTyped
<1>4. CacheTypeOK'
  BY <1>1, <1>2 DEF IInv, CacheTypeOK
<1> QED  BY <1>1, <1>2, <1>3, <1>4, AfterDispatch

LEMMA UndoKeeps ==
    ASSUME IInv, UndoSet \/ UndoCreate \/ UndoAdd \/ UndoPrune
    PROVE  IInv'
<1>1. /\ pc = "rollback" /\ cursor \in Nat /\ cursor > 0
      /\ \E ok : Undone(ok)
  BY DEF UndoSet, UndoCreate, UndoAdd, UndoPrune, Undoing, IInv, LoopTypeOK
<1>2. /\ pc' = pc /\ cur' = cur /\ trigger' = trigger /\ cursor' = cursor - 1
      /\ residue' \subseteq residue \cup {applied[cursor]}
      /\ UNCHANGED <<ops, status, poolVars, cacheVars>>
  BY <1>1 DEF Undone
<1>3. applied \in Seq(Nat \ {0}) /\ cursor \in DOMAIN applied
  BY <1>1 DEF IInv, AtHand, PoolInv, ResultsInv
<1>4. applied[cursor] \in DOMAIN ops /\ applied[cursor] \in Nat
  BY <1>3 DEF IInv, PoolInv, ResultsInv, ResultsKnown
<1> DEFINE o == ops[applied[cursor]]
<1>5. o \in Op
  BY <1>4 DEF IInv, PoolInv, ResultsInv
<1>6. /\ o.stack \in Stacks /\ o.version \in Versions /\ o.prior \in Values
      /\ o.items \subseteq Items
  BY <1>5 DEF Op
<1>7. TenantTyped'
  <2>1. /\ present \subseteq Items /\ top \in [Stacks -> Nat]
        /\ cell \in [Stacks -> [Versions -> Values]]
    BY DEF IInv, PoolInv, ResultsInv
  <2>2. CASE UndoSet
    <3> DEFINE new == [cell[o.stack] EXCEPT ![o.version] = o.prior]
    <3>1. new \in [Versions -> Values]
      BY <1>6, <2>1
    <3>2. /\ cell' = cell \/ cell' = [cell EXCEPT ![o.stack] = new]
          /\ UNCHANGED <<present, top>>
      BY <2>2 DEF UndoSet
    <3> HIDE DEF new
    <3> QED  BY <1>6, <2>1, <3>1, <3>2 DEF TenantTyped
  <2>3. CASE UndoCreate
    BY <2>1, <2>3 DEF UndoCreate, TenantTyped
  <2>4. CASE UndoAdd
    BY <2>1, <2>4 DEF UndoAdd, TenantTyped, tenant
  <2>5. CASE UndoPrune
    BY <1>6, <2>1, <2>5 DEF UndoPrune, TenantTyped
  <2> QED  BY <2>2, <2>3, <2>4, <2>5
<1>8. PoolInv'
  <2>1. StacksStill /\ status' = status /\ applied' = applied
    BY <1>2 DEF StacksStill, poolVars
  <2>2. status \in Seq(Status)
    BY DEF IInv, PoolInv, ResultsInv
  <2> QED  BY <1>7, <2>1, <2>2, StillKeeps DEF IInv
<1>9. LoopTypeOK' /\ AtHand'
  <2>1. Len(applied) \in Nat /\ applied' = applied
    BY <1>2, <1>3 DEF poolVars
  <2> QED  BY <1>1, <1>2, <1>4, <2>1 DEF IInv, LoopTypeOK, AtHand
<1>10. CacheTypeOK' /\ DrainedBeforeRollback'
  BY <1>2 DEF IInv, CacheTypeOK, cacheVars, DrainedBeforeRollback, Drained, Settled, poolVars
<1> QED  BY <1>8, <1>9, <1>10 DEF IInv

-----------------------------------------------------------------------------
(* The pool's own steps.                                                   *)

LEMMA AppliedGrows ==
    ASSUME PoolInv, NEW s \in Stacks, PoolStep(s)
    PROVE  ops' = ops /\ Len(applied) <= Len(applied')
<1>1. applied \in Seq(Nat \ {0}) /\ Len(applied) \in Nat
  BY DEF PoolInv, ResultsInv
<1>2. \A i : Len(Append(applied, i)) = Len(applied) + 1
  BY <1>1
<1>3. CASE SkipDoomed(s) \/ AwaitSlot(s) \/ StartNow(s) \/ Resume(s)
  BY <1>1, <1>3 DEF SkipDoomed, AwaitSlot, StartNow, Resume, Begin
<1>4. CASE AnswerSingle(s) \/ AnswerAdd(s)
  <2>1. ops' = ops /\ (applied' = applied \/ \E i : applied' = Append(applied, i))
    BY <1>4 DEF AnswerSingle, AnswerAdd, RecordAnswer
  <2> QED  BY <1>1, <1>2, <2>1
<1>5. CASE AnswerMerged(s)
  <2>1. ops' = ops /\ (applied' = applied \/ applied' = applied \o Head1(s).entries)
    BY <1>5 DEF AnswerMerged
  <2>2. chain[s] # <<>>
    BY <1>5 DEF AnswerMerged, PoolInv, StacksInv, HeadRuns
  <2>3. Head1(s).entries \in Seq(Nat \ {0})
    BY <2>2, HeadEntries
  <2>4. Len(applied \o Head1(s).entries) >= Len(applied)
    BY <1>1, <2>3
  <2> QED  BY <1>1, <2>1, <2>4
<1> QED  BY <1>3, <1>4, <1>5 DEF PoolStep, Proceed, Answer

LEMMA PoolRunsKeeps ==
    ASSUME IInv, PoolRuns
    PROVE  IInv'
<1>1. PICK s \in Stacks : PoolStep(s)
  BY DEF PoolRuns
<1>2. UNCHANGED execVars
  BY DEF PoolRuns
<1>3. PoolInv' /\ ops' = ops /\ Len(applied) <= Len(applied')
  BY <1>1, PoolStepKeeps, AppliedGrows DEF IInv
<1>4. Len(applied) \in Nat /\ Len(applied') \in Nat
  BY <1>3 DEF IInv, PoolInv, ResultsInv
<1>5. ~Drained
  BY <1>1, DrainedIsStill DEF IInv
<1>6. ~(pc \in {"rollback", "done"} /\ trigger # "plan-error")
  BY <1>5 DEF IInv, DrainedBeforeRollback
<1>7. UNCHANGED <<pc, cur, trigger, cursor, residue>> /\ UNCHANGED <<captured, adopted, snap, vcache>>
  BY <1>2 DEF execVars, loopVars, cacheVars
<1>8. LoopTypeOK' /\ CacheTypeOK' /\ AtHand'
  BY <1>3, <1>4, <1>7 DEF IInv, LoopTypeOK, CacheTypeOK, AtHand
<1>9. DrainedBeforeRollback'
  BY <1>6, <1>7 DEF DrainedBeforeRollback
<1> QED  BY <1>3, <1>8, <1>9 DEF IInv

-----------------------------------------------------------------------------
LEMMA ExecutorInit == Init => IInv
<1> SUFFICES ASSUME Init PROVE IInv
  OBVIOUS
<1>1. present \subseteq Items /\ top \in [Stacks -> Nat]
  BY ExecutorAssumption DEF Init, StartTop
<1>2. cell \in [Stacks -> [Versions -> Values]]
  <2>1. \A i \in Items, l \in Langs, v \in Versions : StartCell(i, l, v) \in Values
    BY ConstantFacts, ExecutorAssumption DEF StartCell
  <2>2. \A s \in Stacks : s[1] \in Items /\ s[2] \in Langs
    BY DEF Stacks
  <2> QED  BY <2>1, <2>2 DEF Init
<1>3. PoolInv
  BY <1>1, <1>2, InitialPool DEF Init
<1>4. CacheTypeOK
  BY ExecutorAssumption, PoolAssumption DEF Init, CacheTypeOK
<1>5. LoopTypeOK /\ AtHand /\ DrainedBeforeRollback
  BY DEF Init, LoopTypeOK, AtHand, DrainedBeforeRollback
<1> QED  BY <1>3, <1>4, <1>5 DEF IInv

LEMMA ExecutorStep == IInv /\ [Next]_allVars => IInv'
<1> SUFFICES ASSUME IInv, [Next]_allVars PROVE IInv'
  OBVIOUS
<1>1. CASE Cancel \/ EndOfIr \/ Drain
  BY <1>1, TurningKeeps
<1>2. CASE \E r \in Request : NextOp(r)
  BY <1>2, NextOpKeeps
<1>3. CASE Plan
  <2>1. CASE PlanError
    BY <2>1, TurningKeeps
  <2>2. CASE ~PlanError
    BY <1>3, <2>2, PlanRecords, PlansKeeps
  <2> QED  BY <2>1, <2>2
<1>4. CASE DispatchSet \/ DispatchAdd \/ DispatchCreate \/ DispatchPrune
  BY <1>4, DispatchSetKeeps, DispatchAddKeeps, DispatchCreateKeeps, DispatchPruneKeeps
<1>5. CASE Undo
  BY <1>5, UndoKeeps, TurningKeeps DEF Undo
<1>6. CASE PoolRuns
  BY <1>6, PoolRunsKeeps
<1>7. CASE UNCHANGED allVars
  <2>1. UNCHANGED <<vars, cacheVars, pc, cur, trigger, cursor, residue>>
    BY <1>7 DEF allVars, execVars, loopVars
  <2>2. PoolInv'
    BY <2>1, StutterKeeps DEF IInv
  <2> QED  BY <2>1, <2>2 DEF IInv, LoopTypeOK, CacheTypeOK, AtHand, DrainedBeforeRollback,
                            Drained, Settled, cacheVars, vars, poolVars
<1> QED  BY <1>1, <1>2, <1>3, <1>4, <1>5, <1>6, <1>7 DEF Next, LoopStep

(* In every reachable state of a push the loop and the pool fit together.  *)
THEOREM ExecutorInvariant == Spec => []IInv
<1> QED  BY ExecutorInit, ExecutorStep, PTL DEF Spec

(* Every variable keeps its type: each rollback step undoes an operation   *)
(* of the program with a snapshot value, and the caches hold snapshots.    *)
THEOREM TypeCorrectness == Spec => []TypeOK
<1>1. IInv => TypeOK
  BY PoolInvImplies DEF IInv, TypeOK
<1> QED  BY ExecutorInvariant, <1>1, PTL

(* However the push ended, unless it failed while planning, no forward     *)
(* write is in flight during the rollback or after the end.                *)
THEOREM NothingLandsBehindRollback == Spec => []DrainedBeforeRollback
<1>1. IInv => DrainedBeforeRollback
  BY DEF IInv
<1> QED  BY ExecutorInvariant, <1>1, PTL

-----------------------------------------------------------------------------
(* A tolerant push.                                                        *)

NeverDoomed == Tolerant => fatal = 0 /\ trigger # "apply-error"

LEMMA PoolNeverDooms ==
    ASSUME Tolerant, fatal = 0, NEW s \in Stacks, PoolStep(s)
    PROVE  fatal' = 0
<1>1. \A i, r : FatalAfter(i, r) = fatal
  BY DEF FatalAfter
<1>2. \A i, r : RecordAnswer(i, r) => fatal' = fatal
  BY <1>1 DEF RecordAnswer
<1>3. CASE Proceed(s)
  BY <1>3 DEF Proceed, SkipDoomed, AwaitSlot, StartNow, Resume, Begin
<1>4. CASE AnswerMerged(s)
  BY <1>4 DEF AnswerMerged
<1>5. CASE AnswerSingle(s)
  BY <1>2, <1>5 DEF AnswerSingle
<1>6. CASE AnswerAdd(s)
  BY <1>2, <1>6 DEF AnswerAdd
<1> QED  BY <1>3, <1>4, <1>5, <1>6 DEF PoolStep, Answer

LEMMA NeverDoomedStep == NeverDoomed /\ [Next]_allVars => NeverDoomed'
<1> SUFFICES ASSUME NeverDoomed, Tolerant, [Next]_allVars
             PROVE  fatal' = 0 /\ trigger' # "apply-error"
  BY DEF NeverDoomed
<1>1. fatal = 0 /\ trigger # "apply-error"
  BY DEF NeverDoomed
<1>2. CASE Cancel \/ EndOfIr \/ Drain \/ RollbackEnds \/ PlanError
  BY <1>1, <1>2 DEF Cancel, EndOfIr, Drain, DrainedFatal, DrainedCancelled, DrainedEnd,
     RollbackEnds, PlanError, StartRollback, vars, poolVars
<1>3. CASE \E r \in Request : NextOp(r)
  BY <1>1, <1>3 DEF NextOp, vars, poolVars
<1>4. CASE Plan /\ ~PlanError
  <2>1. \/ \E k, st : NoMutation(k, st)
        \/ \E a : ToDispatch(a)
        \/ \E a : ToPool(a)
    BY <1>4 DEF Plan, PlanUnresolved, PlanSetInSync, PlanSetWithheld, PlanSetWrite,
       PlanAddPresent, PlanAdd, PlanCreateSkip, PlanCreateUpdate,
       PlanCreateUnresolved, PlanCreate, PlanPrune
  <2> QED  BY <1>1, <2>1 DEF NoMutation, ToDispatch, ToPool, Enqueue, poolVars
<1>5. CASE DispatchSet \/ DispatchAdd \/ DispatchCreate \/ DispatchPrune
  <2>1. fatal' = fatal /\ (Dispatched \/ \E r : DispatchFailed(r))
    BY <1>5 DEF DispatchSet, DispatchAdd, DispatchCreate, DispatchPrune
  <2> QED  BY <1>1, <2>1 DEF Dispatched, DispatchFailed
<1>6. CASE UndoSet \/ UndoCreate \/ UndoAdd \/ UndoPrune
  <2>1. \E ok : Undone(ok)
    BY <1>6 DEF UndoSet, UndoCreate, UndoAdd, UndoPrune
  <2>2. trigger' = trigger /\ fatal' = fatal
    <3>1. ASSUME NEW ok, Undone(ok) PROVE fatal' = fatal
      BY <3>1 DEF Undone, poolVars
    <3>2. ASSUME NEW ok, Undone(ok) PROVE trigger' = trigger
      BY <1>6, <3>2 DEF UndoSet, UndoCreate, UndoAdd, UndoPrune, Undone
    <3> QED  BY <2>1, <3>1, <3>2
  <2> QED  BY <1>1, <2>2
<1>7. CASE PoolRuns
  BY <1>1, <1>7, PoolNeverDooms DEF PoolRuns, execVars, loopVars
<1>8. CASE UNCHANGED allVars
  BY <1>1, <1>8 DEF allVars, vars, poolVars, execVars, loopVars
<1> QED  BY <1>2, <1>3, <1>4, <1>5, <1>6, <1>7, <1>8 DEF Next, LoopStep, Undo

(* With onError = "continue" no failed write aborts the push, in any order *)
(* of failures and wherever it was made.                                   *)
THEOREM NoAbortWhenTolerant == Spec => []ToleratedFailuresDontAbort
<1>1. Init => NeverDoomed
  BY DEF Init, PoolInit, NeverDoomed
<1>2. NeverDoomed => ToleratedFailuresDontAbort
  BY DEF NeverDoomed, ToleratedFailuresDontAbort
<1> QED  BY <1>1, <1>2, NeverDoomedStep, PTL DEF Spec

------------------------------------------------------------------------------
(* What is left when the push ends: the queues, and the loop's own call.   *)

(* The operation the loop itself is about to send; the pool has no part in *)
(* it.                                                                     *)
OwnCall == IF pc = "dispatch" THEN {Latest} ELSE {}

EndInv ==
    /\ QueueInv
    /\ Accounted(OwnCall)
    /\ pc = "dispatch" => status[Latest] = "queued" /\ ~InQueue(Latest)
    /\ pc = "rollback" => trigger # "none"
    /\ pc = "done" /\ trigger = "none" => fatal = 0

(* A step of the pool leaves an operation alone that is in no queue.       *)
LEMMA OutOfQueue ==
    ASSUME PoolInv, QueueInv, NEW s \in Stacks, PoolStep(s),
           NEW i \in DOMAIN ops, ~InQueue(i)
    PROVE  status'[i] = status[i] /\ ~InQueue(i)'
<1>1. PICK D : OthersStill(s) /\ Settles(s, D)
  BY PoolStepSettles DEF QueueInv
<1>2. i \notin D
  <2> SUFFICES ASSUME i \in D PROVE FALSE
    OBVIOUS
  <2>1. PICK j \in DOMAIN chain[s][1].entries :
           Pends(s, 1, j) /\ chain[s][1].entries[j] = i
    BY <1>1 DEF Settles
  <2>2. 1 \in DOMAIN chain[s]
    BY <2>1 DEF Pends
  <2> QED  BY <2>1, <2>2 DEF InQueue
<1>3. status'[i] = status[i]
  BY <1>1, <1>2, OpFacts DEF Settles, PoolInv
<1>4. ASSUME NEW t \in Stacks, NEW k \in DOMAIN chain'[t],
             NEW j \in DOMAIN chain'[t][k].entries, Pends(t, k, j)',
             chain'[t][k].entries[j] = i
      PROVE  FALSE
  <2>1. CASE t # s
    <3>1. chain'[t] = chain[t] /\ Pends(t, k, j)
      BY <1>1, <1>4, <2>1, PlacesElsewhere
    <3> QED  BY <1>4, <3>1 DEF InQueue
  <2>2. CASE t = s
    <3>1. PICK m \in DOMAIN chain[s] :
              /\ chain'[s][k].entries = chain[s][m].entries
              /\ j \in DOMAIN chain[s][m].entries /\ Pends(s, m, j)
      BY <1>1, <1>4, <2>2, PlacesAfter DEF PoolInv
    <3> QED  BY <1>4, <2>2, <3>1 DEF InQueue
  <2> QED  BY <2>1, <2>2
<1> QED  BY <1>3, <1>4 DEF InQueue

(* Steps that touch no operation.                                          *)
LEMMA TurnKeepsEnd ==
    ASSUME EndInv, UNCHANGED <<ops, status, poolVars>>,
           pc = "dispatch" => fatal # 0, pc' # "dispatch",
           pc' = "rollback" => trigger' # "none",
           pc' = "done" /\ trigger' = "none" => fatal = 0
    PROVE  EndInv'
<1>1. QueueInv' /\ \A Q : Accounted(Q) => Accounted(Q)'
  BY StutterKeepsQueues DEF EndInv
<1>2. fatal' = fatal
  BY DEF poolVars
<1>3. Accounted({})'
  <2>1. CASE fatal # 0
    BY <1>2, <2>1 DEF Accounted
  <2>2. CASE fatal = 0
    BY <1>1, <2>2 DEF EndInv, OwnCall
  <2> QED  BY <2>1, <2>2
<1>4. OwnCall' = {}
  BY DEF OwnCall
<1> QED  BY <1>1, <1>2, <1>3, <1>4 DEF EndInv, Accounted, InQueue

LEMMA TurningKeepsEnd ==
    ASSUME IInv, EndInv,
           \/ \E r \in Request : NextOp(r)
           \/ Cancel \/ EndOfIr \/ PlanError \/ Drain \/ Undo
    PROVE  EndInv'
<1>1. CASE \E r \in Request : NextOp(r)
  BY <1>1, TurnKeepsEnd DEF NextOp, vars
<1>2. CASE Cancel \/ EndOfIr
  BY <1>2, TurnKeepsEnd DEF Cancel, EndOfIr, vars
<1>3. CASE PlanError
  BY <1>3, TurnKeepsEnd DEF PlanError, StartRollback, vars
<1>4. CASE Drain
  BY <1>4, TurnKeepsEnd DEF Drain, DrainedFatal, DrainedCancelled, DrainedEnd,
     StartRollback, vars
<1>5. CASE RollbackEnds
  BY <1>5, TurnKeepsEnd DEF RollbackEnds, vars, EndInv
<1>6. CASE UndoSet \/ UndoCreate \/ UndoAdd \/ UndoPrune
  <2>1. pc = "rollback" /\ \E ok : Undone(ok)
    BY <1>6 DEF UndoSet, UndoCreate, UndoAdd, UndoPrune, Undoing
  <2>2. pc' = "rollback" /\ trigger' = trigger /\ UNCHANGED <<ops, status, poolVars>>
    BY <2>1 DEF Undone
  <2> QED  BY <2>1, <2>2, TurnKeepsEnd DEF EndInv
<1> QED  BY <1>1, <1>2, <1>3, <1>4, <1>5, <1>6 DEF Undo

LEMMA PlanKeepsEnd ==
    ASSUME IInv, EndInv, pc = "plan", NEW a \in Op, Plans(a)
    PROVE  EndInv'
<1>1. Accounted({}) /\ QueueInv /\ PoolInv
  BY DEF EndInv, IInv, OwnCall
<1>2. {"queued", "skip", "noop"} \subseteq Status
  BY DEF Status
<1>3. CASE \E st \in {"skip", "noop"} : Notes(a, st)
  <2>1. PICK st \in {"skip", "noop"} : Notes(a, st)
    BY <1>3
  <2>2. /\ ops' = Append(ops, a) /\ status' = Append(status, st)
        /\ UNCHANGED poolVars /\ pc' = "loop"
    BY <2>1 DEF Notes, Record
  <2>3. PICK i : i = Len(ops) + 1
    OBVIOUS
  <2>4. QueueInv' /\ Accounted({})'
    BY <1>1, <1>2, <2>2, <2>3, NoteKeepsQueues
  <2> QED  BY <2>2, <2>4 DEF EndInv, OwnCall, Accounted, InQueue
<1>4. CASE ToDispatch(a)
  <2>1. /\ ops' = Append(ops, a) /\ status' = Append(status, "queued")
        /\ UNCHANGED poolVars /\ pc' = "dispatch"
    BY <1>4 DEF ToDispatch, Record
  <2>2. PICK i : i = Len(ops) + 1
    OBVIOUS
  <2>3. QueueInv' /\ Accounted({} \cup {i})'
    BY <1>1, <1>2, <2>1, <2>2, NoteKeepsQueues
  <2>4. Latest' = i /\ status'[i] = "queued" /\ i \notin DOMAIN ops
    <3>1. ops \in Seq(Op) /\ Len(ops') = Len(ops) + 1
      BY <1>1, <2>1, AppendFacts DEF PoolInv, ResultsInv
    <3>2. status'[i] = "queued" /\ i \notin DOMAIN ops
      BY <1>1, <1>2, <2>1, <2>2, RecordedFacts DEF PoolInv
    <3> QED  BY <2>2, <3>1, <3>2 DEF Latest
  <2>5. OwnCall' = {i}
    BY <2>1, <2>4 DEF OwnCall
  <2>6. Accounted(OwnCall)'
    BY <2>3, <2>5 DEF Accounted, InQueue
  <2>7. ~InQueue(i)'
    <3>1. UNCHANGED <<chain, at, step>>
      BY <2>1 DEF poolVars
    <3>2. \A s \in Stacks : \A k \in DOMAIN chain[s] : \A j \in DOMAIN chain[s][k].entries :
             chain[s][k].entries[j] # i
      BY <1>1, <2>4 DEF PoolInv, StacksInv, TasksKnown
    <3> QED  BY <3>1, <3>2 DEF InQueue
  <2> QED  BY <2>1, <2>3, <2>4, <2>6, <2>7 DEF EndInv, InQueue
<1>5. CASE a.kind \in {"set", "add"} /\ ToPool(a) /\ Pooled
  <2>1. /\ ops' = Append(ops, a) /\ status' = Append(status, "queued")
        /\ UNCHANGED tenant /\ Enqueue(Len(ops) + 1, a) /\ pc' = "loop"
    BY <1>5 DEF ToPool, Record
  <2>2. QueueInv' /\ Accounted({})'
    BY <1>1, <1>5, <2>1, EnqueueKeepsQueues
  <2> QED  BY <2>1, <2>2 DEF EndInv, OwnCall, Accounted, InQueue
<1> QED  BY <1>3, <1>4, <1>5 DEF Plans, ToPool

(* The loop's own call is answered.                                        *)
LEMMA DispatchKeepsEnd ==
    ASSUME IInv, EndInv, pc = "dispatch", Drained, StacksStill,
           Dispatched \/ \E r : DispatchFailed(r)
    PROVE  EndInv'
<1>1. Latest \in DOMAIN ops /\ Latest \in Nat /\ status[Latest] = "queued"
  BY LatestOp, OpFacts DEF IInv, PoolInv, EndInv
<1>2. DOMAIN status = DOMAIN ops /\ \A k \in DOMAIN applied : applied[k] \in DOMAIN ops
  BY DEF IInv, PoolInv, ResultsInv, ResultsKnown
<1>3. /\ ops' = ops /\ UNCHANGED <<chain, at, step, fatal>>
      /\ \A s \in Stacks : chain[s] = <<>>
  BY DEF StacksStill, Drained, Settled
<1>4. applied \in Seq(Nat \ {0})
  BY DEF IInv, PoolInv, ResultsInv
<1>5. \/ status' = [status EXCEPT ![Latest] = "applied"] /\ applied' = Append(applied, Latest)
      \/ /\ \E st \in {"skip", "error"} : status' = [status EXCEPT ![Latest] = st]
         /\ applied' = applied
  BY DEF Dispatched, DispatchFailed
<1>6. pc' \in {"loop", "rollback"} /\ (pc' = "rollback" => trigger' # "none")
  BY DEF Dispatched, DispatchFailed, StartRollback
<1>7. QueuesOrdered' /\ HeadClaimed'
  BY <1>3 DEF EndInv, QueueInv, QueuesOrdered, HeadClaimed, Head1
<1>8. \A s \in Stacks : DOMAIN chain'[s] = {}
  BY <1>3
<1>9. PendingQueued' /\ AppliedOlder'
  BY <1>8 DEF PendingQueued, AppliedOlder
<1>10. DOMAIN status' = DOMAIN status
       /\ \A i \in DOMAIN status \ {Latest} : status'[i] = status[i]
  BY <1>5
<1>11. AppliedOnce'
  <2>1. AppliedOnce
    BY DEF EndInv, QueueInv
  <2>2. \A k \in DOMAIN applied : applied[k] # Latest
    BY <1>1, <2>1 DEF AppliedOnce
  <2>3. CASE applied' = applied
    <3>1. status'[Latest] # "applied"
      BY <1>1, <1>2, <1>4, <1>5, <2>3, AppendFacts
    <3> QED  BY <1>2, <1>10, <2>1, <2>2, <2>3, <3>1 DEF AppliedOnce
  <2>4. CASE applied' = Append(applied, Latest) /\ status'[Latest] = "applied"
    <3> DEFINE n == Len(applied) + 1
    <3>1. /\ DOMAIN applied' = DOMAIN applied \cup {n} /\ applied'[n] = Latest
          /\ \A k \in DOMAIN applied : k # n /\ applied'[k] = applied[k]
      <4>1. Latest \in Nat \ {0}
        BY <1>1, OpFacts DEF IInv, PoolInv
      <4> QED  BY <1>4, <2>4, <4>1, AppendFacts
    <3> HIDE DEF n
    <3> QED  BY <1>2, <1>10, <2>1, <2>2, <2>4, <3>1 DEF AppliedOnce
  <2> QED  BY <1>1, <1>2, <1>5, <2>3, <2>4
<1>12. Accounted(OwnCall)'
  <2>1. OwnCall = {Latest} /\ OwnCall' = {}
    BY <1>6 DEF OwnCall
  <2>2. status'[Latest] # "queued"
    BY <1>1, <1>2, <1>5
  <2>3. \A i : InQueue(i)' <=> InQueue(i)
    BY <1>3 DEF InQueue, Pends
  <2> QED  BY <1>2, <1>3, <1>10, <2>1, <2>2, <2>3 DEF EndInv, Accounted
<1> QED  BY <1>6, <1>7, <1>9, <1>11, <1>12 DEF EndInv, QueueInv

LEMMA PoolRunsKeepsEnd ==
    ASSUME IInv, EndInv, PoolRuns
    PROVE  EndInv'
<1>1. PICK s \in Stacks : PoolStep(s)
  BY DEF PoolRuns
<1>2. UNCHANGED <<pc, trigger>>
  BY DEF PoolRuns, execVars, loopVars
<1>3. QueueInv' /\ \A Q : Accounted(Q) => Accounted(Q)'
  BY <1>1, PoolStepKeepsQueues DEF IInv, EndInv
<1>4. ops' = ops /\ OwnCall' = OwnCall
  BY <1>1, <1>2, AppliedGrows DEF IInv, OwnCall, Latest
<1>5. Accounted(OwnCall)'
  BY <1>3, <1>4 DEF EndInv, Accounted, InQueue
<1>6. pc = "done" => trigger = "plan-error"
  BY <1>1, DrainedIsStill DEF IInv, DrainedBeforeRollback
<1>7. pc = "dispatch" => status'[Latest'] = "queued" /\ ~InQueue(Latest)'
  <2> SUFFICES ASSUME pc = "dispatch" PROVE status'[Latest'] = "queued" /\ ~InQueue(Latest)'
    OBVIOUS
  <2>1. PICK i \in DOMAIN ops : i = Latest
    BY LatestOp
  <2>2. status'[i] = status[i] /\ ~InQueue(i)'
    BY <1>1, <2>1, OutOfQueue DEF IInv, EndInv
  <2>3. Latest' = i
    BY <1>4, <2>1 DEF Latest
  <2> QED  BY <2>1, <2>2, <2>3 DEF EndInv, InQueue
<1> QED  BY <1>2, <1>3, <1>4, <1>5, <1>6, <1>7 DEF EndInv

LEMMA EndInit == Init => EndInv
  BY InitialQueues DEF Init, EndInv, PoolInit

LEMMA EndStep == IInv /\ EndInv /\ [Next]_allVars => EndInv'
<1> SUFFICES ASSUME IInv, EndInv, [Next]_allVars PROVE EndInv'
  OBVIOUS
<1>1. CASE \/ \E r \in Request : NextOp(r)
           \/ Cancel \/ EndOfIr \/ PlanError \/ Drain \/ Undo
  BY <1>1, TurningKeepsEnd
<1>2. CASE Plan /\ ~PlanError
  BY <1>2, PlanRecords, PlanKeepsEnd
<1>3. CASE DispatchSet \/ DispatchAdd \/ DispatchCreate \/ DispatchPrune
  <2>1. pc = "dispatch" /\ Drained /\ StacksStill
    BY <1>3 DEF DispatchSet, DispatchAdd, DispatchCreate, DispatchPrune, Dispatching,
       StacksStill
  <2>2. Dispatched \/ \E r : DispatchFailed(r)
    BY <1>3 DEF DispatchSet, DispatchAdd, DispatchCreate, DispatchPrune
  <2> QED  BY <2>1, <2>2, DispatchKeepsEnd
<1>4. CASE PoolRuns
  BY <1>4, PoolRunsKeepsEnd
<1>5. CASE UNCHANGED allVars
  <2>1. UNCHANGED <<ops, status, poolVars, pc, trigger>>
    BY <1>5 DEF allVars, vars, execVars, loopVars
  <2>2. QueueInv' /\ \A Q : Accounted(Q) => Accounted(Q)'
    BY <2>1, StutterKeepsQueues DEF EndInv
  <2> QED  BY <2>1, <2>2 DEF EndInv, OwnCall, Latest, Accounted, InQueue, Pends, poolVars
<1> QED  BY <1>1, <1>2, <1>3, <1>4, <1>5 DEF Next, LoopStep

LEMMA InvResultIsFinal == IInv /\ EndInv => ResultIsFinal
<1> SUFFICES ASSUME IInv, EndInv, pc = "done", trigger = "none"
             PROVE  Drained /\ \A k \in DOMAIN status : status[k] # "queued"
  BY DEF ResultIsFinal
<1>1. Drained
  BY DEF IInv, DrainedBeforeRollback
<1>2. \A i : ~InQueue(i)
  BY <1>1 DEF InQueue, Drained, Settled
<1>3. DOMAIN status = DOMAIN ops
  BY DEF IInv, PoolInv, ResultsInv, ResultsKnown
<1> QED  BY <1>1, <1>2, <1>3 DEF EndInv, OwnCall, Accounted

(* When a push ends without having been aborted, no call is in flight and  *)
(* every operation has its outcome (drainPool before the result is built). *)
THEOREM ResultsAreFinal == Spec => []ResultIsFinal
  BY ExecutorInit, ExecutorStep, EndInit, EndStep, InvResultIsFinal, PTL DEF Spec

------------------------------------------------------------------------------
(* The shared field of an item, as its writes come and go.                 *)

(* The stack of an item's shared field, and the field writes planned on a  *)
(* stack: all of them, the ones without an outcome, and the ones whose     *)
(* value the push counts on.                                               *)
Home(i) == <<i, Shared>>

WritesOf(s) == {k \in DOMAIN ops : ops[k].kind = "set" /\ ops[k].stack = s}

Awaited(s) == {k \in WritesOf(s) : status[k] = "queued"}

Counted(s) == {k \in WritesOf(s) : status[k] \in {"applied", "noop", "queued"}}

(* The value the shared field of stack s will have when the calls made for *)
(* it have landed.                                                         *)
Coming(s, x) ==
    /\ Awaited(s) = {} => cell[s][1] = x
    /\ \A k \in Awaited(s) : (\A j \in Awaited(s) : j <= k) => ops[k].value = x

(* No write of stack s has failed, and nothing else dooms the push.        *)
Spared(s) ==
    trigger = "none" /\ fatal = 0 /\ \A k \in WritesOf(s) : status[k] # "error"

(* Writes of shared fields: one version, known items that nothing deletes, *)
(* and on an item only a create found live no more than that create's one. *)
HomeWrites ==
    \A i \in Items : \A k \in WritesOf(Home(i)) :
        /\ ops[k].version = 1
        /\ i \in Existing /\ i \notin {Children[n] : n \in DOMAIN Children}
        /\ i \notin Seeded => WritesOf(Home(i)) = {k}

-----------------------------------------------------------------------------
(* What a step can do to the writes of a stack: nothing that shows, land   *)
(* the oldest of them, or fail one.                                        *)
StaysAt(s) ==
    /\ \A k \in WritesOf(s) : status'[k] = status[k]
    /\ cell'[s][1] = cell[s][1] \/ Awaited(s) # {}

LandsAt(s) ==
    \E W \in SUBSET Awaited(s) : \E m \in W :
        /\ \A k \in W : k <= m
        /\ \A k \in Awaited(s) \ W : m < k
        /\ cell'[s][1] = ops[m].value
        /\ \A k \in WritesOf(s) : status'[k] = IF k \in W THEN "applied" ELSE status[k]

FailsAt(s) == \E k \in WritesOf(s) : status'[k] = "error"

(* Whichever it is, what the field will hold stays what it was.            *)
LEMMA SparedStays ==
    ASSUME PoolInv, ops' = ops, trigger' = "none" => trigger = "none",
           fatal' = 0 => fatal = 0,
           NEW s, StaysAt(s) \/ LandsAt(s) \/ FailsAt(s), Spared(s)',
           \A k \in WritesOf(s) : status[k] = "error" => status'[k] = "error"
    PROVE  /\ Spared(s) /\ WritesOf(s)' = WritesOf(s) /\ Counted(s)' = Counted(s)
           /\ \A x : Coming(s, x) => Coming(s, x)'
<1>1. WritesOf(s)' = WritesOf(s) /\ Spared(s) /\ ~FailsAt(s)
  BY DEF WritesOf, Spared, FailsAt
<1>2. \A k \in WritesOf(s) : k \in Nat
  BY OpFacts DEF WritesOf, PoolInv
<1>3. CASE StaysAt(s)
  <2>1. Awaited(s)' = Awaited(s) /\ Counted(s)' = Counted(s)
    BY <1>1, <1>3 DEF StaysAt, Awaited, Counted
  <2> QED  BY <1>1, <1>3, <2>1 DEF StaysAt, Coming
<1>4. CASE LandsAt(s)
  <2>1. PICK W \in SUBSET Awaited(s) : \E m \in W :
            /\ \A k \in W : k <= m
            /\ \A k \in Awaited(s) \ W : m < k
            /\ cell'[s][1] = ops[m].value
            /\ \A k \in WritesOf(s) :
                  status'[k] = IF k \in W THEN "applied" ELSE status[k]
    BY <1>4 DEF LandsAt
  <2>2. PICK m \in W :
            /\ \A k \in W : k <= m
            /\ \A k \in Awaited(s) \ W : m < k
            /\ cell'[s][1] = ops[m].value
            /\ \A k \in WritesOf(s) :
                  status'[k] = IF k \in W THEN "applied" ELSE status[k]
    BY <2>1
  <2>3. Awaited(s)' = Awaited(s) \ W
    BY <1>1, <2>2 DEF Awaited
  <2>4. Counted(s)' = Counted(s)
    BY <1>1, <2>2 DEF Awaited, Counted
  <2>5. ASSUME NEW x, Coming(s, x) PROVE Coming(s, x)'
    <3>1. ASSUME Awaited(s)' = {} PROVE cell'[s][1] = x
      <4>1. m \in Awaited(s) /\ \A j \in Awaited(s) : j <= m
        BY <2>2, <2>3, <3>1
      <4> QED  BY <2>2, <2>5, <4>1 DEF Coming
    <3>2. ASSUME NEW k \in Awaited(s)', \A j \in Awaited(s)' : j <= k
          PROVE  ops[k].value = x
      <4>1. k \in Awaited(s) \ W /\ m < k
        BY <2>2, <2>3, <3>2
      <4>2. \A j \in Awaited(s) : j <= k
        <5> SUFFICES ASSUME NEW j \in Awaited(s) PROVE j <= k
          OBVIOUS
        <5>1. j \in Nat /\ k \in Nat /\ m \in Nat
          BY <1>2, <4>1 DEF Awaited
        <5> QED  BY <2>2, <2>3, <3>2, <4>1, <5>1
      <4> QED  BY <2>5, <4>1, <4>2 DEF Coming
    <3> QED  BY <3>1, <3>2 DEF Coming
  <2> QED  BY <1>1, <2>4, <2>5
<1> QED  BY <1>1, <1>3, <1>4

-----------------------------------------------------------------------------
(* The pool at a stack of a shared field.                                  *)

(* What is awaited of a stack, and is not among what its head task carries,*)
(* is newer than all of that.                                              *)
LEMMA AwaitedLater ==
    ASSUME IInv, EndInv, HomeWrites, fatal = 0, NEW i \in Items,
           NEW k \in Awaited(Home(i)), NEW j \in DOMAIN chain[Home(i)][1].entries,
           1 \in DOMAIN chain[Home(i)], Pends(Home(i), 1, j),
           chain[Home(i)][1].kind = "cell"
    PROVE  LET e == chain[Home(i)][1].entries IN
           \/ e[j] < k
           \/ \E l \in DOMAIN e : Pends(Home(i), 1, l) /\ e[l] = k
<1> DEFINE s == Home(i)
           e == chain[s][1].entries
<1>1. s \in Stacks
  BY ConstantFacts DEF Home, Stacks
<1>2. k \in DOMAIN ops /\ status[k] = "queued" /\ ops[k].stack = s
      /\ ops[k].kind = "set" /\ ops[k].version = 1
  BY DEF Awaited, WritesOf, HomeWrites
<1>3. e[j] \in DOMAIN ops /\ ops[e[j]].stack = s /\ ops[e[j]].kind = "set"
      /\ ops[e[j]].version = chain[s][1].version
  <2>1. e[j] \in DOMAIN ops
    BY <1>1 DEF IInv, PoolInv, StacksInv, TasksKnown
  <2>2. InTask(chain[s][1], s, ops)
    BY <1>1 DEF EndInv, QueueInv, QueuesOrdered, WellQueued
  <2> QED  BY <2>1, <2>2 DEF InTask
<1>4. chain[s][1].version = 1
  BY <1>3 DEF HomeWrites, WritesOf
<1>5. k \in Nat /\ e[j] \in Nat /\ ops \in Seq(Op)
  BY <1>2, <1>3, OpFacts DEF IInv, PoolInv, ResultsInv
<1>6. CASE k \in OwnCall
  <2>1. k = Len(ops) /\ ~InQueue(k)
    BY <1>6 DEF OwnCall, Latest, EndInv
  <2>2. e[j] # k
    BY <1>1, <2>1 DEF InQueue
  <2>3. \A y \in DOMAIN ops : y < Len(ops) \/ y = Len(ops)
    BY <1>5
  <2> QED  BY <1>3, <2>1, <2>2, <2>3
<1>7. CASE k \notin OwnCall
  <2>1. InQueue(k)
    BY <1>2, <1>7 DEF EndInv, Accounted
  <2>2. PICK t \in Stacks : \E p \in DOMAIN chain[t] : \E l \in DOMAIN chain[t][p].entries :
            Pends(t, p, l) /\ chain[t][p].entries[l] = k
    BY <2>1 DEF InQueue
  <2>3. PICK p \in DOMAIN chain[t] : \E l \in DOMAIN chain[t][p].entries :
            Pends(t, p, l) /\ chain[t][p].entries[l] = k
    BY <2>2
  <2>4. PICK l \in DOMAIN chain[t][p].entries :
            Pends(t, p, l) /\ chain[t][p].entries[l] = k
    BY <2>3
  <2>5. t = s
    BY <1>2, <2>4, OwnStack DEF EndInv, QueueInv
  <2>6. CASE p = 1
    BY <2>4, <2>5, <2>6
  <2>7. CASE p # 1
    <3>1. chain[s] \in Seq(Task)
      BY <1>1 DEF IInv, PoolInv, StacksInv
    <3>2. 1 < p /\ chain[s][p] \in Task
      BY <2>5, <2>7, <3>1
    <3>3. chain[s][p].kind = "add" \/ chain[s][p].version = 1
      <4>1. chain[s][p].kind \in {"cell", "add"}
        BY <3>2 DEF Task
      <4>2. InTask(chain[s][p], s, ops)
        BY <1>1, <2>5 DEF EndInv, QueueInv, QueuesOrdered, WellQueued
      <4> QED  BY <1>2, <2>4, <2>5, <4>1, <4>2 DEF InTask
    <3>4. Older(chain[s][1], chain[s][p])
      BY <1>1, <1>4, <2>5, <3>2, <3>3
      DEF EndInv, QueueInv, QueuesOrdered, WellQueued, Before
    <3> QED  BY <2>4, <2>5, <3>4 DEF Older
  <2> QED  BY <2>6, <2>7
<1> QED  BY <1>6, <1>7

------------------------------------------------------------------------------
(* The steps of the pool at such a field.                                  *)

(* The head task of such a stack, while it runs, holds awaited writes.     *)
LEMMA HomeHead ==
    ASSUME IInv, EndInv, HomeWrites, NEW i \in Items,
           at[Home(i)] \in {"merged", "single"}
    PROVE  /\ Home(i) \in Stacks
           /\ 1 \in DOMAIN chain[Home(i)] /\ Head1(Home(i)) = chain[Home(i)][1]
           /\ chain[Home(i)][1].kind = "cell" /\ chain[Home(i)][1].version = 1
           /\ chain[Home(i)][1].entries \in Seq(Nat \ {0})
           /\ 1 \in DOMAIN chain[Home(i)][1].entries
           /\ \A j, k \in DOMAIN chain[Home(i)][1].entries :
                 j < k => chain[Home(i)][1].entries[j] < chain[Home(i)][1].entries[k]
           /\ \A j \in DOMAIN chain[Home(i)][1].entries :
                 chain[Home(i)][1].entries[j] \in WritesOf(Home(i))
           /\ \A j \in DOMAIN chain[Home(i)][1].entries :
                 Pends(Home(i), 1, j)
                     => chain[Home(i)][1].entries[j] \in Awaited(Home(i))
<1> DEFINE s == Home(i)
           t == chain[s][1]
<1>1. s \in Stacks
  BY ConstantFacts DEF Home, Stacks
<1>2. chain[s] # <<>>
  BY <1>1 DEF IInv, PoolInv, StacksInv, HeadRuns
<1>3. /\ 1 \in DOMAIN chain[s] /\ Head1(s) = t
      /\ t.entries \in Seq(Nat \ {0}) /\ 1 \in DOMAIN t.entries
  BY <1>1, <1>2, HeadFacts DEF IInv, PoolInv
<1>4. t.kind = "cell"
  BY <1>1, <1>3 DEF EndInv, QueueInv, HeadClaimed
<1>5. InTask(t, s, ops)
  BY <1>1, <1>3 DEF EndInv, QueueInv, QueuesOrdered, WellQueued
<1>6. \A j \in DOMAIN t.entries : t.entries[j] \in DOMAIN ops
  BY <1>1, <1>3 DEF IInv, PoolInv, StacksInv, TasksKnown
<1>7. \A j \in DOMAIN t.entries :
         t.entries[j] \in WritesOf(s) /\ ops[t.entries[j]].version = t.version
  BY <1>4, <1>5, <1>6 DEF InTask, WritesOf
<1>8. t.version = 1
  BY <1>3, <1>7 DEF HomeWrites
<1>9. \A j \in DOMAIN t.entries : Pends(s, 1, j) => status[t.entries[j]] = "queued"
  BY <1>1, <1>3 DEF EndInv, QueueInv, PendingQueued
<1>10. \A j \in DOMAIN t.entries : Pends(s, 1, j) => t.entries[j] \in Awaited(s)
  BY <1>7, <1>9 DEF Awaited
<1>11. \A j, k \in DOMAIN t.entries : j < k => t.entries[j] < t.entries[k]
  BY <1>5 DEF InTask
<1> QED  BY <1>1, <1>3, <1>4, <1>7, <1>8, <1>10, <1>11

LEMMA OkAtHome ==
    ASSUME PoolInv, NEW i \in Items, NEW m \in DOMAIN ops, Write(Home(i), 1, m, "ok")
    PROVE  cell'[Home(i)][1] = ops[m].value
<1>1. Home(i) \in Stacks /\ 1 \in Versions
  BY ConstantFacts DEF Home, Stacks
<1>2. cell \in [Stacks -> [Versions -> Values]]
  BY DEF PoolInv, ResultsInv
<1> QED  BY <1>1, <1>2 DEF Write, Landed

LEMMA MergedAtHome ==
    ASSUME IInv, EndInv, HomeWrites, fatal = 0, NEW i \in Items, AnswerMerged(Home(i))
    PROVE  StaysAt(Home(i)) \/ LandsAt(Home(i))
<1> DEFINE s == Home(i)
           t == chain[s][1]
           e == t.entries
           n == Len(e)
           W == {e[k] : k \in DOMAIN e}
<1>1. /\ at[s] = "merged" /\ Head1(s) = t /\ t.version = 1 /\ 1 \in DOMAIN chain[s]
      /\ t.kind = "cell" /\ e \in Seq(Nat \ {0}) /\ 1 \in DOMAIN e
      /\ \A j, k \in DOMAIN e : j < k => e[j] < e[k]
      /\ \A j \in DOMAIN e : Pends(s, 1, j) => e[j] \in Awaited(s)
  <2>1. at[s] = "merged"
    BY DEF AnswerMerged
  <2> QED  BY <2>1, HomeHead
<1>2. \A j \in DOMAIN e : Pends(s, 1, j)
  BY <1>1 DEF Pends
<1>3. W \subseteq Awaited(s)
  <2> SUFFICES ASSUME NEW j \in DOMAIN e PROVE e[j] \in Awaited(s)
    OBVIOUS
  <2>1. at[s] = "merged"
    BY <1>1
  <2>2. Pends(s, 1, j)
    BY <1>2
  <2> QED  BY <2>1, <2>2, HomeHead
<1>4. n \in DOMAIN e /\ e[n] \in W /\ \A k \in DOMAIN e : k < n \/ k = n
  BY <1>1
<1>5. \A x \in W : x \in Nat
  BY <1>1
<1>6. \A x \in W : x <= e[n]
  <2> SUFFICES ASSUME NEW k \in DOMAIN e PROVE e[k] <= e[n]
    OBVIOUS
  <2>1. k < n \/ k = n
    BY <1>4
  <2>2. e[k] \in Nat /\ e[n] \in Nat
    BY <1>4, <1>5
  <2> QED  BY <1>1, <1>4, <2>1, <2>2
<1>7. \A k \in Awaited(s) \ W : e[n] < k
  <2> SUFFICES ASSUME NEW k \in Awaited(s), k \notin W PROVE e[n] < k
    OBVIOUS
  <2>1. e[n] < k \/ \E l \in DOMAIN e : Pends(s, 1, l) /\ e[l] = k
    BY <1>1, <1>2, <1>4, AwaitedLater
  <2> QED  BY <2>1
<1>8. PICK r \in Answers(s, 1) :
          /\ Write(s, 1, e[n], r)
          /\ IF r = "ok"
             THEN status' = [x \in DOMAIN status |->
                                  IF \E k \in DOMAIN e : e[k] = x
                                  THEN "applied" ELSE status[x]]
             ELSE UNCHANGED status
  BY <1>1 DEF AnswerMerged, Topmost
<1>9. e[n] \in DOMAIN ops
  BY <1>3, <1>4 DEF Awaited, WritesOf
<1>10. CASE r = "ok"
  <2>1. cell'[s][1] = ops[e[n]].value
    BY <1>8, <1>9, <1>10, OkAtHome DEF IInv
  <2>2. \A k \in WritesOf(s) : k \in DOMAIN status
    BY OpFacts DEF IInv, PoolInv, WritesOf
  <2>3. \A k \in WritesOf(s) : status'[k] = IF k \in W THEN "applied" ELSE status[k]
    BY <1>8, <1>10, <2>2
  <2> HIDE DEF W, e, n
  <2> QED  BY <1>3, <1>4, <1>6, <1>7, <2>1, <2>3 DEF LandsAt
<1>11. CASE r # "ok"
  <2>1. \A k \in WritesOf(s) : status'[k] = status[k]
    BY <1>8, <1>11
  <2>2. Awaited(s) # {}
    BY <1>3, <1>4
  <2> QED  BY <2>1, <2>2 DEF StaysAt
<1> QED  BY <1>10, <1>11

LEMMA SingleAtHome ==
    ASSUME IInv, EndInv, HomeWrites, fatal = 0, NEW i \in Items, AnswerSingle(Home(i))
    PROVE  LandsAt(Home(i)) \/ FailsAt(Home(i))
<1> DEFINE s == Home(i)
           t == chain[s][1]
           e == t.entries
           m == e[step[s]]
<1>1. /\ at[s] = "single" /\ Head1(s) = t /\ t.version = 1 /\ 1 \in DOMAIN chain[s]
      /\ s \in Stacks
      /\ t.kind = "cell" /\ e \in Seq(Nat \ {0})
      /\ \A j, k \in DOMAIN e : j < k => e[j] < e[k]
      /\ \A j \in DOMAIN e : Pends(s, 1, j) => e[j] \in Awaited(s)
  <2>1. at[s] = "single"
    BY DEF AnswerSingle
  <2> QED  BY <2>1, HomeHead
<1>2. step[s] \in DOMAIN e /\ Pends(s, 1, step[s])
  <2>1. step[s] \in DOMAIN e
    BY <1>1 DEF IInv, PoolInv, StacksInv, HeadRuns
  <2> QED  BY <1>1, <2>1 DEF Pends
<1>3. m \in Awaited(s) /\ m \in Nat
  <2>1. at[s] = "single"
    BY <1>1
  <2>2. m \in Awaited(s)
    BY <1>2, <2>1, HomeHead
  <2>3. m \in Nat
    BY <1>1, <1>2
  <2> QED  BY <2>2, <2>3
<1>4. m \in DOMAIN ops /\ ops[m].stack = s /\ m \in WritesOf(s)
  BY <1>3 DEF Awaited, WritesOf
<1>5. \A k \in Awaited(s) \ {m} : m < k
  <2> SUFFICES ASSUME NEW k \in Awaited(s), k # m PROVE m < k
    OBVIOUS
  <2>1. m < k \/ \E l \in DOMAIN e : Pends(s, 1, l) /\ e[l] = k
    BY <1>1, <1>2, AwaitedLater
  <2>2. ASSUME NEW l \in DOMAIN e, Pends(s, 1, l), e[l] = k PROVE m < k
    <3>1. l \in Nat /\ step[s] \in Nat /\ l >= step[s] /\ l # step[s]
      BY <1>1, <1>2, <2>2 DEF Pends
    <3>2. step[s] < l
      BY <3>1
    <3> QED  BY <1>1, <1>2, <2>2, <3>2
  <2> QED  BY <2>1, <2>2
<1>6. PICK r \in Answers(s, 1) : Write(s, 1, m, r) /\ RecordAnswer(m, r)
  BY <1>1 DEF AnswerSingle
<1>7. status \in Seq(Status) /\ \A k \in WritesOf(s) : k \in DOMAIN status
  BY OpFacts DEF IInv, PoolInv, ResultsInv, WritesOf
<1> HIDE DEF m
<1>8. CASE r = "ok"
  <2>1. cell'[s][1] = ops[m].value
    BY <1>4, <1>6, <1>8, OkAtHome DEF IInv
  <2>2. status' = [status EXCEPT ![m] = "applied"]
    BY <1>6, <1>8 DEF RecordAnswer
  <2>3. \A k \in WritesOf(s) : status'[k] = IF k \in {m} THEN "applied" ELSE status[k]
    BY <1>7, <2>2
  <2>4. {m} \subseteq Awaited(s) /\ m \in {m} /\ \A k \in {m} : k <= m
    BY <1>3
  <2> QED  BY <1>5, <2>1, <2>3, <2>4 DEF LandsAt
<1>9. CASE r # "ok"
  <2>1. ~Skippable(m, r)
    BY <1>4, ExecutorAssumption DEF Skippable, Home
  <2>2. status' = [status EXCEPT ![m] = "error"]
    BY <1>6, <1>9, <2>1 DEF RecordAnswer
  <2> QED  BY <1>4, <1>7, <2>2 DEF FailsAt
<1> QED  BY <1>8, <1>9

(* A step of any stack, as the shared field of item i sees it.             *)
LEMMA PoolAtHome ==
    ASSUME IInv, EndInv, HomeWrites, NEW t \in Stacks, PoolStep(t), NEW i \in Items,
           fatal' = 0
    PROVE  /\ fatal = 0
           /\ StaysAt(Home(i)) \/ LandsAt(Home(i)) \/ FailsAt(Home(i))
           /\ \A k \in WritesOf(Home(i)) : status[k] = "error" => status'[k] = "error"
<1> DEFINE s == Home(i)
<1>1. s \in Stacks
  BY ConstantFacts DEF Home, Stacks
<1>2. PICK D : Settles(t, D)
  BY PoolStepSettles DEF IInv, EndInv, QueueInv
<1>3. fatal = 0
  BY <1>2 DEF Settles
<1>4. \A k \in D : status[k] = "queued" /\ k \in DOMAIN ops /\ ops[k].stack = t
  <2> SUFFICES ASSUME NEW k \in D
               PROVE  status[k] = "queued" /\ k \in DOMAIN ops /\ ops[k].stack = t
    OBVIOUS
  <2>1. PICK j \in DOMAIN chain[t][1].entries : Pends(t, 1, j) /\ chain[t][1].entries[j] = k
    BY <1>2 DEF Settles
  <2>2. 1 \in DOMAIN chain[t]
    BY <2>1 DEF Pends
  <2>3. status[k] = "queued"
    BY <2>1, <2>2 DEF EndInv, QueueInv, PendingQueued
  <2>4. k \in DOMAIN ops
    BY <2>1, <2>2 DEF IInv, PoolInv, StacksInv, TasksKnown
  <2>5. ops[k].stack = t
    BY <2>1, <2>2, OwnStack DEF EndInv, QueueInv
  <2> QED  BY <2>3, <2>4, <2>5
<1>5. \A k \in WritesOf(s) : k \in DOMAIN status /\ ops[k].stack = s /\ ops[k].kind = "set"
  BY OpFacts DEF IInv, PoolInv, WritesOf
<1>6. \A k \in WritesOf(s) : status[k] = "error" => status'[k] = "error"
  <2> SUFFICES ASSUME NEW k \in WritesOf(s), status[k] = "error" PROVE status'[k] = "error"
    OBVIOUS
  <2>1. k \notin D
    BY <1>4
  <2> QED  BY <1>2, <1>5, <2>1 DEF Settles
<1>7. CASE Proceed(t)
  <2>1. UNCHANGED <<status, cell>>
    BY <1>7, ProceedIsLocal DEF IInv, PoolInv
  <2> QED  BY <1>3, <1>6, <2>1 DEF StaysAt
<1>8. CASE Answer(t) /\ t # s
  <2>1. \A k \in WritesOf(s) : status'[k] = status[k]
    <3> SUFFICES ASSUME NEW k \in WritesOf(s) PROVE status'[k] = status[k]
      OBVIOUS
    <3>1. k \notin D
      BY <1>4, <1>5, <1>8
    <3> QED  BY <1>2, <1>5, <3>1 DEF Settles
  <2>2. cell'[s] = cell[s]
    BY <1>1, <1>8 DEF Answer, AnswerMerged, AnswerSingle, AnswerAdd, Write, IInv, PoolInv,
       ResultsInv
  <2> QED  BY <1>3, <1>6, <2>1, <2>2 DEF StaysAt
<1>9. CASE Answer(t) /\ t = s
  <2>1. CASE AnswerMerged(s)
    BY <1>3, <1>6, <2>1, MergedAtHome
  <2>2. CASE AnswerSingle(s)
    BY <1>3, <1>6, <2>2, SingleAtHome
  <2>3. CASE AnswerAdd(s)
    <3>1. cell' = cell /\ at[s] = "adding"
      BY <2>3 DEF AnswerAdd
    <3>2. chain[s] # <<>>
      BY <1>1, <3>1 DEF IInv, PoolInv, StacksInv, HeadRuns
    <3>3. 1 \in DOMAIN chain[s] /\ Head1(s) = chain[s][1]
      BY <1>1, <3>2, HeadFacts DEF IInv, PoolInv
    <3>4. Head1(s).kind = "add"
      BY <1>1, <3>1 DEF EndInv, QueueInv, HeadClaimed
    <3>5. InTask(chain[s][1], s, ops)
      BY <1>1, <3>3 DEF EndInv, QueueInv, QueuesOrdered, WellQueued
    <3>6. \A k \in D : ops[k].kind = "add"
      <4> SUFFICES ASSUME NEW k \in D PROVE ops[k].kind = "add"
        OBVIOUS
      <4>1. PICK j \in DOMAIN chain[s][1].entries : chain[s][1].entries[j] = k
        BY <1>2, <1>9 DEF Settles
      <4> QED  BY <3>3, <3>4, <3>5, <4>1 DEF InTask
    <3>7. \A k \in WritesOf(s) : status'[k] = status[k]
      <4> SUFFICES ASSUME NEW k \in WritesOf(s) PROVE status'[k] = status[k]
        OBVIOUS
      <4>1. k \notin D
        BY <1>5, <3>6
      <4> QED  BY <1>2, <1>5, <4>1 DEF Settles
    <3> QED  BY <1>3, <1>6, <3>1, <3>7 DEF StaysAt
  <2> QED  BY <1>9, <2>1, <2>2, <2>3 DEF Answer
<1> QED  BY <1>7, <1>8, <1>9 DEF PoolStep

------------------------------------------------------------------------------
(* The cache and the tenant agree on what is coming: ConvInv.              *)

Prunees == {Children[n] : n \in DOMAIN Children}

(* The operation being planned is one a compiled program can hold next.    *)
Programmed == pc = "plan" => Sensible(cur) /\ NotPruned(cur)

(* A create is about to be sent for an item nothing has been planned for.  *)
CreateFirst ==
    \A i \in Items :
        pc = "dispatch" /\ ops[Latest].kind = "create" /\ ops[Latest].stack[1] = i =>
            /\ i \notin Seeded /\ WritesOf(Home(i)) = {}
            /\ i \notin Existing => i \notin present /\ snap[i] = None

(* The newest write the push counts on is the one that is coming ...       *)
CountsComing ==
    \A i \in Items : Spared(Home(i)) /\ Counted(Home(i)) # {} =>
        \E m \in Counted(Home(i)) :
            /\ \A j \in Counted(Home(i)) : j <= m
            /\ \A x : x = ops[m].value => Coming(Home(i), x)

(* ... and so is the value in the cache.                                   *)
CacheComing ==
    \A i \in Items :
        (i \in Seeded \/ i \notin Existing) /\ i \notin adopted
        /\ Spared(Home(i)) /\ snap[i] # None
            => \A x : x = snap[i].shared => Coming(Home(i), x)

(* Before the cache has an item nothing of it is awaited or counted on.    *)
ReadFirst ==
    \A i \in Seeded : Spared(Home(i)) /\ snap[i] = None => Counted(Home(i)) = {}

NotYetMade ==
    \A i \in Items : i \notin Existing /\ Planned(i) = {} /\ trigger = "none"
        => i \notin present /\ snap[i] = None

Running == pc \notin {"rollback", "done"} => trigger = "none"

PruneItems ==
    \A k \in DOMAIN ops : ops[k].kind = "prune" => ops[k].items \subseteq Prunees

ConvInv ==
    /\ HomeWrites /\ Programmed /\ CreateFirst
    /\ CountsComing /\ CacheComing /\ ReadFirst
    /\ NotYetMade /\ Running /\ PruneItems
    /\ adopted \cap Seeded = {}

LEMMA ConvInit == Init => ConvInv
<1> SUFFICES ASSUME Init PROVE ConvInv
  OBVIOUS
<1>1. ops = <<>> /\ pc = "loop" /\ adopted = {} /\ snap = [i \in Items |-> None]
      /\ present = Existing /\ trigger = "none"
  BY DEF Init
<1>2. \A s : WritesOf(s) = {} /\ Counted(s) = {}
  BY <1>1 DEF WritesOf, Counted
<1>3. HomeWrites /\ CountsComing /\ ReadFirst
  BY <1>2 DEF HomeWrites, CountsComing, ReadFirst
<1>4. Programmed /\ CreateFirst /\ Running
  BY <1>1 DEF Programmed, CreateFirst, Running
<1>5. CacheComing /\ NotYetMade
  <2>1. \A i \in Items : snap[i] = None
    BY <1>1
  <2>2. CacheComing
    BY <2>1 DEF CacheComing
  <2> QED  BY <1>1, <2>1, <2>2 DEF NotYetMade
<1>6. PruneItems
  BY <1>1 DEF PruneItems
<1> QED  BY <1>1, <1>3, <1>4, <1>5, <1>6 DEF ConvInv

(* Steps that touch no operation and no cache, and the tenant only while   *)
(* the push is undone.                                                     *)
LEMMA StillKeepsConv ==
    ASSUME ConvInv, UNCHANGED <<ops, status, poolVars, cacheVars>>,
           trigger' = "none" => trigger = "none" /\ UNCHANGED tenant,
           pc' # "dispatch",
           pc' = "plan" => Sensible(cur)' /\ NotPruned(cur)',
           pc' \notin {"rollback", "done"} => trigger' = "none"
    PROVE  ConvInv'
<1>1. /\ UNCHANGED <<ops, status, fatal, snap, adopted>>
      /\ trigger' = "none" => trigger = "none" /\ UNCHANGED <<cell, present>>
  BY DEF poolVars, cacheVars, tenant
<1>2. \A s : /\ WritesOf(s)' = WritesOf(s) /\ Counted(s)' = Counted(s)
             /\ Awaited(s)' = Awaited(s)
  BY <1>1 DEF WritesOf, Counted, Awaited
<1>3. \A s : Spared(s)' => /\ Spared(s)
                           /\ \A x : Coming(s, x) => Coming(s, x)'
  BY <1>1, <1>2 DEF Spared, Coming
<1>4. HomeWrites' /\ PruneItems'
  BY <1>1, <1>2 DEF ConvInv, HomeWrites, PruneItems
<1>5. Programmed' /\ CreateFirst' /\ Running'
  BY DEF Programmed, CreateFirst, Running
<1>6. CountsComing'
  BY <1>1, <1>2, <1>3 DEF ConvInv, CountsComing
<1>7. CacheComing'
  <2>1. \A i \in Items :
            (i \in Seeded \/ i \notin Existing) /\ i \notin adopted'
            /\ Spared(Home(i))' /\ snap'[i] # None
                => \A x : x = snap'[i].shared => Coming(Home(i), x)'
    BY <1>1, <1>3 DEF ConvInv, CacheComing
  <2> QED  BY <2>1 DEF CacheComing, Home
<1>9. ReadFirst'
  <2>1. \A i \in Seeded : Spared(Home(i))' /\ snap'[i] = None => Counted(Home(i))' = {}
    BY <1>1, <1>2, <1>3 DEF ConvInv, ReadFirst
  <2> QED  BY <2>1 DEF ReadFirst, Home
<1>8. NotYetMade'
  BY <1>1 DEF ConvInv, NotYetMade, Planned
<1> QED  BY <1>1, <1>4, <1>5, <1>6, <1>7, <1>8, <1>9 DEF ConvInv

LEMMA TurningKeepsConv ==
    ASSUME IInv, EndInv, ConvInv,
           \/ \E r \in Request : NextOp(r)
           \/ Cancel \/ EndOfIr \/ PlanError \/ Drain \/ Undo
    PROVE  ConvInv'
<1>1. CASE \E r \in Request : NextOp(r)
  <2>1. PICK r \in Request : NextOp(r)
    BY <1>1
  <2>2. /\ UNCHANGED <<ops, status, poolVars, cacheVars, tenant, trigger>>
        /\ pc = "loop" /\ pc' \in {"plan", "failing"}
        /\ pc' = "plan" => cur' = r /\ Sensible(r) /\ NotPruned(r)
    BY <2>1 DEF NextOp, vars
  <2>3. pc' = "plan" => Sensible(cur)' /\ NotPruned(cur)'
    BY <2>2 DEF Sensible, NotPruned, Planned
  <2>4. trigger' = "none"
    BY <2>2 DEF ConvInv, Running
  <2> QED  BY <2>2, <2>3, <2>4, StillKeepsConv
<1>2. CASE Cancel \/ EndOfIr
  <2>1. /\ UNCHANGED <<ops, status, poolVars, cacheVars, tenant, trigger>>
        /\ pc = "loop" /\ pc' \in {"cancelling", "ending"}
    BY <1>2 DEF Cancel, EndOfIr, vars
  <2>2. trigger' = "none"
    BY <2>1 DEF ConvInv, Running
  <2> QED  BY <2>1, <2>2, StillKeepsConv
<1>3. CASE PlanError \/ DrainedFatal \/ DrainedCancelled
  <2>1. /\ UNCHANGED <<ops, status, poolVars, cacheVars, tenant>>
        /\ pc' = "rollback" /\ trigger' # "none"
    BY <1>3 DEF PlanError, DrainedFatal, DrainedCancelled, StartRollback, vars
  <2> QED  BY <2>1, StillKeepsConv
<1>4. CASE DrainedEnd \/ RollbackEnds
  <2>1. /\ UNCHANGED <<ops, status, poolVars, cacheVars, tenant, trigger>>
        /\ pc' = "done"
    BY <1>4 DEF DrainedEnd, RollbackEnds, vars
  <2> QED  BY <2>1, StillKeepsConv
<1>5. CASE UndoSet \/ UndoCreate \/ UndoAdd \/ UndoPrune
  <2>1. pc = "rollback" /\ \E ok : Undone(ok)
    BY <1>5 DEF UndoSet, UndoCreate, UndoAdd, UndoPrune, Undoing
  <2>2. pc' = "rollback" /\ trigger' = trigger
        /\ UNCHANGED <<ops, status, poolVars, cacheVars>>
    BY <2>1 DEF Undone
  <2>3. trigger # "none"
    BY <2>1 DEF EndInv
  <2> QED  BY <2>2, <2>3, StillKeepsConv
<1> QED  BY <1>1, <1>2, <1>3, <1>4, <1>5 DEF Drain, Undo

-----------------------------------------------------------------------------
(* Planning.                                                               *)

(* One more operation, as stack s sees it.                                 *)
LEMMA RecordedAtHome ==
    ASSUME PoolInv, NEW a \in Op, NEW st \in {"queued", "skip", "noop"}, Record(a, st),
           UNCHANGED <<cell, trigger, fatal>>, NEW s
    PROVE  LET n == Len(ops) + 1
               mine == a.kind = "set" /\ a.stack = s IN
           /\ ops'[n] = a /\ n \notin DOMAIN ops
           /\ WritesOf(s) \subseteq DOMAIN ops
           /\ \A k \in WritesOf(s) : k <= n /\ ops'[k] = ops[k]
           /\ WritesOf(s)' = WritesOf(s) \cup (IF mine THEN {n} ELSE {})
           /\ Spared(s)' => Spared(s)
           /\ Counted(s)' = Counted(s) \cup (IF mine /\ st # "skip" THEN {n} ELSE {})
           /\ ~(mine /\ st = "queued") => \A x : Coming(s, x) => Coming(s, x)'
           /\ mine /\ st = "queued" => \A x : x = a.value => Coming(s, x)'
<1> DEFINE n == Len(ops) + 1
           mine == a.kind = "set" /\ a.stack = s
<1>1. /\ ops \in Seq(Op) /\ status \in Seq(Status) /\ Len(status) = Len(ops)
      /\ st \in Status
  BY DEF PoolInv, ResultsInv, ResultsKnown, Status
<1>2. /\ DOMAIN ops' = DOMAIN ops \cup {n} /\ ops'[n] = a /\ n \notin DOMAIN ops
      /\ \A k \in DOMAIN ops : ops'[k] = ops[k] /\ status'[k] = status[k] /\ k <= n
      /\ status'[n] = st
  BY <1>1, AppendFacts DEF Record
<1> HIDE DEF n
<1>3. WritesOf(s)' = WritesOf(s) \cup (IF mine THEN {n} ELSE {})
  BY <1>2 DEF WritesOf
<1>4. WritesOf(s) \subseteq DOMAIN ops /\ \A k \in WritesOf(s) : k <= n /\ ops'[k] = ops[k]
  BY <1>2 DEF WritesOf
<1>5. Awaited(s)' = Awaited(s) \cup (IF mine /\ st = "queued" THEN {n} ELSE {})
  BY <1>2, <1>3, <1>4 DEF Awaited
<1>6. Counted(s)' = Counted(s) \cup (IF mine /\ st # "skip" THEN {n} ELSE {})
  BY <1>2, <1>3, <1>4 DEF Counted
<1>7. Spared(s)' => Spared(s)
  BY <1>2, <1>3, <1>4 DEF Spared
<1>8. \A k \in Awaited(s) : k \in DOMAIN ops /\ ops'[k] = ops[k] /\ k <= n
  BY <1>4 DEF Awaited
<1>9. ASSUME ~(mine /\ st = "queued"), NEW x, Coming(s, x) PROVE Coming(s, x)'
  BY <1>5, <1>8, <1>9 DEF Coming
<1>10. ASSUME mine /\ st = "queued", NEW x, x = a.value PROVE Coming(s, x)'
  <2>1. Awaited(s)' = Awaited(s) \cup {n}
    BY <1>5, <1>10
  <2>2. ASSUME NEW k \in Awaited(s)', \A j \in Awaited(s)' : j <= k PROVE k = n
    <3>1. k \in Nat /\ n \in Nat
      BY <1>1, <1>2, <2>1, <1>8, OpFacts DEF n
    <3>2. n <= k /\ k <= n
      BY <1>8, <2>1, <2>2, <3>1
    <3> QED  BY <3>1, <3>2
  <2> QED  BY <1>2, <1>10, <2>1, <2>2 DEF Coming
<1> QED  BY <1>2, <1>3, <1>4, <1>6, <1>7, <1>9, <1>10 DEF n

------------------------------------------------------------------------------
(* Planning, whatever the operation: it is recorded and may join a queue.  *)

(* Writes a of the shared field of item i.                                 *)
WritesHome(a, i) == a.kind = "set" /\ a.stack = Home(i)

(* Planning has recorded operation a, with the outcome st, for now.        *)
Recorded(a, st) ==
    /\ Record(a, st) /\ UNCHANGED <<tenant, trigger, fatal>>
    /\ pc' \in {"loop", "dispatch"} /\ (pc' = "dispatch" => st = "queued")

LEMMA RemoteComing ==
    ASSUME ConvInv, NEW i \in Items, i \in Seeded \/ i \notin Existing, i \notin adopted,
           Spared(Home(i)), Remote(i) # None, NEW x, x = Remote(i).shared
    PROVE  Coming(Home(i), x)
<1>1. CASE snap[i] # None
  BY <1>1 DEF Remote, ConvInv, CacheComing
<1>2. CASE snap[i] = None
  <2>1. x = cell[Home(i)][1]
    BY <1>2 DEF Remote, WireRead, Home
  <2>2. Awaited(Home(i)) = {}
    <3>1. i \in Seeded => Counted(Home(i)) = {}
      BY <1>2 DEF ConvInv, ReadFirst
    <3>2. i \notin Existing => WritesOf(Home(i)) = {}
      BY DEF ConvInv, HomeWrites
    <3> QED  BY <3>1, <3>2 DEF Awaited, Counted
  <2> QED  BY <2>1, <2>2 DEF Coming
<1> QED  BY <1>1, <1>2

LEMMA RecordedKeepsConv ==
    ASSUME IInv, ConvInv, pc = "plan", adopted' = adopted,
           NEW a \in Op, NEW st \in {"queued", "skip", "noop"}, Recorded(a, st),
           \A i \in Items : WritesHome(a, i) =>
              /\ a.version = 1 /\ i \in Existing /\ i \notin Prunees
              /\ i \notin Seeded => WritesOf(Home(i)) = {},
           \A i \in Items : WritesHome(a, i) /\ st = "noop" /\ Spared(Home(i)) =>
              \A x : x = a.value => Coming(Home(i), x),
           \A i \in Items : (i \in Seeded \/ i \notin Existing) /\ i \notin adopted
                            /\ Spared(Home(i)) /\ snap'[i] # None =>
              IF WritesHome(a, i) /\ st = "queued" THEN snap'[i].shared = a.value
              ELSE \A x : x = snap'[i].shared => Coming(Home(i), x),
           \A i \in Seeded : snap'[i] = None =>
              snap[i] = None /\ ~(WritesHome(a, i) /\ st # "skip"),
           \A i \in Items : i = a.stack[1] \/ snap'[i] = snap[i],
           \A i \in Items : pc' = "dispatch" /\ a.kind = "create" /\ a.stack[1] = i =>
              /\ i \notin Seeded /\ WritesOf(Home(i)) = {}
              /\ i \notin Existing => i \notin present /\ snap'[i] = None,
           a.kind = "prune" => a.items \subseteq Prunees
    PROVE  ConvInv'
<1> DEFINE n == Len(ops) + 1
<1>1. PoolInv /\ Record(a, st) /\ UNCHANGED <<cell, present, trigger, fatal>>
      /\ pc' \in {"loop", "dispatch"} /\ (pc' = "dispatch" => st = "queued")
  BY DEF IInv, Recorded, tenant
<1>2. \A s : LET mine == a.kind = "set" /\ a.stack = s IN
           /\ ops'[n] = a /\ n \notin DOMAIN ops
           /\ WritesOf(s) \subseteq DOMAIN ops
           /\ \A k \in WritesOf(s) : k <= n /\ ops'[k] = ops[k]
           /\ WritesOf(s)' = WritesOf(s) \cup (IF mine THEN {n} ELSE {})
           /\ Spared(s)' => Spared(s)
           /\ Counted(s)' = Counted(s) \cup (IF mine /\ st # "skip" THEN {n} ELSE {})
           /\ ~(mine /\ st = "queued") => \A x : Coming(s, x) => Coming(s, x)'
           /\ mine /\ st = "queued" => \A x : x = a.value => Coming(s, x)'
  BY <1>1, RecordedAtHome
<1>3. /\ ops \in Seq(Op) /\ DOMAIN ops' = DOMAIN ops \cup {n}
      /\ \A k \in DOMAIN ops : ops'[k] = ops[k]
      /\ Len(ops') = n /\ n \in Nat
  BY <1>1, AppendFacts DEF PoolInv, ResultsInv, Record
<1> HIDE DEF n
<1>4. HomeWrites'
  <2> SUFFICES ASSUME NEW i \in Items, NEW k \in WritesOf(Home(i))'
               PROVE  /\ ops'[k].version = 1
                      /\ i \in Existing /\ i \notin Prunees
                      /\ i \notin Seeded => WritesOf(Home(i))' = {k}
    BY DEF HomeWrites, Home, Prunees
  <2>1. CASE WritesHome(a, i)
    <3>1. WritesOf(Home(i))' = WritesOf(Home(i)) \cup {n} /\ ops'[n] = a
      BY <1>2, <2>1 DEF WritesHome
    <3>2. CASE k \in WritesOf(Home(i))
      BY <1>2, <2>1, <3>2 DEF ConvInv, HomeWrites, Prunees
    <3>3. CASE k = n
      BY <2>1, <3>1, <3>3
    <3> QED  BY <3>1, <3>2, <3>3
  <2>2. CASE ~WritesHome(a, i)
    <3>1. WritesOf(Home(i))' = WritesOf(Home(i)) /\ k \in WritesOf(Home(i))
          /\ ops'[k] = ops[k]
      BY <1>2, <2>2 DEF WritesHome
    <3> QED  BY <3>1 DEF ConvInv, HomeWrites, Prunees
  <2> QED  BY <2>1, <2>2
<1>5. CountsComing'
  <2> SUFFICES ASSUME NEW i \in Items, Spared(Home(i))', Counted(Home(i))' # {}
               PROVE  \E m \in Counted(Home(i))' :
                         /\ \A j \in Counted(Home(i))' : j <= m
                         /\ \A x : x = ops'[m].value => Coming(Home(i), x)'
    BY DEF CountsComing, Home
  <2>1. Spared(Home(i)) /\ Counted(Home(i)) \subseteq WritesOf(Home(i))
    BY <1>2 DEF Counted
  <2>2. CASE WritesHome(a, i) /\ st # "skip"
    <3>1. Counted(Home(i))' = Counted(Home(i)) \cup {n} /\ ops'[n] = a
      BY <1>2, <2>2 DEF WritesHome
    <3>2. \A j \in Counted(Home(i))' : j <= n
      BY <1>2, <1>3, <2>1, <3>1
    <3>3. \A x : x = a.value => Coming(Home(i), x)'
      <4>1. CASE st = "queued"
        BY <1>2, <2>2, <4>1 DEF WritesHome
      <4>2. CASE st = "noop"
        <5>1. \A x : x = a.value => Coming(Home(i), x)
          BY <2>1, <2>2, <4>2
        <5> QED  BY <1>2, <2>2, <4>2, <5>1
      <4> QED  BY <2>2, <4>1, <4>2
    <3> QED  BY <3>1, <3>2, <3>3
  <2>3. CASE ~(WritesHome(a, i) /\ st # "skip")
    <3>1. Counted(Home(i))' = Counted(Home(i))
          /\ \A x : Coming(Home(i), x) => Coming(Home(i), x)'
      BY <1>2, <2>3 DEF WritesHome
    <3>2. PICK m \in Counted(Home(i)) :
                 /\ \A j \in Counted(Home(i)) : j <= m
                 /\ \A x : x = ops[m].value => Coming(Home(i), x)
      BY <2>1, <3>1 DEF ConvInv, CountsComing
    <3>3. ops'[m] = ops[m]
      BY <1>2, <2>1, <3>2
    <3> QED  BY <3>1, <3>2, <3>3
  <2> QED  BY <2>2, <2>3
<1>6. CacheComing'
  <2>1. ASSUME NEW i \in Items, i \in Seeded \/ i \notin Existing, i \notin adopted,
               Spared(Home(i))', snap'[i] # None, NEW x, x = snap'[i].shared
        PROVE  Coming(Home(i), x)'
    <3>1. Spared(Home(i))
      BY <1>2, <2>1
    <3>2. CASE WritesHome(a, i) /\ st = "queued"
      <4>1. x = a.value
        BY <2>1, <3>1, <3>2
      <4> QED  BY <1>2, <3>2, <4>1 DEF WritesHome
    <3>3. CASE ~(WritesHome(a, i) /\ st = "queued")
      <4>1. Coming(Home(i), x)
        BY <2>1, <3>1, <3>3
      <4> QED  BY <1>2, <3>3, <4>1 DEF WritesHome
    <3> QED  BY <3>2, <3>3
  <2> QED  BY <2>1 DEF CacheComing, Home
<1>7. ReadFirst'
  <2>1. ASSUME NEW i \in Seeded, Spared(Home(i))', snap'[i] = None
        PROVE  Counted(Home(i))' = {}
    <3>1. Spared(Home(i)) /\ snap[i] = None /\ ~(WritesHome(a, i) /\ st # "skip")
      BY <1>2, <2>1
    <3>2. Counted(Home(i))' = Counted(Home(i))
      BY <1>2, <3>1 DEF WritesHome
    <3> QED  BY <3>1, <3>2 DEF ConvInv, ReadFirst
  <2> QED  BY <2>1 DEF ReadFirst, Home
<1>8. NotYetMade'
  <2> SUFFICES ASSUME NEW i \in Items, i \notin Existing, Planned(i)' = {}, trigger' = "none"
               PROVE  i \notin present' /\ snap'[i] = None
    BY DEF NotYetMade
  <2>1. Planned(i) = {} /\ a.stack[1] # i
    BY <1>2, <1>3 DEF Planned
  <2> QED  BY <1>1, <2>1 DEF ConvInv, NotYetMade
<1>9. CreateFirst'
  <2> SUFFICES ASSUME NEW i \in Items, pc' = "dispatch", ops'[Latest'].kind = "create",
                      ops'[Latest'].stack[1] = i
               PROVE  /\ i \notin Seeded /\ WritesOf(Home(i))' = {}
                      /\ i \notin Existing => i \notin present' /\ snap'[i] = None
    BY DEF CreateFirst, Home
  <2>1. Latest' = n /\ ops'[n] = a
    BY <1>2, <1>3 DEF Latest
  <2>2. WritesOf(Home(i))' = WritesOf(Home(i))
    BY <1>2, <2>1
  <2> QED  BY <1>1, <2>1, <2>2
<1>10. Running' /\ Programmed'
  BY <1>1 DEF Running, Programmed, ConvInv
<1>11. PruneItems'
  BY <1>2, <1>3 DEF ConvInv, PruneItems
<1> QED  BY <1>4, <1>5, <1>6, <1>7, <1>8, <1>9, <1>10, <1>11 DEF ConvInv

LEMMA NoMutationRecords ==
    ASSUME NEW kind, NEW st \in {"skip", "noop"}, NoMutation(kind, st)
    PROVE  Recorded(Action(kind, 0, Blank, {}), st) /\ pc' = "loop"
  BY DEF NoMutation, Recorded, poolVars

LEMMA ToPoolRecords ==
    ASSUME NEW a, ToPool(a) \/ ToDispatch(a)
    PROVE  Recorded(a, "queued")
  BY DEF ToPool, ToDispatch, Enqueue, Recorded, poolVars

------------------------------------------------------------------------------
(* Planning, operation by operation.                                       *)

(* What is known of the operation in hand.                                 *)
LEMMA InHand ==
    ASSUME IInv, ConvInv, pc = "plan"
    PROVE  /\ cur \in Request /\ cur.item \in Items /\ cur.lang \in Langs
           /\ cur.version \in Versions /\ cur.value \in Values
           /\ trigger = "none"
           /\ cur.kind \in {"set", "add"} => cur.item \notin Prunees
           /\ cur.kind = "set" /\ cur.lang = Shared => cur.version = 1 /\ cur.item \in Seeded
           /\ cur.kind = "create" => /\ Planned(cur.item) = {} /\ cur.item \notin Seeded
                                     /\ cur.lang = Shared /\ cur.version = 1
                                     /\ cur.item \notin Prunees
<1>1. cur \in Request /\ trigger = "none" /\ Sensible(cur) /\ NotPruned(cur)
  BY DEF IInv, AtHand, ConvInv, Running, Programmed
<1>2. cur.kind = "set" => (cur.lang = Shared => cur.version = 1 /\ cur.item \in Seeded)
  BY <1>1 DEF Sensible
<1>3. cur.kind = "create" => /\ Planned(cur.item) = {} /\ cur.item \notin Seeded
                             /\ cur.lang = Shared /\ cur.version = 1
  BY <1>1 DEF Sensible
<1>4. cur.kind \in {"set", "add", "create"} => cur.item \notin Prunees
  BY <1>1 DEF NotPruned, Prunees
<1> QED  BY <1>1, <1>2, <1>3, <1>4 DEF Request

(* An operation of another kind, or with no effect, and a read of the      *)
(* item it is about.                                                       *)
LEMMA ReadKeepsConv ==
    ASSUME IInv, ConvInv, pc = "plan", adopted' = adopted,
           NEW a \in Op, NEW st \in {"queued", "skip", "noop"}, Recorded(a, st),
           a.kind \in {"set", "add"}, a.stack = Target, a.version = cur.version,
           cur.kind = a.kind,
           a.kind = "set" => st # "queued" \/ cur.lang # Shared,
           a.kind = "set" /\ st = "noop" /\ cur.lang = Shared =>
              Remote(cur.item) # None /\ Remote(cur.item).shared = a.value,
           \/ snap' = snap /\ st = "skip"
           \/ /\ Remote(cur.item) # None
              /\ \E sn : /\ sn # None /\ sn.shared = Remote(cur.item).shared
                         /\ snap' = [snap EXCEPT ![cur.item] = sn]
    PROVE  ConvInv'
<1> DEFINE c == cur.item
<1>1. /\ c \in Items /\ c \notin Prunees
      /\ cur.kind = "set" /\ cur.lang = Shared => cur.version = 1 /\ c \in Seeded
  BY InHand
<1>2. a.stack[1] = c /\ a.stack[2] = cur.lang /\ a.stack = <<c, cur.lang>>
  BY DEF Target
<1>3. Seeded \subseteq Existing /\ adopted \cap Seeded = {} /\ Seeded \subseteq Items
  BY ExecutorAssumption DEF ConvInv
<1>4. \A i \in Items : WritesHome(a, i) => i = c /\ cur.lang = Shared /\ c \in Seeded
                                           /\ st # "queued"
  BY <1>1, <1>2 DEF WritesHome, Home
<1>5. /\ snap \in [Items -> Snapshot \cup {None}]
      /\ \A i \in Items : i # c => snap'[i] = snap[i]
      /\ \/ snap'[c] = snap[c] /\ st = "skip"
         \/ /\ snap'[c] # None /\ Remote(c) # None /\ snap'[c].shared = Remote(c).shared
  BY <1>1 DEF IInv, CacheTypeOK
<1>6. \A i \in Items : WritesHome(a, i) =>
              /\ a.version = 1 /\ i \in Existing /\ i \notin Prunees
              /\ i \notin Seeded => WritesOf(Home(i)) = {}
  BY <1>1, <1>3, <1>4 DEF WritesHome
<1>7. \A i \in Items : WritesHome(a, i) /\ st = "noop" /\ Spared(Home(i)) =>
              \A x : x = a.value => Coming(Home(i), x)
  <2> SUFFICES ASSUME NEW i \in Items, WritesHome(a, i), st = "noop", Spared(Home(i)),
                      NEW x, x = a.value
               PROVE  Coming(Home(i), x)
    OBVIOUS
  <2>1. i = c /\ c \in Seeded /\ cur.lang = Shared /\ a.kind = "set"
    BY <1>4 DEF WritesHome
  <2> QED  BY <1>3, <2>1, RemoteComing
<1>8. \A i \in Items : (i \in Seeded \/ i \notin Existing) /\ i \notin adopted
                            /\ Spared(Home(i)) /\ snap'[i] # None =>
              IF WritesHome(a, i) /\ st = "queued" THEN snap'[i].shared = a.value
              ELSE \A x : x = snap'[i].shared => Coming(Home(i), x)
  <2> SUFFICES ASSUME NEW i \in Items, i \in Seeded \/ i \notin Existing, i \notin adopted,
                      Spared(Home(i)), snap'[i] # None, NEW x, x = snap'[i].shared
               PROVE  Coming(Home(i), x)
    BY <1>4
  <2>1. CASE snap'[i] = snap[i]
    BY <2>1 DEF ConvInv, CacheComing
  <2>2. CASE i = c /\ Remote(c) # None /\ snap'[c].shared = Remote(c).shared
    BY <2>2, RemoteComing
  <2> QED  BY <1>5, <2>1, <2>2
<1>9. \A i \in Seeded : snap'[i] = None =>
              snap[i] = None /\ ~(WritesHome(a, i) /\ st # "skip")
  BY <1>3, <1>4, <1>5
<1>10. \A i \in Items : i = a.stack[1] \/ snap'[i] = snap[i]
  BY <1>2, <1>5
<1>11. a.kind # "create" /\ a.kind # "prune"
  OBVIOUS
<1> QED  BY <1>6, <1>7, <1>8, <1>9, <1>10, <1>11, RecordedKeepsConv

(* Nothing is read, and no shared field is written.                        *)
LEMMA OtherKeepsConv ==
    ASSUME IInv, ConvInv, pc = "plan", adopted' = adopted, snap' = snap,
           NEW a \in Op, NEW st \in {"queued", "skip", "noop"}, Recorded(a, st),
           a.kind \in {"create", "prune"}, a.stack = Target, cur.kind = a.kind,
           a.kind = "prune" => a.items \subseteq Prunees
    PROVE  ConvInv'
<1>1. \A i : ~WritesHome(a, i)
  BY DEF WritesHome
<1>2. \A i \in Items : (i \in Seeded \/ i \notin Existing) /\ i \notin adopted
                            /\ Spared(Home(i)) /\ snap'[i] # None =>
              \A x : x = snap'[i].shared => Coming(Home(i), x)
  BY DEF ConvInv, CacheComing
<1>3. \A i \in Items : pc' = "dispatch" /\ a.kind = "create" /\ a.stack[1] = i =>
              /\ i \notin Seeded /\ WritesOf(Home(i)) = {}
              /\ i \notin Existing => i \notin present /\ snap'[i] = None
  <2> SUFFICES ASSUME NEW i \in Items, a.kind = "create", a.stack[1] = i
               PROVE  /\ i \notin Seeded /\ WritesOf(Home(i)) = {}
                      /\ i \notin Existing => i \notin present /\ snap'[i] = None
    OBVIOUS
  <2>1. i = cur.item
    BY DEF Target
  <2>2. Planned(i) = {} /\ i \notin Seeded /\ trigger = "none"
    BY <2>1, InHand
  <2>3. WritesOf(Home(i)) = {}
    BY <2>2 DEF Planned, WritesOf, Home
  <2> QED  BY <2>2, <2>3 DEF ConvInv, NotYetMade
<1> QED  BY <1>1, <1>2, <1>3, RecordedKeepsConv

LEMMA UpdateKeepsConv ==
    ASSUME IInv, ConvInv, PlanCreateUpdate
    PROVE  ConvInv'
<1> DEFINE c == cur.item
           a == Action("set", 0, cell[Target][1], {})
<1>1. /\ pc = "plan" /\ cur.kind = "create" /\ c \in present /\ ToPool(a)
      /\ UNCHANGED <<adopted, snap>>
  BY DEF PlanCreateUpdate, Planning
<1>2. /\ c \in Items /\ Planned(c) = {} /\ c \notin Seeded /\ cur.lang = Shared
      /\ cur.version = 1 /\ c \notin Prunees /\ trigger = "none" /\ cur \in Request
  BY <1>1, InHand
<1>3. c \in Existing
  BY <1>1, <1>2 DEF ConvInv, NotYetMade
<1>4. Target \in Stacks /\ Target = Home(c) /\ {} \in SUBSET Items /\ 0 \in Nat
  BY <1>2 DEF Target, Home, Stacks, Request
<1>5. a \in Op
  <2>1. cell[Target][1] \in Values
    BY <1>4, ConstantFacts DEF IInv, PoolInv, ResultsInv
  <2> QED  BY <1>2, <1>4, <2>1, ActionType
<1>6. a.kind = "set" /\ a.stack = Home(c) /\ a.version = 1
  BY <1>2, <1>4 DEF Action
<1>7. Recorded(a, "queued")
  BY <1>1, ToPoolRecords
<1> HIDE DEF a
<1>8. \A i \in Items : WritesHome(a, i) <=> i = c
  BY <1>2, <1>6 DEF WritesHome, Home
<1>9. WritesOf(Home(c)) = {}
  BY <1>2 DEF Planned, WritesOf, Home
<1>10. \A i \in Items : (i \in Seeded \/ i \notin Existing) /\ i \notin adopted
                            /\ Spared(Home(i)) /\ snap'[i] # None =>
              IF WritesHome(a, i) THEN snap'[i].shared = a.value
              ELSE \A x : x = snap'[i].shared => Coming(Home(i), x)
  <2>1. \A i \in Items : i \in Seeded \/ i \notin Existing => ~WritesHome(a, i)
    BY <1>2, <1>3, <1>8
  <2> QED  BY <1>1, <2>1 DEF ConvInv, CacheComing
<1>11. \A i \in Seeded : ~WritesHome(a, i)
  BY <1>2, <1>8, ExecutorAssumption
<1> QED  BY <1>1, <1>2, <1>3, <1>5, <1>6, <1>7, <1>8, <1>9, <1>10, <1>11, RecordedKeepsConv

LEMMA ActionParts ==
    ASSUME NEW k, NEW n, NEW p, NEW d
    PROVE  /\ Action(k, n, p, d).kind = k /\ Action(k, n, p, d).stack = Target
           /\ Action(k, n, p, d).version = cur.version
           /\ Action(k, n, p, d).value = cur.value
           /\ Action(k, n, p, d).items = d
  BY DEF Action

LEMMA PlanSetKeepsConv ==
    ASSUME IInv, ConvInv, PlanSetInSync \/ PlanSetWithheld
    PROVE  ConvInv'
<1> DEFINE a == Action("set", 0, Blank, {})
           sn == Remote(cur.item)
<1>1. /\ pc = "plan" /\ cur.kind = "set" /\ sn # None /\ adopted' = adopted
      /\ snap' = [snap EXCEPT ![cur.item] = sn]
  BY DEF PlanSetInSync, PlanSetWithheld, Planning, Unresolved, CacheRead
<1>2. PICK st \in {"noop", "skip"} :
          /\ NoMutation("set", st)
          /\ st = "noop" => LookupField(sn, cur.lang, cur.version) = cur.value
  BY DEF PlanSetInSync, PlanSetWithheld
<1>3. Recorded(a, st) /\ pc' = "loop"
  BY <1>2, NoMutationRecords
<1>4. a.kind = "set" /\ a.stack = Target /\ a.version = cur.version /\ a.value = cur.value
  BY ActionParts
<1>5. a \in Op
  BY <1>1, InHand, ConstantFacts, ActionType
<1>6. st = "noop" /\ cur.lang = Shared => sn.shared = a.value
  BY <1>2, <1>4 DEF LookupField
<1> HIDE DEF a, sn
<1>7. \E z : z # None /\ z.shared = sn.shared /\ snap' = [snap EXCEPT ![cur.item] = z]
  BY <1>1
<1> QED  BY <1>1, <1>2, <1>3, <1>4, <1>5, <1>6, <1>7, ReadKeepsConv DEF sn

LEMMA PlanSetWriteKeepsConv ==
    ASSUME IInv, ConvInv, PlanSetWrite
    PROVE  ConvInv'
<1> DEFINE c == cur.item
           sn == Remote(c)
           p == FindPriorValue(sn, cur.lang, cur.version)
           w == WriteThrough(sn, cur.lang, cur.version, cur.value)
           a == Action("set", 0, p, {})
<1>1. /\ pc = "plan" /\ cur.kind = "set" /\ sn # None /\ adopted' = adopted
      /\ ToPool(a) /\ snap' = [snap EXCEPT ![c] = w]
  BY DEF PlanSetWrite, Planning, Unresolved
<1>2. /\ cur \in Request /\ c \in Items /\ cur.lang \in Langs /\ cur.version \in Versions
      /\ cur.value \in Values /\ c \notin Prunees
      /\ cur.lang = Shared => cur.version = 1 /\ c \in Seeded
  BY <1>1, InHand
<1>3. sn \in Snapshot
  BY <1>1, <1>2, RemoteType DEF IInv
<1>4. p \in Values /\ w \in Snapshot
  <2> HIDE DEF sn
  <2> QED  BY <1>2, <1>3, FindPriorValueType, WriteThroughType
<1>5. w.shared = IF cur.lang = Shared THEN cur.value ELSE sn.shared
  <2> HIDE DEF sn
  <2> QED  BY <1>3 DEF WriteThrough, Snapshot
<1>6. w # None
  BY <1>4, SnapshotAssumption
<1>7. a.kind = "set" /\ a.stack = Target /\ a.version = cur.version /\ a.value = cur.value
  BY ActionParts
<1>8. a \in Op
  <2> HIDE DEF p
  <2> QED  BY <1>2, <1>4, ActionType
<1>9. Recorded(a, "queued")
  BY <1>1, ToPoolRecords
<1>10. snap \in [Items -> Snapshot \cup {None}] /\ a.stack[1] = c
       /\ Seeded \subseteq Existing /\ Seeded \subseteq Items
  BY <1>7, ExecutorAssumption DEF IInv, CacheTypeOK, Target
<1> HIDE DEF a, w, sn
<1>11. CASE cur.lang # Shared
  <2>1. \E z : z # None /\ z.shared = sn.shared /\ snap' = [snap EXCEPT ![c] = z]
    BY <1>1, <1>5, <1>6, <1>11
  <2> QED  BY <1>1, <1>7, <1>8, <1>9, <1>11, <2>1, ReadKeepsConv DEF sn
<1>12. CASE cur.lang = Shared
  <2>1. \A i \in Items : WritesHome(a, i) <=> i = c
    BY <1>2, <1>7, <1>12 DEF WritesHome, Home, Target
  <2>2. \A i \in Items : i # c => snap'[i] = snap[i]
    BY <1>1, <1>10
  <2>3. snap'[c] = w /\ w # None /\ w.shared = a.value
    BY <1>1, <1>2, <1>5, <1>6, <1>7, <1>10, <1>12
  <2>4. \A i \in Items : (i \in Seeded \/ i \notin Existing) /\ i \notin adopted
                            /\ Spared(Home(i)) /\ snap'[i] # None =>
              IF WritesHome(a, i) THEN snap'[i].shared = a.value
              ELSE \A x : x = snap'[i].shared => Coming(Home(i), x)
    BY <2>1, <2>2, <2>3 DEF ConvInv, CacheComing
  <2>5. \A i \in Items : WritesHome(a, i) =>
              /\ a.version = 1 /\ i \in Existing /\ i \notin Prunees
              /\ i \notin Seeded => WritesOf(Home(i)) = {}
    BY <1>2, <1>7, <1>10, <1>12, <2>1
  <2>6. \A i \in Seeded : snap'[i] = None => snap[i] = None /\ ~WritesHome(a, i)
    BY <1>10, <2>1, <2>2, <2>3
  <2> QED  BY <1>1, <1>7, <1>8, <1>9, <1>10, <2>2, <2>4, <2>5, <2>6, RecordedKeepsConv
<1> QED  BY <1>11, <1>12

------------------------------------------------------------------------------
(* Planning, the other kinds.                                              *)

LEMMA PlanAddKeepsConv ==
    ASSUME IInv, ConvInv, PlanAddPresent \/ PlanAdd
    PROVE  ConvInv'
<1> DEFINE sn == Remote(cur.item)
           d == cur.version - CurrentMax
<1>1. /\ pc = "plan" /\ cur.kind = "add" /\ sn # None /\ adopted' = adopted
      /\ snap' = [snap EXCEPT ![cur.item] = sn]
  BY DEF PlanAddPresent, PlanAdd, Planning, Unresolved, CacheRead
<1>2. Target \in Stacks /\ cur.version \in Nat /\ cur \in Request
      /\ Blank \in Values /\ {} \in SUBSET Items
  BY <1>1, InHand, ConstantFacts DEF Target, Stacks
<1>3. CurrentMax \in Nat
  BY <1>2 DEF CurrentMax, IInv, CacheTypeOK, PoolInv, ResultsInv
<1>4. PICK n \in Nat, st \in {"queued", "noop"} : Recorded(Action("add", n, Blank, {}), st)
  <2>1. CASE PlanAddPresent
    <3>1. Recorded(Action("add", 0, Blank, {}), "noop")
      BY <2>1, NoMutationRecords DEF PlanAddPresent
    <3> QED  BY <3>1
  <2>2. CASE PlanAdd
    <3>1. d \in Nat
      BY <1>2, <1>3, <2>2 DEF PlanAdd
    <3>2. Recorded(Action("add", d, Blank, {}), "queued")
      BY <2>2, ToPoolRecords DEF PlanAdd
    <3> QED  BY <3>1, <3>2
  <2> QED  BY <2>1, <2>2
<1> DEFINE a == Action("add", n, Blank, {})
<1>5. a.kind = "add" /\ a.stack = Target /\ a.version = cur.version
  BY ActionParts
<1>6. a \in Op
  BY <1>2, ActionType
<1> HIDE DEF a, sn
<1>7. \E z : z # None /\ z.shared = sn.shared /\ snap' = [snap EXCEPT ![cur.item] = z]
  BY <1>1
<1> QED  BY <1>1, <1>4, <1>5, <1>6, <1>7, ReadKeepsConv DEF sn, a

LEMMA PlanOtherKeepsConv ==
    ASSUME IInv, ConvInv,
           \/ \E kind \in {"set", "add"} : PlanUnresolved(kind)
           \/ PlanCreateSkip \/ PlanCreateUnresolved
           \/ PlanCreate \/ PlanPrune
    PROVE  ConvInv'
<1>1. /\ pc = "plan" /\ adopted' = adopted /\ snap' = snap
  BY DEF PlanUnresolved, PlanCreateSkip, PlanCreateUnresolved, PlanCreate, PlanPrune,
         Planning, cacheVars
<1>2. cur \in Request /\ Blank \in Values /\ {} \in SUBSET Items /\ 0 \in Nat
  BY <1>1, InHand, ConstantFacts
<1>3. ASSUME NEW k \in {"set", "add", "create", "prune"}, NEW d \in SUBSET Items
      PROVE  /\ Action(k, 0, Blank, d) \in Op /\ Action(k, 0, Blank, d).kind = k
             /\ Action(k, 0, Blank, d).stack = Target
             /\ Action(k, 0, Blank, d).version = cur.version
             /\ Action(k, 0, Blank, d).items = d
  BY <1>2, ActionType, ActionParts
<1>4. ASSUME NEW kind \in {"set", "add"}, PlanUnresolved(kind)
      PROVE  ConvInv'
  <2>1. Recorded(Action(kind, 0, Blank, {}), "skip") /\ cur.kind = kind
    BY <1>4, NoMutationRecords DEF PlanUnresolved, Planning
  <2> QED  BY <1>1, <1>2, <1>3, <2>1, ReadKeepsConv
<1>5. CASE PlanCreateSkip \/ PlanCreateUnresolved
  <2>1. Recorded(Action("create", 0, Blank, {}), "skip") /\ cur.kind = "create"
    BY <1>5, NoMutationRecords DEF PlanCreateSkip, PlanCreateUnresolved, Planning
  <2> QED  BY <1>1, <1>2, <1>3, <2>1, OtherKeepsConv
<1>6. CASE PlanCreate
  <2>1. Recorded(Action("create", 0, Blank, {}), "queued") /\ cur.kind = "create"
    BY <1>6, ToPoolRecords DEF PlanCreate, Planning
  <2> QED  BY <1>1, <1>2, <1>3, <2>1, OtherKeepsConv
<1>7. CASE PlanPrune
  <2>1. cur.kind = "prune" /\ Prunable \in SUBSET Items /\ Prunable \subseteq Prunees
        /\ {} \subseteq Prunees
    BY <1>7 DEF PlanPrune, Planning, Prunable, Prunees, IInv, PoolInv, ResultsInv
  <2>2. PICK d \in SUBSET Prunees, st \in {"noop", "queued"} :
           d \in SUBSET Items /\ Recorded(Action("prune", 0, Blank, d), st)
    <3>1. CASE NoMutation("prune", "noop")
      BY <1>2, <2>1, <3>1, NoMutationRecords
    <3>2. CASE ToDispatch(Action("prune", 0, Blank, Prunable))
      BY <2>1, <3>2, ToPoolRecords
    <3> QED  BY <1>7, <3>1, <3>2 DEF PlanPrune
  <2> QED  BY <1>1, <1>3, <2>1, <2>2, OtherKeepsConv
<1> QED  BY <1>4, <1>5, <1>6, <1>7

LEMMA PlanKeepsConv ==
    ASSUME IInv, ConvInv, Plan, ~PlanError
    PROVE  ConvInv'
<1>1. CASE PlanSetInSync \/ PlanSetWithheld
  BY <1>1, PlanSetKeepsConv
<1>2. CASE PlanSetWrite
  BY <1>2, PlanSetWriteKeepsConv
<1>3. CASE PlanAddPresent \/ PlanAdd
  BY <1>3, PlanAddKeepsConv
<1>4. CASE PlanCreateUpdate
  BY <1>4, UpdateKeepsConv
<1>5. CASE \/ \E kind \in {"set", "add"} : PlanUnresolved(kind)
           \/ PlanCreateSkip \/ PlanCreateUnresolved
           \/ PlanCreate \/ PlanPrune
  BY <1>5, PlanOtherKeepsConv
<1> QED  BY <1>1, <1>2, <1>3, <1>4, <1>5 DEF Plan

-----------------------------------------------------------------------------
(* Dispatching.                                                            *)

(* The loop's own call is the only thing awaited while it is made.         *)
LEMMA OwnCallAlone ==
    ASSUME IInv, EndInv, pc = "dispatch", Drained, fatal = 0
    PROVE  /\ Latest \in DOMAIN ops /\ Latest \in DOMAIN status /\ status[Latest] = "queued"
           /\ \A k \in DOMAIN ops : status[k] = "queued" => k = Latest
<1>1. \A k : ~InQueue(k)
  BY DEF InQueue, Drained, Settled
<1> QED  BY <1>1, LatestOp, OpFacts DEF EndInv, Accounted, OwnCall, IInv, PoolInv

(* The call is answered: what the caches and the tenant may show of it.    *)
LEMMA AnsweredKeepsConv ==
    ASSUME IInv, EndInv, ConvInv, pc = "dispatch", Drained, fatal = 0, StacksStill,
           Dispatched \/ \E r : DispatchFailed(r),
           adopted \subseteq adopted', adopted' \cap Seeded = {},
           \A i \in Items : \/ StaysAt(Home(i)) \/ LandsAt(Home(i)) \/ FailsAt(Home(i))
                            \/ WritesOf(Home(i)) = {} /\ i \notin Seeded,
           \A i \in Items : i \notin adopted' /\ snap'[i] # None =>
              \/ /\ snap'[i] = snap[i]
                 /\ StaysAt(Home(i)) \/ LandsAt(Home(i)) \/ FailsAt(Home(i))
              \/ WritesOf(Home(i)) = {} /\ (i \in Existing \/ snap'[i].shared = cell'[Home(i)][1])
                 /\ i \notin Seeded,
           \A i \in Items : snap'[i] = None => snap[i] = None \/ WritesOf(Home(i)) = {},
           \A i \in Items : i # ops[Latest].stack[1] /\ (i \notin present /\ snap[i] = None)
              => i \notin present' /\ snap'[i] = None
    PROVE  ConvInv'
<1>1. /\ UNCHANGED <<ops, fatal>> /\ pc' \in {"loop", "rollback"}
      /\ trigger' = "none" => trigger = "none"
      /\ pc' = "loop" => trigger' = trigger
      /\ \E st \in {"applied", "skip", "error"} : status' = [status EXCEPT ![Latest] = st]
  BY DEF StacksStill, Dispatched, DispatchFailed, StartRollback
<1>2. trigger = "none"
  BY DEF ConvInv, Running
<1>3. \A k \in DOMAIN ops : k \in DOMAIN status
      /\ (status[k] = "error" => status'[k] = "error")
  <2>1. \A k \in DOMAIN ops : k \in DOMAIN status
    BY OpFacts DEF IInv, PoolInv
  <2> QED  BY <1>1, <2>1, OwnCallAlone
<1>4. ASSUME NEW s, StaysAt(s) \/ LandsAt(s) \/ FailsAt(s), Spared(s)'
      PROVE  /\ Spared(s) /\ WritesOf(s)' = WritesOf(s) /\ Counted(s)' = Counted(s)
             /\ \A x : Coming(s, x) => Coming(s, x)'
  <2>1. \A k \in WritesOf(s) : status[k] = "error" => status'[k] = "error"
    BY <1>3 DEF WritesOf
  <2> QED  BY <1>1, <1>4, <2>1, SparedStays DEF IInv
<1>5. \A s : /\ WritesOf(s)' = WritesOf(s)
             /\ WritesOf(s) = {} => Counted(s)' = {} /\ Awaited(s)' = {}
  BY <1>1 DEF WritesOf, Counted, Awaited
<1>6. HomeWrites' /\ PruneItems'
  BY <1>1, <1>5 DEF ConvInv, HomeWrites, PruneItems, Home
<1>7. CreateFirst' /\ Programmed' /\ Running'
  BY <1>1, <1>2 DEF CreateFirst, Programmed, Running
<1>8. CountsComing'
  <2> SUFFICES ASSUME NEW i \in Items, Spared(Home(i))', Counted(Home(i))' # {}
               PROVE  \E m \in Counted(Home(i))' :
                         /\ \A j \in Counted(Home(i))' : j <= m
                         /\ \A x : x = ops'[m].value => Coming(Home(i), x)'
    BY DEF CountsComing, Home
  <2>1. StaysAt(Home(i)) \/ LandsAt(Home(i)) \/ FailsAt(Home(i))
    BY <1>5
  <2>2. /\ Spared(Home(i)) /\ Counted(Home(i))' = Counted(Home(i))
        /\ \A x : Coming(Home(i), x) => Coming(Home(i), x)'
    BY <1>4, <2>1
  <2> QED  BY <1>1, <2>2 DEF ConvInv, CountsComing
<1>9. CacheComing'
  <2>1. ASSUME NEW i \in Items, i \in Seeded \/ i \notin Existing, i \notin adopted',
               Spared(Home(i))', snap'[i] # None, NEW x, x = snap'[i].shared
        PROVE  Coming(Home(i), x)'
    <3>1. CASE /\ snap'[i] = snap[i]
               /\ StaysAt(Home(i)) \/ LandsAt(Home(i)) \/ FailsAt(Home(i))
      <4>1. /\ Spared(Home(i)) /\ \A y : Coming(Home(i), y) => Coming(Home(i), y)'
        BY <1>4, <2>1, <3>1
      <4>2. Coming(Home(i), x)
        BY <2>1, <3>1, <4>1 DEF ConvInv, CacheComing
      <4> QED  BY <4>1, <4>2
    <3>2. CASE WritesOf(Home(i)) = {} /\ snap'[i].shared = cell'[Home(i)][1]
      BY <1>5, <2>1, <3>2 DEF Coming
    <3> QED  BY <2>1, <3>1, <3>2
  <2> QED  BY <2>1 DEF CacheComing, Home
<1>10. ReadFirst'
  <2>1. ASSUME NEW i \in Seeded, Spared(Home(i))', snap'[i] = None
        PROVE  Counted(Home(i))' = {}
    <3>0. i \in Items
      BY ExecutorAssumption
    <3>1. CASE WritesOf(Home(i)) = {}
      BY <1>5, <3>1
    <3>2. CASE snap[i] = None /\ WritesOf(Home(i)) # {}
      <4>1. StaysAt(Home(i)) \/ LandsAt(Home(i)) \/ FailsAt(Home(i))
        BY <3>0, <3>2
      <4>2. Spared(Home(i)) /\ Counted(Home(i))' = Counted(Home(i))
        BY <1>4, <2>1, <4>1
      <4> QED  BY <3>2, <4>2 DEF ConvInv, ReadFirst
    <3> QED  BY <2>1, <3>0, <3>1, <3>2
  <2> QED  BY <2>1 DEF ReadFirst, Home
<1>11. NotYetMade'
  <2> SUFFICES ASSUME NEW i \in Items, i \notin Existing, Planned(i)' = {}, trigger' = "none"
               PROVE  i \notin present' /\ snap'[i] = None
    BY DEF NotYetMade
  <2>1. Planned(i) = {} /\ Latest \in DOMAIN ops
    BY <1>1, LatestOp DEF Planned
  <2>2. ops[Latest].stack[1] # i
    BY <2>1 DEF Planned
  <2> QED  BY <1>2, <2>1, <2>2 DEF ConvInv, NotYetMade
<1> QED  BY <1>6, <1>7, <1>8, <1>9, <1>10, <1>11 DEF ConvInv

------------------------------------------------------------------------------
(* Dispatching, call by call.                                              *)

(* An answer to another call than a write of stack s.                      *)
LEMMA OthersStay ==
    ASSUME IInv, EndInv, pc = "dispatch", Drained, fatal = 0,
           Dispatched \/ \E r : DispatchFailed(r),
           NEW s, Latest \notin WritesOf(s), cell'[s] = cell[s]
    PROVE  StaysAt(s)
<1>1. \E st : status' = [status EXCEPT ![Latest] = st]
  BY DEF Dispatched, DispatchFailed
<1>2. \A k \in WritesOf(s) : k \in DOMAIN status /\ k # Latest
  BY OpFacts DEF IInv, PoolInv, WritesOf
<1> QED  BY <1>1, <1>2 DEF StaysAt

LEMMA DispatchSetKeepsConv ==
    ASSUME IInv, EndInv, ConvInv, DispatchSet
    PROVE  ConvInv'
<1> DEFINE o == ops[Latest]
<1>1. /\ pc = "dispatch" /\ Drained /\ fatal = 0 /\ o.kind = "set" /\ StacksStill
      /\ UNCHANGED <<adopted, snap>>
  BY DEF DispatchSet, Dispatching, StacksStill, cacheVars
<1>2. PICK r \in Answers(o.stack, o.version) :
          /\ Write(o.stack, o.version, Latest, r)
          /\ IF r = "ok" THEN Dispatched ELSE DispatchFailed(r)
  BY DEF DispatchSet
<1>3. Latest \in DOMAIN ops /\ Latest \in DOMAIN status /\ status[Latest] = "queued"
      /\ \A k \in DOMAIN ops : status[k] = "queued" => k = Latest
  BY <1>1, OwnCallAlone
<1>4. present' = present
  BY <1>2 DEF Write
<1>5. Dispatched \/ \E x : DispatchFailed(x)
  BY <1>2
<1>6. ASSUME NEW i \in Items
      PROVE  StaysAt(Home(i)) \/ LandsAt(Home(i)) \/ FailsAt(Home(i))
  <2>1. Home(i) \in Stacks
    BY ConstantFacts DEF Home, Stacks
  <2>2. CASE Latest \notin WritesOf(Home(i))
    <3>1. o.stack # Home(i)
      BY <1>1, <1>3, <2>2 DEF WritesOf
    <3>2. cell'[Home(i)] = cell[Home(i)]
      BY <1>2, <2>1, <3>1 DEF Write, IInv, PoolInv, ResultsInv
    <3> QED  BY <1>1, <1>5, <2>2, <3>2, OthersStay
  <2>3. CASE Latest \in WritesOf(Home(i)) /\ r = "ok"
    <3>1. o.stack = Home(i) /\ o.version = 1
      BY <2>3 DEF WritesOf, ConvInv, HomeWrites
    <3>2. Write(Home(i), 1, Latest, "ok")
      BY <1>2, <2>3, <3>1
    <3>3. cell'[Home(i)][1] = o.value
      BY <1>3, <3>2, OkAtHome DEF IInv
    <3>4. Latest \in Awaited(Home(i)) /\ Awaited(Home(i)) = {Latest}
      BY <1>3, <2>3 DEF Awaited, WritesOf
    <3>5. \A k \in WritesOf(Home(i)) :
             status'[k] = IF k \in {Latest} THEN "applied" ELSE status[k]
      <4>1. status' = [status EXCEPT ![Latest] = "applied"]
        BY <1>2, <2>3 DEF Dispatched
      <4>2. \A k \in WritesOf(Home(i)) : k \in DOMAIN status
        BY OpFacts DEF IInv, PoolInv, WritesOf
      <4> QED  BY <4>1, <4>2
    <3>6. Latest \in Nat
      BY <1>3, OpFacts DEF IInv, PoolInv
    <3>7. /\ {Latest} \in SUBSET Awaited(Home(i)) /\ Latest \in {Latest}
          /\ \A k \in {Latest} : k <= Latest
          /\ \A k \in Awaited(Home(i)) \ {Latest} : Latest < k
      BY <3>4, <3>6
    <3> HIDE DEF Latest
    <3> QED  BY <3>3, <3>5, <3>7 DEF LandsAt
  <2>4. CASE Latest \in WritesOf(Home(i)) /\ r # "ok"
    <3>1. ~Skippable(Latest, r)
      BY <2>4, ExecutorAssumption DEF Skippable, Home, WritesOf
    <3>2. status' = [status EXCEPT ![Latest] = "error"]
      BY <1>2, <2>4, <3>1 DEF DispatchFailed
    <3>3. status'[Latest] = "error"
      BY <1>3, <3>2
    <3> QED  BY <2>4, <3>3 DEF FailsAt
  <2> QED  BY <2>2, <2>3, <2>4
<1> QED  BY <1>1, <1>4, <1>5, <1>6, AnsweredKeepsConv DEF ConvInv

LEMMA DispatchAddKeepsConv ==
    ASSUME IInv, EndInv, ConvInv, DispatchAdd
    PROVE  ConvInv'
<1>1. /\ pc = "dispatch" /\ Drained /\ fatal = 0 /\ ops[Latest].kind = "add" /\ StacksStill
      /\ UNCHANGED <<adopted, snap, cell, present>>
      /\ Dispatched \/ \E r : DispatchFailed(r)
  BY DEF DispatchAdd, Dispatching, StacksStill, cacheVars
<1>2. \A i \in Items : StaysAt(Home(i))
  <2> SUFFICES ASSUME NEW i \in Items PROVE StaysAt(Home(i))
    OBVIOUS
  <2>1. Latest \notin WritesOf(Home(i))
    BY <1>1 DEF WritesOf
  <2> QED  BY <1>1, <2>1, OthersStay
<1> QED  BY <1>1, <1>2, AnsweredKeepsConv DEF ConvInv

LEMMA DispatchPruneKeepsConv ==
    ASSUME IInv, EndInv, ConvInv, DispatchPrune
    PROVE  ConvInv'
<1> DEFINE doomed == ops[Latest].items
<1>1. /\ pc = "dispatch" /\ Drained /\ fatal = 0 /\ ops[Latest].kind = "prune"
      /\ StacksStill /\ UNCHANGED <<adopted, cell>>
      /\ Dispatched \/ \E r : DispatchFailed(r)
  BY DEF DispatchPrune, Dispatching, StacksStill
<1>2. present' \subseteq present
  BY DEF DispatchPrune
<1>3. \A i \in Items : snap'[i] = snap[i] \/ (i \in doomed /\ snap'[i] = None)
  BY DEF DispatchPrune
<1>4. \A i \in Items : StaysAt(Home(i))
  <2> SUFFICES ASSUME NEW i \in Items PROVE StaysAt(Home(i))
    OBVIOUS
  <2>1. Latest \notin WritesOf(Home(i))
    BY <1>1 DEF WritesOf
  <2> QED  BY <1>1, <2>1, OthersStay
<1>5. \A i \in doomed \cap Items : WritesOf(Home(i)) = {}
  <2>1. doomed \subseteq Prunees
    BY <1>1, LatestOp DEF ConvInv, PruneItems
  <2> QED  BY <2>1 DEF ConvInv, HomeWrites, Prunees
<1> QED  BY <1>1, <1>2, <1>3, <1>4, <1>5, AnsweredKeepsConv DEF ConvInv

LEMMA DispatchCreateKeepsConv ==
    ASSUME IInv, EndInv, ConvInv, DispatchCreate
    PROVE  ConvInv'
<1> DEFINE c == ops[Latest].stack[1]
           x == ops[Latest].value
<1>1. /\ pc = "dispatch" /\ Drained /\ fatal = 0 /\ ops[Latest].kind = "create"
      /\ StacksStill
      /\ Dispatched \/ \E r : DispatchFailed(r)
  BY DEF DispatchCreate, Dispatching, StacksStill
<1>2. Latest \in DOMAIN ops
  BY <1>1, LatestOp DEF IInv
<1>3. c \in Items
  <2>1. ops[Latest] \in Op
    BY <1>2, OpFacts DEF IInv, PoolInv, ResultsInv
  <2> HIDE DEF Latest
  <2> QED  BY <2>1 DEF Op, Stacks
<1>4. /\ c \notin Seeded /\ WritesOf(Home(c)) = {}
      /\ c \notin Existing => c \notin present /\ snap[c] = None
  BY <1>1, <1>3 DEF ConvInv, CreateFirst
<1>5. PICK r \in Responses :
          /\ IF Landed(r) /\ c \notin present THEN Fresh(c, x) ELSE UNCHANGED tenant
          /\ IF r = "ok"
             THEN /\ Dispatched
                  /\ adopted' = IF c \in present THEN adopted \cup {c} ELSE adopted
                  /\ snap' = [snap EXCEPT ![c] = Synthetic(x)]
             ELSE UNCHANGED cacheVars
  BY DEF DispatchCreate
<1>6. \A i \in Items : i # c =>
         /\ cell'[Home(i)] = cell[Home(i)] /\ snap'[i] = snap[i]
         /\ i \in present' <=> i \in present
  <2> SUFFICES ASSUME NEW i \in Items, i # c
               PROVE  /\ cell'[Home(i)] = cell[Home(i)] /\ snap'[i] = snap[i]
                      /\ i \in present' <=> i \in present
    OBVIOUS
  <2>1. Home(i) \in Stacks /\ Home(i)[1] = i
    BY ConstantFacts DEF Home, Stacks
  <2>2. snap'[i] = snap[i]
    BY <1>5 DEF cacheVars, IInv, CacheTypeOK
  <2>3. CASE Fresh(c, x)
    BY <2>1, <2>2, <2>3 DEF Fresh
  <2>4. CASE UNCHANGED tenant
    BY <2>2, <2>4 DEF tenant
  <2> QED  BY <1>5, <2>3, <2>4
<1>7. \A i \in Items : i # c => StaysAt(Home(i))
  <2> SUFFICES ASSUME NEW i \in Items, i # c PROVE StaysAt(Home(i))
    OBVIOUS
  <2>1. Latest \notin WritesOf(Home(i))
    BY <1>1 DEF WritesOf
  <2> QED  BY <1>1, <1>6, <2>1, OthersStay
<1>8. c \notin adopted' /\ snap'[c] # None => c \in Existing \/ snap'[c].shared = cell'[Home(c)][1]
  <2> SUFFICES ASSUME c \notin adopted', snap'[c] # None, c \notin Existing
               PROVE  snap'[c].shared = cell'[Home(c)][1]
    OBVIOUS
  <2>1. r = "ok"
    BY <1>4, <1>5 DEF cacheVars
  <2>2. Fresh(c, x) /\ snap'[c] = Synthetic(x)
    BY <1>3, <1>4, <1>5, <2>1 DEF Landed, IInv, CacheTypeOK
  <2>3. cell'[Home(c)][1] = x
    <3>1. Home(c) \in Stacks /\ Home(c)[1] = c /\ Home(c)[2] = Shared /\ 1 \in Versions
      BY <1>3, ConstantFacts DEF Home, Stacks
    <3> QED  BY <2>2, <3>1 DEF Fresh
  <2> QED  BY <2>2, <2>3 DEF Synthetic
<1>9. adopted \subseteq adopted' /\ adopted' \cap Seeded = {}
  BY <1>4, <1>5 DEF cacheVars, ConvInv
<1> HIDE DEF c, x
<1>10. \A i \in Items : i # ops[Latest].stack[1] => i # c
  BY DEF c
<1> QED  BY <1>1, <1>3, <1>4, <1>6, <1>7, <1>8, <1>9, <1>10, AnsweredKeepsConv

------------------------------------------------------------------------------
(* The pool, the whole step, and what a finished push may claim.           *)

LEMMA PoolKeepsItems ==
    ASSUME NEW s \in Stacks, PoolStep(s)
    PROVE  present' = present
<1>1. CASE Proceed(s)
  BY <1>1 DEF Proceed, SkipDoomed, AwaitSlot, StartNow, Resume, Begin, tenant
<1>2. CASE Answer(s)
  BY <1>2 DEF Answer, AnswerMerged, AnswerSingle, AnswerAdd, Write
<1> QED  BY <1>1, <1>2 DEF PoolStep

LEMMA PoolRunsKeepsConv ==
    ASSUME IInv, EndInv, ConvInv, PoolRuns
    PROVE  ConvInv'
<1>1. PICK t \in Stacks : PoolStep(t)
  BY DEF PoolRuns
<1>2. UNCHANGED <<pc, cur, trigger, adopted, snap>>
  BY DEF PoolRuns, execVars, loopVars, cacheVars
<1>3. ops' = ops /\ present' = present
  BY <1>1, PoolStepSettles, PoolKeepsItems DEF IInv, EndInv, QueueInv
<1>4. \A s : WritesOf(s)' = WritesOf(s)
  BY <1>3 DEF WritesOf
<1>5. ASSUME NEW i \in Items, Spared(Home(i))'
      PROVE  /\ Spared(Home(i)) /\ Counted(Home(i))' = Counted(Home(i))
             /\ \A x : Coming(Home(i), x) => Coming(Home(i), x)'
  <2>1. fatal' = 0
    BY <1>5 DEF Spared
  <2>2. /\ fatal = 0
        /\ StaysAt(Home(i)) \/ LandsAt(Home(i)) \/ FailsAt(Home(i))
        /\ \A k \in WritesOf(Home(i)) : status[k] = "error" => status'[k] = "error"
    BY <1>1, <2>1, PoolAtHome DEF ConvInv
  <2> QED  BY <1>2, <1>3, <1>5, <2>2, SparedStays DEF IInv
<1>6. HomeWrites' /\ PruneItems'
  BY <1>3, <1>4 DEF ConvInv, HomeWrites, PruneItems, Home
<1>7. Programmed' /\ Running'
  BY <1>2, <1>3 DEF ConvInv, Programmed, Running, Sensible, NotPruned, Planned
<1>8. CreateFirst' /\ NotYetMade'
  BY <1>2, <1>3, <1>4 DEF ConvInv, CreateFirst, NotYetMade, Latest, Planned, Home
<1>9. CountsComing'
  <2> SUFFICES ASSUME NEW i \in Items, Spared(Home(i))', Counted(Home(i))' # {}
               PROVE  \E m \in Counted(Home(i))' :
                         /\ \A j \in Counted(Home(i))' : j <= m
                         /\ \A x : x = ops'[m].value => Coming(Home(i), x)'
    BY DEF CountsComing, Home
  <2>1. /\ Spared(Home(i)) /\ Counted(Home(i))' = Counted(Home(i))
        /\ \A x : Coming(Home(i), x) => Coming(Home(i), x)'
    BY <1>5
  <2> QED  BY <1>3, <2>1 DEF ConvInv, CountsComing
<1>10. CacheComing'
  <2>1. ASSUME NEW i \in Items, i \in Seeded \/ i \notin Existing, i \notin adopted',
               Spared(Home(i))', snap'[i] # None, NEW x, x = snap'[i].shared
        PROVE  Coming(Home(i), x)'
    <3>1. /\ Spared(Home(i)) /\ \A y : Coming(Home(i), y) => Coming(Home(i), y)'
      BY <1>5, <2>1
    <3>2. Coming(Home(i), x)
      BY <1>2, <2>1, <3>1 DEF ConvInv, CacheComing
    <3> QED  BY <3>1, <3>2
  <2> QED  BY <2>1 DEF CacheComing, Home
<1>11. ReadFirst'
  <2>1. ASSUME NEW i \in Seeded, Spared(Home(i))', snap'[i] = None
        PROVE  Counted(Home(i))' = {}
    <3>1. i \in Items
      BY ExecutorAssumption
    <3>2. Spared(Home(i)) /\ Counted(Home(i))' = Counted(Home(i))
      BY <1>5, <2>1, <3>1
    <3> QED  BY <1>2, <2>1, <3>2 DEF ConvInv, ReadFirst
  <2> QED  BY <2>1 DEF ReadFirst, Home
<1> QED  BY <1>2, <1>6, <1>7, <1>8, <1>9, <1>10, <1>11 DEF ConvInv

LEMMA ConvStep == IInv /\ EndInv /\ ConvInv /\ [Next]_allVars => ConvInv'
<1> SUFFICES ASSUME IInv, EndInv, ConvInv, [Next]_allVars PROVE ConvInv'
  OBVIOUS
<1>1. CASE \/ \E r \in Request : NextOp(r)
           \/ Cancel \/ EndOfIr \/ PlanError \/ Drain \/ Undo
  BY <1>1, TurningKeepsConv
<1>2. CASE Plan /\ ~PlanError
  BY <1>2, PlanKeepsConv
<1>3. CASE DispatchSet \/ DispatchAdd \/ DispatchCreate \/ DispatchPrune
  BY <1>3, DispatchSetKeepsConv, DispatchAddKeepsConv, DispatchCreateKeepsConv,
     DispatchPruneKeepsConv
<1>4. CASE PoolRuns
  BY <1>4, PoolRunsKeepsConv
<1>5. CASE UNCHANGED allVars
  <2>1. UNCHANGED <<ops, status, fatal, tenant, pc, cur, trigger, adopted, snap>>
    BY <1>5 DEF allVars, vars, poolVars, execVars, loopVars, cacheVars
  <2>2. UNCHANGED <<cell, present>>
    BY <2>1 DEF tenant
  <2>3. \A s : /\ WritesOf(s)' = WritesOf(s) /\ Counted(s)' = Counted(s)
               /\ Spared(s)' = Spared(s)
               /\ \A x : Coming(s, x) => Coming(s, x)'
    BY <2>1, <2>2 DEF WritesOf, Counted, Awaited, Spared, Coming
  <2>4. HomeWrites' /\ Programmed' /\ CreateFirst' /\ NotYetMade' /\ Running' /\ PruneItems'
    BY <2>1, <2>2, <2>3 DEF ConvInv, HomeWrites, Programmed, CreateFirst, NotYetMade,
       Running, PruneItems, Sensible, NotPruned, Planned, Latest, Home
  <2>5. CountsComing' /\ ReadFirst'
    BY <2>1, <2>3 DEF ConvInv, CountsComing, ReadFirst, Home
  <2>6. CacheComing'
    <3>1. ASSUME NEW i \in Items, i \in Seeded \/ i \notin Existing, i \notin adopted',
                 Spared(Home(i))', snap'[i] # None, NEW x, x = snap'[i].shared
          PROVE  Coming(Home(i), x)'
      BY <2>1, <2>3, <3>1 DEF ConvInv, CacheComing
    <3> QED  BY <3>1 DEF CacheComing, Home
  <2> QED  BY <2>1, <2>4, <2>5, <2>6 DEF ConvInv
<1> QED  BY <1>1, <1>2, <1>3, <1>4, <1>5 DEF Next, LoopStep

-----------------------------------------------------------------------------
(* What the finished push may claim.                                       *)

LEMMA LatestIsMax ==
    ASSUME NEW S \in SUBSET Nat, NEW m \in S, \A x \in S : x <= m
    PROVE  Max(S) = m
<1>1. \E x \in S : \A y \in S : x >= y
  OBVIOUS
<1>2. Max(S) \in S /\ \A y \in S : Max(S) >= y
  BY <1>1 DEF Max
<1>3. Max(S) >= m /\ Max(S) <= m /\ Max(S) \in Nat /\ m \in Nat
  BY <1>2
<1> QED  BY <1>3

(* A field none of whose writes failed holds what its last one asked for.  *)
LEMMA SparedHolds ==
    ASSUME IInv, EndInv, ConvInv, pc = "done", NEW i \in Items, Spared(Home(i))
    PROVE  Holds(<<i, Shared>>, 1)
<1> DEFINE s == Home(i)
<1>1. \A k \in DOMAIN status : status[k] # "queued"
  BY InvResultIsFinal DEF Spared, ResultIsFinal
<1>2. \A k \in WritesOf(s) : k \in DOMAIN status /\ k \in Nat /\ ops[k].version = 1
  BY OpFacts DEF IInv, PoolInv, WritesOf, ConvInv, HomeWrites
<1>3. Awaited(s) = {}
  BY <1>1, <1>2 DEF Awaited
<1>4. Claims(s, 1) = Counted(s)
  BY <1>1, <1>2 DEF Claims, Counted, WritesOf
<1>5. ASSUME Claims(s, 1) # {}
      PROVE  cell[s][1] = ops[Max(Claims(s, 1))].value
  <2>1. PICK m \in Counted(s) :
           /\ \A j \in Counted(s) : j <= m
           /\ \A x : x = ops[m].value => Coming(s, x)
    BY <1>4, <1>5 DEF ConvInv, CountsComing
  <2>2. Counted(s) \in SUBSET Nat
    BY <1>2 DEF Counted
  <2>3. Max(Counted(s)) = m
    BY <2>1, <2>2, LatestIsMax
  <2> QED  BY <1>3, <1>4, <2>1, <2>3 DEF Coming
<1> QED  BY <1>5 DEF Holds, Home

LEMMA InvFailuresStayLocal == IInv /\ EndInv /\ ConvInv => ToleratedFailuresStayLocal
<1> SUFFICES ASSUME IInv, EndInv, ConvInv, pc = "done", trigger = "none", NEW i \in Items,
                    \A k \in DOMAIN ops : ops[k].stack = <<i, Shared>> => status[k] # "error"
             PROVE  Holds(<<i, Shared>>, 1)
  BY DEF ToleratedFailuresStayLocal
<1>1. fatal = 0
  BY DEF EndInv
<1>2. Spared(Home(i))
  BY <1>1 DEF Spared, WritesOf, Home
<1> QED  BY <1>2, SparedHolds

(* A tolerated failure costs its own field only: in a push that ran to its *)
(* end, whatever its options, the tenant and the order of the answers,     *)
(* every shared field none of whose operations failed has the value of the *)
(* last operation on it (enqueue, flushCell, recordPendingWrite).          *)
THEOREM FailuresStayLocal == Spec => []ToleratedFailuresStayLocal
  BY ExecutorInit, ExecutorStep, EndInit, EndStep, ConvInit, ConvStep,
     InvFailuresStayLocal, PTL DEF Spec

-----------------------------------------------------------------------------
(* A push without onError = "continue".                                    *)

(* Its failures show: each one dooms the pool or starts the rollback.      *)
FailuresShow ==
    ~Tolerant /\ trigger = "none" /\ fatal = 0
        => \A k \in DOMAIN status : status[k] # "error"

LEMMA AnswerShows ==
    ASSUME ~Tolerant, NEW i, i # 0, NEW r, RecordAnswer(i, r), fatal' = 0,
           status \in Seq(Status)
    PROVE  /\ fatal = 0 /\ DOMAIN status' = DOMAIN status
           /\ \A k \in DOMAIN status : status'[k] = "error" => status[k] = "error"
<1>1. CASE r = "ok"
  BY <1>1 DEF RecordAnswer
<1>2. CASE r # "ok"
  <2>1. Skippable(i, r) /\ fatal = 0
    BY <1>2 DEF RecordAnswer, FatalAfter
  <2> QED  BY <1>2, <2>1 DEF RecordAnswer
<1> QED  BY <1>1, <1>2

LEMMA PoolShows ==
    ASSUME ~Tolerant, PoolInv, NEW s \in Stacks, PoolStep(s), fatal' = 0
    PROVE  /\ fatal = 0 /\ DOMAIN status' = DOMAIN status
           /\ \A k \in DOMAIN status : status'[k] = "error" => status[k] = "error"
<1>1. status \in Seq(Status)
  BY DEF PoolInv, ResultsInv
<1>2. CASE Proceed(s)
  BY <1>2 DEF Proceed, SkipDoomed, AwaitSlot, StartNow, Resume, Begin
<1>3. CASE AnswerMerged(s)
  BY <1>1, <1>3 DEF AnswerMerged
<1>4. CASE AnswerSingle(s) \/ AnswerAdd(s)
  <2> DEFINE e == Head1(s).entries
  <2>1. at[s] \in {"single", "adding"}
    BY <1>4 DEF AnswerSingle, AnswerAdd
  <2>2. chain[s] # <<>>
    BY <2>1 DEF PoolInv, StacksInv, HeadRuns
  <2>3. e \in Seq(Nat \ {0}) /\ 1 \in DOMAIN e
    BY <2>2, HeadFacts DEF PoolInv
  <2>4. \A k \in DOMAIN e : e[k] # 0
    BY <2>3
  <2>5. AnswerSingle(s) => step[s] \in DOMAIN e
    BY DEF AnswerSingle, PoolInv, StacksInv, HeadRuns
  <2>6. \E i : i # 0 /\ (UNCHANGED <<status, fatal>> \/ \E r : RecordAnswer(i, r))
    BY <1>4, <2>3, <2>4, <2>5 DEF AnswerSingle, AnswerAdd
  <2> QED  BY <1>1, <2>6, AnswerShows
<1> QED  BY <1>2, <1>3, <1>4 DEF PoolStep, Answer

LEMMA FailuresShowStep == IInv /\ FailuresShow /\ [Next]_allVars => FailuresShow'
<1> SUFFICES ASSUME IInv, FailuresShow, [Next]_allVars,
                    ~Tolerant, trigger' = "none", fatal' = 0
             PROVE  \A k \in DOMAIN status' : status'[k] # "error"
  BY DEF FailuresShow
<1>1. status \in Seq(Status)
  BY DEF IInv, PoolInv, ResultsInv
<1> DEFINE Same == UNCHANGED <<status, fatal>> /\ (trigger' = "none" => trigger = "none")
<1>2. CASE Same
  BY <1>2 DEF FailuresShow
<1>3. CASE Cancel \/ EndOfIr \/ Drain \/ RollbackEnds \/ PlanError
  <2>1. Same
    BY <1>3 DEF Cancel, EndOfIr, Drain, DrainedFatal, DrainedCancelled, DrainedEnd,
       RollbackEnds, PlanError, StartRollback, vars, poolVars
  <2> QED  BY <1>2, <2>1
<1>4. CASE \E r \in Request : NextOp(r)
  <2>1. Same
    BY <1>4 DEF NextOp, vars, poolVars
  <2> QED  BY <1>2, <2>1
<1>5. CASE Plan /\ ~PlanError
  <2>1. PICK a \in Op, st \in {"queued", "skip", "noop"} : Record(a, st)
    BY <1>5, PlanRecords DEF Plans, Notes, ToDispatch, ToPool
  <2>2. trigger' = trigger /\ fatal' = fatal
    <3>1. \/ \E kind, outcome : NoMutation(kind, outcome)
          \/ \E plan : ToDispatch(plan) \/ ToPool(plan)
      BY <1>5 DEF Plan, PlanUnresolved, PlanSetInSync, PlanSetWithheld, PlanSetWrite,
         PlanAddPresent, PlanAdd, PlanCreateSkip, PlanCreateUpdate,
         PlanCreateUnresolved, PlanCreate, PlanPrune
    <3> QED  BY <3>1 DEF NoMutation, ToDispatch, ToPool, Enqueue, poolVars
  <2>3. \A k \in DOMAIN status' : status'[k] = st
                                  \/ (k \in DOMAIN status /\ status'[k] = status[k])
    BY <1>1, <2>1, AppendFacts DEF Record
  <2> QED  BY <2>2, <2>3 DEF FailuresShow
<1>6. CASE DispatchSet \/ DispatchAdd \/ DispatchCreate \/ DispatchPrune
  <2>1. fatal' = fatal /\ (Dispatched \/ \E r : DispatchFailed(r))
    BY <1>6 DEF DispatchSet, DispatchAdd, DispatchCreate, DispatchPrune
  <2>2. trigger' = trigger /\ \E st \in {"applied", "skip"} : status' = [status EXCEPT ![Latest] = st]
    BY <2>1 DEF Dispatched, DispatchFailed, StartRollback
  <2> QED  BY <1>1, <2>1, <2>2 DEF FailuresShow
<1>7. CASE UndoSet \/ UndoCreate \/ UndoAdd \/ UndoPrune
  <2>1. \E ok : Undone(ok)
    BY <1>7 DEF UndoSet, UndoCreate, UndoAdd, UndoPrune
  <2>2. Same
    <3>1. ASSUME NEW ok, Undone(ok) PROVE UNCHANGED <<status, fatal>>
      BY <3>1 DEF Undone, poolVars
    <3>2. ASSUME NEW ok, Undone(ok) PROVE trigger' = trigger
      BY <1>7, <3>2 DEF UndoSet, UndoCreate, UndoAdd, UndoPrune, Undone
    <3> QED  BY <2>1, <3>1, <3>2
  <2> QED  BY <1>2, <2>2
<1>8. CASE PoolRuns
  <2>1. trigger' = trigger /\ \E s \in Stacks : PoolStep(s)
    BY <1>8 DEF PoolRuns, execVars, loopVars
  <2> QED  BY <2>1, PoolShows DEF IInv, FailuresShow
<1>9. CASE UNCHANGED allVars
  <2>1. Same
    BY <1>9 DEF allVars, vars, poolVars, execVars, loopVars
  <2> QED  BY <1>2, <2>1
<1> QED  BY <1>3, <1>4, <1>5, <1>6, <1>7, <1>8, <1>9 DEF Next, LoopStep, Undo

------------------------------------------------------------------------------
(* What a push that stops at its first failure leaves, and reads.          *)

LEMMA InvConverges ==
    ASSUME ~Tolerant, IInv, EndInv, ConvInv, FailuresShow
    PROVE  SharedFieldsConverge
<1> SUFFICES ASSUME pc = "done", trigger = "none", NEW i \in Items
             PROVE  Holds(<<i, Shared>>, 1)
  BY DEF SharedFieldsConverge
<1>1. fatal = 0
  BY DEF EndInv
<1>2. \A k \in DOMAIN ops : status[k] # "error"
  BY <1>1, OpFacts DEF FailuresShow, IInv, PoolInv
<1>3. Spared(Home(i))
  BY <1>1, <1>2 DEF Spared, WritesOf
<1> QED  BY <1>3, SparedHolds

(* A push that stops at its first failure and ran to its end left every    *)
(* shared field it wrote or found in sync with the value of the last       *)
(* operation on it, although each was planned from the cache while earlier *)
(* writes of the field were queued or in flight.                           *)
THEOREM FieldsConverge ==
    ASSUME ~Tolerant
    PROVE  Spec => []SharedFieldsConverge
<1>1. Init => FailuresShow
  BY DEF Init, FailuresShow
<1>2. IInv /\ EndInv /\ ConvInv /\ FailuresShow => SharedFieldsConverge
  BY InvConverges
<1> QED  BY <1>1, <1>2, ExecutorInit, ExecutorStep, EndInit, EndStep, ConvInit, ConvStep,
            FailuresShowStep, PTL DEF Spec

(* Nothing is awaited of a stack whose queue is empty while the loop has   *)
(* no call of its own.                                                     *)
LEMMA SettledAwaitsNothing ==
    ASSUME IInv, EndInv, pc = "loop", fatal = 0, NEW s, Settled(s)
    PROVE  Awaited(s) = {}
<1> SUFFICES ASSUME NEW k \in Awaited(s) PROVE FALSE
  OBVIOUS
<1>1. k \in DOMAIN ops /\ ops[k].stack = s /\ status[k] = "queued"
  BY DEF Awaited, WritesOf
<1>2. InQueue(k)
  BY <1>1 DEF EndInv, Accounted, OwnCall
<1>3. PICK t \in Stacks : \E p \in DOMAIN chain[t] : \E l \in DOMAIN chain[t][p].entries :
         chain[t][p].entries[l] = k
  BY <1>2 DEF InQueue
<1>4. t = s
  BY <1>1, <1>3, OwnStack DEF EndInv, QueueInv
<1> QED  BY <1>3, <1>4 DEF Settled

LEMMA InvCacheNotStale ==
    ASSUME ~Tolerant, IInv, EndInv, ConvInv, FailuresShow
    PROVE  PoisonedCacheUnread
<1> SUFFICES ASSUME pc = "loop", fatal = 0,
                    NEW i \in present \ (adopted \cup (Existing \ Seeded)),
                    snap[i] # None, Settled(<<i, Shared>>)
             PROVE  snap[i].shared = cell[<<i, Shared>>][1]
  BY DEF PoisonedCacheUnread
<1>1. i \in Items /\ i \notin adopted /\ (i \in Seeded \/ i \notin Existing)
  BY DEF IInv, PoolInv, ResultsInv
<1>2. trigger = "none"
  BY DEF ConvInv, Running
<1>3. \A k \in DOMAIN ops : status[k] # "error"
  BY <1>2, OpFacts DEF FailuresShow, IInv, PoolInv
<1>4. Spared(Home(i))
  BY <1>2, <1>3 DEF Spared, WritesOf
<1>5. Awaited(Home(i)) = {}
  BY SettledAwaitsNothing DEF Home
<1>6. \A x : x = snap[i].shared => Coming(Home(i), x)
  BY <1>1, <1>4 DEF ConvInv, CacheComing
<1> QED  BY <1>5, <1>6 DEF Coming, Home

(* The snapshot cache is written through before the call is made, and yet  *)
(* no plan of a push that stops at its first failure reads a value that is *)
(* not, or not about to be, the tenant's (execute-write-pool.ts:14-18).    *)
THEOREM CacheNotStale ==
    ASSUME ~Tolerant
    PROVE  Spec => []PoisonedCacheUnread
<1>1. Init => FailuresShow
  BY DEF Init, FailuresShow
<1>2. IInv /\ EndInv /\ ConvInv /\ FailuresShow => PoisonedCacheUnread
  BY InvCacheNotStale
<1> QED  BY <1>1, <1>2, ExecutorInit, ExecutorStep, EndInit, EndStep, ConvInit, ConvStep,
            FailuresShowStep, PTL DEF Spec

------------------------------------------------------------------------------
(* The unwind. Per field, the writes that were made and those whose call is *)
(* still coming stand in a line, each planned on top of the one before it. *)

(* The applied operations the unwind has yet to take back: all of them     *)
(* while the push goes forward.                                            *)
ToUndo(k) ==
    \E p \in DOMAIN applied : applied[p] = k /\ (trigger # "none" => p <= cursor)

Made(s) == {k \in WritesOf(s) : ToUndo(k)}

(* The writes of stack s whose call is still going to be made: once the    *)
(* push is doomed, those of the task that is past the fatal test.          *)
AtHead(s, k) ==
    at[s] # "idle" /\ \E j \in DOMAIN chain[s][1].entries :
                         Pends(s, 1, j) /\ chain[s][1].entries[j] = k

Due(s) ==
    {k \in Awaited(s) : trigger = "none" /\ (fatal = 0 \/ AtHead(s, k))}

Line(s) == Made(s) \cup Due(s)

(* Write k was planned on top of the one before it in S.                   *)
Follows(k, S) ==
    IF \A j \in S : k <= j THEN ops[k].prior = Start[Shared]
    ELSE \A j \in S : j < k /\ (\A l \in S : l < k => l <= j)
                          => ops[k].prior = ops[j].value

LineFollows(s) == \A k \in Line(s) : Follows(k, Line(s))

FieldHolds(s) ==
    /\ Made(s) = {} => cell[s][1] = Start[Shared]
    /\ \A m \in Made(s) : (\A k \in Made(s) : k <= m) => cell[s][1] = ops[m].value

MadeFirst(s) == \A j \in Made(s), k \in Due(s) : j < k

ListedInOrder(s) ==
    \A p, q \in DOMAIN applied :
        p < q /\ applied[p] \in WritesOf(s) /\ applied[q] \in WritesOf(s)
            => applied[p] < applied[q]

Unwinds(s) == LineFollows(s) /\ FieldHolds(s) /\ MadeFirst(s) /\ ListedInOrder(s)

-----------------------------------------------------------------------------
(* A step that makes the first W of the writes due, in order, and may give *)
(* up some of the last ones.                                               *)
Advances(s, W) ==
    /\ W \subseteq Due(s) /\ Made(s)' = Made(s) \cup W
    /\ Due(s)' \subseteq Due(s) \ W
    /\ \A k \in W \cup Due(s)' : \A j \in Due(s) : j < k => j \in W \cup Due(s)'
    /\ \A k \in W, j \in Due(s)' : k < j
    /\ W = {} => cell'[s][1] = cell[s][1]
    /\ \A m \in W : (\A k \in W : k <= m) => cell'[s][1] = ops[m].value

LEMMA WritesNumbered ==
    ASSUME PoolInv, NEW s
    PROVE  /\ WritesOf(s) \subseteq Nat /\ WritesOf(s) \subseteq DOMAIN ops
           /\ Made(s) \subseteq WritesOf(s) /\ Due(s) \subseteq Awaited(s)
           /\ Awaited(s) \subseteq WritesOf(s) /\ Line(s) \subseteq WritesOf(s)
  BY OpFacts DEF PoolInv, WritesOf, Made, Due, Awaited, Line

LEMMA AdvanceKeeps ==
    ASSUME PoolInv, ops' = ops, NEW s, NEW W, Advances(s, W),
           LineFollows(s), FieldHolds(s), MadeFirst(s)
    PROVE  LineFollows(s)' /\ FieldHolds(s)' /\ MadeFirst(s)'
<1>1. /\ Line(s) \subseteq Nat /\ Made(s) \subseteq Nat /\ W \subseteq Nat /\ Due(s) \subseteq Nat
      /\ Line(s)' \subseteq Nat
  BY WritesNumbered DEF Advances, Line
<1>2. Line(s)' \subseteq Line(s)
      /\ \A k \in Line(s)' : \A j \in Line(s) : j < k => j \in Line(s)'
  <2>1. Line(s)' = Made(s) \cup W \cup Due(s)'
    BY DEF Line, Advances
  <2>2. Line(s)' \subseteq Line(s)
    BY <2>1 DEF Line, Advances
  <2>3. ASSUME NEW k \in Line(s)', NEW j \in Line(s), j < k PROVE j \in Line(s)'
    <3>1. CASE j \in Made(s)
      BY <2>1, <3>1
    <3>2. CASE j \in Due(s) /\ k \in Made(s)
      <4>1. k < j
        BY <3>2 DEF MadeFirst
      <4> QED  BY <1>1, <2>3, <3>2, <4>1
    <3>3. CASE j \in Due(s) /\ k \in W \cup Due(s)'
      BY <2>1, <2>3, <3>3 DEF Advances
    <3> QED  BY <2>1, <2>3, <3>1, <3>2, <3>3 DEF Line
  <2> QED  BY <2>2, <2>3
<1>3. ASSUME NEW k \in Line(s)' PROVE Follows(k, Line(s)')
  <2>1. Follows(k, Line(s))
    BY <1>2 DEF LineFollows
  <2>2. (\A j \in Line(s)' : k <= j) => \A j \in Line(s) : k <= j
    <3> SUFFICES ASSUME \A j \in Line(s)' : k <= j, NEW j \in Line(s) PROVE k <= j
      OBVIOUS
    <3>1. j \in Nat /\ k \in Nat
      BY <1>1, <1>2
    <3>2. CASE j < k
      BY <1>2, <3>1, <3>2
    <3> QED  BY <3>1, <3>2
  <2>3. (\A j \in Line(s) : k <= j) => \A j \in Line(s)' : k <= j
    BY <1>2
  <2>4. ASSUME NEW j \in Line(s)', j < k, \A l \in Line(s)' : l < k => l <= j
        PROVE  \A l \in Line(s) : l < k => l <= j
    BY <1>2, <2>4
  <2> QED  BY <1>2, <2>1, <2>2, <2>3, <2>4 DEF Follows
<1>4. LineFollows(s)'
  BY <1>3 DEF LineFollows, Follows
<1>5. MadeFirst(s)'
  BY DEF Advances, MadeFirst
<1>6. FieldHolds(s)'
  <2>1. CASE W = {}
    BY <2>1 DEF Advances, FieldHolds
  <2>2. CASE W # {}
    <3>1. Made(s)' = Made(s) \cup W /\ Made(s)' # {}
      BY <2>2 DEF Advances
    <3>2. ASSUME NEW m \in Made(s)', \A k \in Made(s)' : k <= m
          PROVE  cell'[s][1] = ops[m].value
      <4>1. m \in W
        <5> SUFFICES ASSUME m \in Made(s) PROVE FALSE
          BY <3>1
        <5>1. PICK k \in W : TRUE
          BY <2>2
        <5>2. m < k /\ k <= m
          BY <3>1, <3>2, <5>1 DEF MadeFirst, Advances
        <5> QED  BY <1>1, <5>1, <5>2
      <4> QED  BY <3>1, <3>2, <4>1 DEF Advances
    <3> QED  BY <3>1, <3>2 DEF FieldHolds
  <2> QED  BY <2>1, <2>2
<1> QED  BY <1>4, <1>5, <1>6

(* A step that takes back the last write made.                             *)
LEMMA TakeBackKeeps ==
    ASSUME PoolInv, ops' = ops, NEW s, NEW m \in Made(s), \A k \in Made(s) : k <= m,
           Made(s)' = Made(s) \ {m}, Due(s) = {}, Due(s)' = {},
           cell'[s][1] = ops[m].prior,
           LineFollows(s), FieldHolds(s), MadeFirst(s)
    PROVE  LineFollows(s)' /\ FieldHolds(s)' /\ MadeFirst(s)'
<1>1. Line(s) = Made(s) /\ Line(s)' = Made(s) \ {m} /\ Made(s) \subseteq Nat
  BY WritesNumbered DEF Line
<1>2. ASSUME NEW k \in Made(s) \ {m} PROVE Follows(k, Made(s) \ {m})
  <2>1. Follows(k, Made(s))
    BY <1>1 DEF LineFollows
  <2>2. k \in Nat /\ m \in Nat /\ k < m
    <3>1. k \in Nat /\ m \in Nat /\ k <= m /\ k # m
      BY <1>1
    <3> QED  BY <3>1
  <2>3. (\A j \in Made(s) \ {m} : k <= j) <=> \A j \in Made(s) : k <= j
    BY <2>2
  <2>4. ~(m < k)
    BY <2>2
  <2> QED  BY <2>1, <2>3, <2>4 DEF Follows
<1>3. LineFollows(s)'
  BY <1>1, <1>2 DEF LineFollows, Follows
<1>4. MadeFirst(s)'
  BY DEF MadeFirst
<1>5. FieldHolds(s)'
  <2>1. Follows(m, Made(s))
    BY <1>1 DEF LineFollows
  <2>2. ASSUME Made(s) \ {m} = {} PROVE cell'[s][1] = Start[Shared]
    <3>1. \A j \in Made(s) : m <= j
      <4> SUFFICES ASSUME NEW j \in Made(s) PROVE m <= j
        OBVIOUS
      <4>1. j = m /\ m \in Nat
        BY <1>1, <2>2
      <4> QED  BY <4>1
    <3> QED  BY <2>1, <3>1 DEF Follows
  <2>3. ASSUME NEW j \in Made(s) \ {m}, \A k \in Made(s) \ {m} : k <= j
        PROVE  cell'[s][1] = ops[j].value
    <3>1. j \in Nat /\ m \in Nat /\ j <= m /\ j # m
      BY <1>1
    <3>2. j < m /\ ~(m <= j)
      BY <3>1
    <3>3. \A l \in Made(s) : l < m => l <= j
      <4> SUFFICES ASSUME NEW l \in Made(s), l < m PROVE l <= j
        OBVIOUS
      <4>1. l # m
        BY <3>1
      <4> QED  BY <2>3, <4>1
    <3> QED  BY <2>1, <3>2, <3>3 DEF Follows
  <2> QED  BY <2>2, <2>3 DEF FieldHolds
<1> QED  BY <1>3, <1>4, <1>5

------------------------------------------------------------------------------
(* What an outcome does to the line of its field.                          *)

(* Nothing due is older than what is pending in the head task and not      *)
(* pending there itself.                                                   *)
LEMMA HeadOldest ==
    ASSUME IInv, EndInv, HomeWrites, NEW i \in Items, NEW k \in Due(Home(i)),
           NEW j \in DOMAIN chain[Home(i)][1].entries, Pends(Home(i), 1, j),
           chain[Home(i)][1].entries[j] \in WritesOf(Home(i)),
           k < chain[Home(i)][1].entries[j]
    PROVE  \E l \in DOMAIN chain[Home(i)][1].entries :
              Pends(Home(i), 1, l) /\ chain[Home(i)][1].entries[l] = k
<1> DEFINE s == Home(i)
           e == chain[s][1].entries
<1>1. CASE fatal # 0
  BY <1>1 DEF Due, AtHead
<1>2. CASE fatal = 0
  <2>1. s \in Stacks /\ 1 \in DOMAIN chain[s] /\ chain[s] \in Seq(Task)
    BY ConstantFacts DEF Home, Stacks, Pends, IInv, PoolInv, StacksInv
  <2>2. chain[s][1].kind = "cell"
    <3>1. InTask(chain[s][1], s, ops)
      BY <2>1 DEF EndInv, QueueInv, QueuesOrdered, WellQueued
    <3>2. chain[s][1] \in Task
      BY <2>1
    <3>3. chain[s][1].kind \in {"cell", "add"}
      BY <3>2 DEF Task
    <3>4. ops[e[j]].kind = "set"
      BY DEF WritesOf
    <3> QED  BY <3>1, <3>3, <3>4 DEF InTask
  <2>3. e[j] < k \/ \E l \in DOMAIN e : Pends(s, 1, l) /\ e[l] = k
    <3>1. k \in Awaited(s)
      BY DEF Due
    <3> QED  BY <1>2, <2>1, <2>2, <3>1, AwaitedLater
  <2>4. k \in Nat /\ e[j] \in Nat
    BY WritesNumbered DEF IInv
  <2> QED  BY <2>3, <2>4
<1> QED  BY <1>1, <1>2

(* Operations e are applied.                                               *)
LEMMA MadeGrows ==
    ASSUME PoolInv, ops' = ops, trigger = "none", trigger' = "none", NEW s,
           NEW e \in Seq(Nat \ {0}), applied' = applied \o e,
           ListedInOrder(s),
           \A j \in DOMAIN e : e[j] \in WritesOf(s) => \A k \in Made(s) : k < e[j],
           \A j, l \in DOMAIN e :
              j < l /\ e[j] \in WritesOf(s) /\ e[l] \in WritesOf(s) => e[j] < e[l]
    PROVE  /\ Made(s)' = Made(s) \cup {k \in WritesOf(s) : \E j \in DOMAIN e : e[j] = k}
           /\ ListedInOrder(s)'
<1>1. applied \in Seq(Nat \ {0}) /\ WritesOf(s)' = WritesOf(s)
  BY DEF PoolInv, ResultsInv, WritesOf
<1>2. /\ \A p \in DOMAIN applied : p \in DOMAIN applied' /\ applied'[p] = applied[p]
      /\ \A j \in DOMAIN e : Len(applied) + j \in DOMAIN applied'
                             /\ applied'[Len(applied) + j] = e[j]
      /\ \A p \in DOMAIN applied' : p \in Nat /\
            (p \in DOMAIN applied \/ (p > Len(applied) /\ p - Len(applied) \in DOMAIN e
                                      /\ applied'[p] = e[p - Len(applied)]))
      /\ \A p \in DOMAIN applied : p <= Len(applied)
      /\ Len(applied) \in Nat
  BY <1>1
<1>3. Made(s)' = Made(s) \cup {k \in WritesOf(s) : \E j \in DOMAIN e : e[j] = k}
  <2>1. \A k : ToUndo(k)' <=> \E p \in DOMAIN applied' : applied'[p] = k
    BY DEF ToUndo
  <2>2. \A k : ToUndo(k) <=> \E p \in DOMAIN applied : applied[p] = k
    BY DEF ToUndo
  <2>3. \A k : ToUndo(k)' <=> ToUndo(k) \/ \E j \in DOMAIN e : e[j] = k
    BY <1>2, <2>1, <2>2
  <2> QED  BY <1>1, <2>3 DEF Made
<1>4. ASSUME NEW p \in DOMAIN applied', NEW q \in DOMAIN applied', p < q,
             applied'[p] \in WritesOf(s), applied'[q] \in WritesOf(s)
      PROVE  applied'[p] < applied'[q]
  <2>1. CASE p \in DOMAIN applied /\ q \in DOMAIN applied
    BY <1>2, <1>4, <2>1 DEF ListedInOrder
  <2>2. CASE p \in DOMAIN applied /\ q \notin DOMAIN applied
    <3>1. applied'[p] \in Made(s)
      BY <1>2, <1>4, <2>2 DEF Made, ToUndo
    <3> QED  BY <1>2, <1>4, <2>2, <3>1
  <2>3. CASE p \notin DOMAIN applied
    <3>1. q \notin DOMAIN applied
      BY <1>2, <1>4, <2>3
    <3>2. PICK j \in DOMAIN e, l \in DOMAIN e :
             /\ j = p - Len(applied) /\ applied'[p] = e[j]
             /\ l = q - Len(applied) /\ applied'[q] = e[l]
      BY <1>2, <2>3, <3>1
    <3>3. j < l
      BY <1>2, <1>4, <3>2
    <3>4. e[j] \in WritesOf(s) /\ e[l] \in WritesOf(s)
      BY <1>4, <3>2
    <3>5. e[j] < e[l]
      BY <3>3, <3>4
    <3> QED  BY <3>2, <3>5
  <2> QED  BY <2>1, <2>2, <2>3
<1>5. ListedInOrder(s)'
  BY <1>1, <1>4 DEF ListedInOrder
<1> QED  BY <1>3, <1>5

(* Nothing of stack s is applied.                                          *)
LEMMA MadeStays ==
    ASSUME PoolInv, ops' = ops, trigger = "none", trigger' = "none", NEW s, NEW D,
           Lists(D), D \cap WritesOf(s) = {}, ListedInOrder(s)
    PROVE  Made(s)' = Made(s) /\ ListedInOrder(s)'
<1>1. CASE applied' = applied
  BY <1>1 DEF Made, ToUndo, WritesOf, ListedInOrder
<1>2. CASE applied' # applied
  <2>1. PICK e \in Seq(Nat \ {0}) : applied' = applied \o e /\ \A j \in DOMAIN e : e[j] \in D
    BY <1>2 DEF Lists
  <2>2. \A j \in DOMAIN e : e[j] \notin WritesOf(s)
    BY <2>1
  <2>3. /\ \A j \in DOMAIN e : e[j] \in WritesOf(s) => \A k \in Made(s) : k < e[j]
        /\ \A j, l \in DOMAIN e :
              j < l /\ e[j] \in WritesOf(s) /\ e[l] \in WritesOf(s) => e[j] < e[l]
    BY <2>2
  <2>4. /\ Made(s)' = Made(s) \cup {k \in WritesOf(s) : \E j \in DOMAIN e : e[j] = k}
        /\ ListedInOrder(s)'
    BY <2>1, <2>3, MadeGrows
  <2> QED  BY <2>2, <2>4
<1> QED  BY <1>1, <1>2

(* Nothing of it has an outcome.                                           *)
LEMMA StandsStill ==
    ASSUME IInv, EndInv, HomeWrites, ops' = ops, trigger = "none", trigger' = "none",
           NEW i \in Items,
           \A k \in WritesOf(Home(i)) : status'[k] = status[k],
           Made(Home(i))' = Made(Home(i)), cell'[Home(i)][1] = cell[Home(i)][1],
           fatal' = 0 => fatal = 0,
           \/ fatal' = 0
           \/ at'[Home(i)] = "idle"
           \/ \A k : AtHead(Home(i), k)' <=> AtHead(Home(i), k)
    PROVE  Advances(Home(i), {})
<1> DEFINE s == Home(i)
<1>1. WritesOf(s)' = WritesOf(s) /\ Awaited(s)' = Awaited(s)
  BY DEF WritesOf, Awaited
<1>2. CASE fatal' = 0
  <2>1. Due(s)' = Due(s)
    BY <1>1, <1>2 DEF Due
  <2> QED  BY <2>1 DEF Advances
<1>3. CASE fatal' # 0 /\ at'[s] = "idle"
  <2>1. Due(s)' = {}
    BY <1>3 DEF Due, AtHead
  <2> QED  BY <2>1 DEF Advances
<1>4. CASE fatal' # 0 /\ \A k : AtHead(s, k)' <=> AtHead(s, k)
  <2>1. Due(s)' = {k \in Awaited(s) : AtHead(s, k)}
    BY <1>1, <1>4 DEF Due
  <2>2. Due(s)' \subseteq Due(s)
    BY <2>1 DEF Due
  <2>3. ASSUME NEW k \in Due(s)', NEW j \in Due(s), j < k PROVE j \in Due(s)'
    <3>1. k \in WritesOf(s) /\ j \in Awaited(s) /\ at[s] # "idle"
      BY <2>1 DEF Due, Awaited, AtHead
    <3>2. PICK l \in DOMAIN chain[s][1].entries : Pends(s, 1, l) /\ chain[s][1].entries[l] = k
      BY <2>1 DEF AtHead
    <3>3. \E m \in DOMAIN chain[s][1].entries :
             Pends(s, 1, m) /\ chain[s][1].entries[m] = j
      BY <2>3, <3>1, <3>2, HeadOldest
    <3> QED  BY <2>1, <3>1, <3>3 DEF AtHead
  <2> QED  BY <2>2, <2>3 DEF Advances
<1> QED  BY <1>2, <1>3, <1>4

------------------------------------------------------------------------------
(* The pool's answers make the first writes of the line, in order.         *)

(* The first writes pending in the head task land.                         *)
LEMMA LandingAdvances ==
    ASSUME IInv, EndInv, HomeWrites, ops' = ops, trigger = "none", trigger' = "none",
           NEW i \in Items, NEW W, W # {},
           \A k \in W : k \in Due(Home(i)) /\ AtHead(Home(i), k),
           \A j \in DOMAIN chain[Home(i)][1].entries :
              Pends(Home(i), 1, j) => \/ chain[Home(i)][1].entries[j] \in W
                                      \/ \A k \in W : k < chain[Home(i)][1].entries[j],
           \A k \in WritesOf(Home(i)) : status'[k] = IF k \in W THEN "applied" ELSE status[k],
           fatal' = fatal, fatal' = 0 \/ at'[Home(i)] = "idle",
           Made(Home(i))' = Made(Home(i)) \cup W,
           \A m \in W : (\A k \in W : k <= m) => cell'[Home(i)][1] = ops[m].value
    PROVE  Advances(Home(i), W)
<1> DEFINE s == Home(i)
           e == chain[s][1].entries
<1>1. WritesOf(s)' = WritesOf(s) /\ Due(s) \subseteq WritesOf(s) /\ Due(s) \subseteq Nat
      /\ W \subseteq Due(s)
  BY WritesNumbered DEF WritesOf, IInv
<1>2. Due(s)' \subseteq Due(s) \ W /\ (fatal = 0 => Due(s) \subseteq W \cup Due(s)')
      /\ (fatal # 0 => Due(s)' = {})
  <2>1. Awaited(s)' = Awaited(s) \ W
    BY <1>1 DEF Awaited
  <2>2. fatal' # 0 => Due(s)' = {}
    BY DEF Due, AtHead
  <2> QED  BY <2>1, <2>2 DEF Due
<1>3. ASSUME NEW k \in W, NEW j \in Due(s), j < k PROVE j \in W
  <2>1. PICK x \in DOMAIN e : Pends(s, 1, x) /\ e[x] = k
    BY DEF AtHead
  <2>2. PICK y \in DOMAIN e : Pends(s, 1, y) /\ e[y] = j
    BY <1>1, <1>3, <2>1, HeadOldest
  <2>3. j \in Nat /\ k \in Nat
    BY <1>1, <1>3
  <2>4. ~(k < j)
    BY <1>3, <2>3
  <2> QED  BY <1>3, <2>2, <2>4
<1>4. ASSUME NEW k \in W, NEW j \in Due(s)' PROVE k < j
  <2>1. j \in Due(s) /\ j \notin W /\ j \in Nat /\ k \in Nat
    BY <1>1, <1>2
  <2>2. ~(j < k)
    BY <1>3, <2>1
  <2>3. j # k
    BY <2>1
  <2> QED  BY <2>1, <2>2, <2>3
<1>5. ASSUME NEW k \in W \cup Due(s)', NEW j \in Due(s), j < k PROVE j \in W \cup Due(s)'
  BY <1>2, <1>3, <1>5
<1> QED  BY <1>1, <1>2, <1>4, <1>5 DEF Advances

LEMMA NothingLost ==
    ASSUME "lost" \notin Responses, NEW s, NEW v, NEW r \in Answers(s, v), r # "ok"
    PROVE  ~Landed(r)
  BY DEF Answers, Landed

LEMMA MergedAdvances ==
    ASSUME IInv, EndInv, HomeWrites, "lost" \notin Responses,
           trigger = "none", trigger' = "none", NEW i \in Items, AnswerMerged(Home(i)),
           MadeFirst(Home(i)), ListedInOrder(Home(i))
    PROVE  (\E W : Advances(Home(i), W)) /\ ListedInOrder(Home(i))'
<1> DEFINE s == Home(i)
           t == chain[s][1]
           e == t.entries
           n == Len(e)
           W == {e[k] : k \in DOMAIN e}
<1>0. at[s] = "merged" /\ ops' = ops /\ fatal' = fatal
  BY DEF AnswerMerged
<1>1. /\ s \in Stacks /\ Head1(s) = t /\ t.version = 1 /\ 1 \in DOMAIN chain[s]
      /\ t.kind = "cell" /\ e \in Seq(Nat \ {0}) /\ 1 \in DOMAIN e
      /\ \A j, k \in DOMAIN e : j < k => e[j] < e[k]
      /\ \A j \in DOMAIN e : e[j] \in WritesOf(s)
      /\ \A j \in DOMAIN e : Pends(s, 1, j) => e[j] \in Awaited(s)
  BY <1>0, HomeHead
<1>2. \A j \in DOMAIN e : Pends(s, 1, j)
  BY <1>0, <1>1 DEF Pends
<1>3. \A k \in W : k \in Due(s) /\ AtHead(s, k)
  <2> SUFFICES ASSUME NEW j \in DOMAIN e PROVE e[j] \in Due(s) /\ AtHead(s, e[j])
    OBVIOUS
  <2>1. AtHead(s, e[j])
    BY <1>0, <1>2 DEF AtHead
  <2>2. e[j] \in Awaited(s)
    BY <1>1, <1>2
  <2> QED  BY <2>1, <2>2 DEF Due
<1>4. PICK r \in Answers(s, 1) :
          /\ Write(s, 1, e[n], r)
          /\ IF r = "ok"
             THEN /\ applied' = applied \o e
                  /\ status' = [x \in DOMAIN status |->
                                  IF \E k \in DOMAIN e : e[k] = x
                                  THEN "applied" ELSE status[x]]
                  /\ Leave(s)
             ELSE /\ IF fatal = 0 THEN Continue(s, "single", 1) ELSE Leave(s)
                  /\ UNCHANGED <<applied, status>>
  BY <1>1 DEF AnswerMerged, Topmost
<1>5. CASE r = "ok"
  <2>1. Drops(s) /\ at'[s] = "idle"
    BY <1>0, <1>1, <1>4, <1>5, LeaveIsLocal DEF IInv, PoolInv, InFlight, Drops
  <2>2. \A k \in WritesOf(s) : status'[k] = IF k \in W THEN "applied" ELSE status[k]
    <3>1. \A k \in WritesOf(s) : k \in DOMAIN status
      BY OpFacts DEF IInv, PoolInv, WritesOf
    <3> QED  BY <1>4, <1>5, <3>1
  <2>3. Made(s)' = Made(s) \cup W /\ ListedInOrder(s)'
    <3>1. \A j \in DOMAIN e : \A k \in Made(s) : k < e[j]
      BY <1>3 DEF MadeFirst
    <3>2. /\ Made(s)' = Made(s) \cup {k \in WritesOf(s) : \E j \in DOMAIN e : e[j] = k}
          /\ ListedInOrder(s)'
      <4> HIDE DEF e, s
      <4>1. PoolInv /\ applied' = applied \o e /\ e \in Seq(Nat \ {0}) /\ ListedInOrder(s)
        BY <1>1, <1>4, <1>5 DEF IInv, s
      <4> QED  BY <1>0, <1>1, <3>1, <4>1, MadeGrows
    <3>3. {k \in WritesOf(s) : \E j \in DOMAIN e : e[j] = k} = W
      BY <1>1
    <3> QED  BY <3>2, <3>3
  <2>4. ASSUME NEW m \in W, \A k \in W : k <= m PROVE cell'[s][1] = ops[m].value
    <3>1. n \in DOMAIN e /\ e[n] \in W /\ \A k \in DOMAIN e : k < n \/ k = n
      BY <1>1
    <3>2. e[n] \in DOMAIN ops /\ e[n] \in Nat /\ m \in Nat
      BY <1>1, <2>4, <3>1 DEF WritesOf
    <3>3. PICK x \in DOMAIN e : e[x] = m
      BY <2>4
    <3>4. m = e[n]
      <4>1. x = n \/ m < e[n]
        BY <1>1, <3>1, <3>3
      <4>2. e[n] <= m
        BY <2>4, <3>1
      <4> QED  BY <3>2, <3>3, <4>1, <4>2
    <3>5. cell'[s][1] = ops[e[n]].value
      BY <1>4, <1>5, <3>2, OkAtHome DEF IInv
    <3> QED  BY <3>4, <3>5
  <2>5. W # {} /\ \A j \in DOMAIN e : e[j] \in W
    BY <1>1
  <2> HIDE DEF W
  <2>6. Advances(s, W)
    BY <1>0, <1>3, <2>1, <2>2, <2>3, <2>4, <2>5, LandingAdvances
  <2> QED  BY <2>3, <2>6
<1>6. CASE r # "ok"
  <2>1. cell' = cell /\ applied' = applied /\ status' = status
    BY <1>4, <1>6, NothingLost DEF Write
  <2>2. Made(s)' = Made(s) /\ ListedInOrder(s)'
    BY <1>0, <2>1 DEF Made, ToUndo, WritesOf, ListedInOrder
  <2>3. fatal' = 0 \/ at'[s] = "idle"
    BY <1>0, <1>1, <1>4, <1>6, LeaveIsLocal DEF IInv, PoolInv, InFlight, Drops
  <2>4. Advances(s, {})
    BY <1>0, <2>1, <2>2, <2>3, StandsStill
  <2> QED  BY <2>2, <2>4
<1> QED  BY <1>5, <1>6

LEMMA SingleAdvances ==
    ASSUME IInv, EndInv, HomeWrites, "lost" \notin Responses, ~Tolerant,
           trigger = "none", trigger' = "none", NEW i \in Items, AnswerSingle(Home(i)),
           MadeFirst(Home(i)), ListedInOrder(Home(i))
    PROVE  (\E W : Advances(Home(i), W)) /\ ListedInOrder(Home(i))'
<1> DEFINE s == Home(i)
           t == chain[s][1]
           e == t.entries
           m == e[step[s]]
<1>0. at[s] = "single" /\ ops' = ops
  BY DEF AnswerSingle
<1>1. /\ s \in Stacks /\ Head1(s) = t /\ t.version = 1 /\ 1 \in DOMAIN chain[s]
      /\ t.kind = "cell" /\ e \in Seq(Nat \ {0})
      /\ \A j, k \in DOMAIN e : j < k => e[j] < e[k]
      /\ \A j \in DOMAIN e : e[j] \in WritesOf(s)
      /\ \A j \in DOMAIN e : Pends(s, 1, j) => e[j] \in Awaited(s)
  BY <1>0, HomeHead
<1>2. step[s] \in DOMAIN e /\ Pends(s, 1, step[s])
  <2>1. step[s] \in DOMAIN e
    BY <1>0, <1>1 DEF IInv, PoolInv, StacksInv, HeadRuns
  <2> QED  BY <1>0, <1>1, <2>1 DEF Pends
<1>3. m \in Due(s) /\ AtHead(s, m) /\ m \in WritesOf(s) /\ m \in DOMAIN ops
      /\ m \in Nat \ {0} /\ ops[m].stack = s
  <2>1. AtHead(s, m) /\ m \in Awaited(s)
    BY <1>0, <1>1, <1>2 DEF AtHead
  <2> QED  BY <1>1, <1>2, <2>1 DEF Due, WritesOf
<1>4. PICK r \in Answers(s, 1) :
          /\ Write(s, 1, m, r) /\ RecordAnswer(m, r)
          /\ IF MoreEntries(s, r) THEN Continue(s, "single", step[s] + 1) ELSE Leave(s)
  BY <1>1 DEF AnswerSingle
<1>5. fatal' = 0 \/ at'[s] = "idle"
  BY <1>0, <1>1, <1>4, LeaveIsLocal DEF IInv, PoolInv, InFlight, Drops, MoreEntries
<1>6. status \in Seq(Status) /\ \A k \in WritesOf(s) : k \in DOMAIN status
  BY OpFacts DEF IInv, PoolInv, ResultsInv, WritesOf
<1>7. CASE r = "ok"
  <2>1. /\ applied' = Append(applied, m) /\ fatal' = fatal
        /\ status' = [status EXCEPT ![m] = "applied"]
    BY <1>4, <1>7 DEF RecordAnswer
  <2>2. \A k \in WritesOf(s) : status'[k] = IF k \in {m} THEN "applied" ELSE status[k]
    BY <1>6, <2>1
  <2>3. Made(s)' = Made(s) \cup {m} /\ ListedInOrder(s)'
    <3> DEFINE f == <<m>>
    <3>1. f \in Seq(Nat \ {0}) /\ DOMAIN f = {1} /\ f[1] = m
      BY <1>3
    <3>2. applied' = applied \o f
      <4>1. applied \in Seq(Nat \ {0}) /\ m \in Nat \ {0}
        BY <1>3 DEF IInv, PoolInv, ResultsInv
      <4> HIDE DEF m
      <4> QED  BY <2>1, <4>1
    <3> HIDE DEF f
    <3>3. \A j \in DOMAIN f : f[j] \in WritesOf(s) => \A k \in Made(s) : k < f[j]
      BY <1>3, <3>1 DEF MadeFirst
    <3>4. \A j, l \in DOMAIN f : ~(j < l)
      BY <3>1
    <3>5. PoolInv /\ ListedInOrder(s)
      BY DEF IInv
    <3> HIDE DEF s, m
    <3>6. /\ Made(s)' = Made(s) \cup {k \in WritesOf(s) : \E j \in DOMAIN f : f[j] = k}
          /\ ListedInOrder(s)'
      BY <1>0, <3>1, <3>2, <3>3, <3>4, <3>5, MadeGrows
    <3> QED  BY <1>3, <3>1, <3>6
  <2>4. cell'[s][1] = ops[m].value
    BY <1>3, <1>4, <1>7, OkAtHome DEF IInv
  <2>5. \A j \in DOMAIN e : Pends(s, 1, j) => e[j] \in {m} \/ m < e[j]
    <3> SUFFICES ASSUME NEW j \in DOMAIN e, Pends(s, 1, j) PROVE e[j] \in {m} \/ m < e[j]
      OBVIOUS
    <3>1. j >= step[s] /\ j \in Nat /\ step[s] \in Nat
      BY <1>0, <1>1, <1>2 DEF Pends
    <3>2. j = step[s] \/ step[s] < j
      BY <3>1
    <3> QED  BY <1>1, <1>2, <3>2
  <2>6. \A k \in {m} : k \in Due(s) /\ AtHead(s, k)
    BY <1>3
  <2> HIDE DEF m
  <2>7. Advances(s, {m})
    BY <1>0, <1>5, <2>1, <2>2, <2>3, <2>4, <2>5, <2>6, LandingAdvances
  <2> QED  BY <2>3, <2>7
<1>8. CASE r # "ok"
  <2>1. ~Skippable(m, r)
    BY <1>3, ExecutorAssumption DEF Skippable, Home
  <2>2. applied' = applied /\ fatal' # 0 /\ cell' = cell
    BY <1>3, <1>4, <1>8, <2>1, NothingLost DEF RecordAnswer, FatalAfter, Write
  <2>3. Made(s)' = Made(s) /\ ListedInOrder(s)'
    BY <1>0, <2>2 DEF Made, ToUndo, WritesOf, ListedInOrder
  <2>4. Due(s)' = {}
    BY <1>5, <2>2 DEF Due, AtHead
  <2>5. Advances(s, {})
    BY <2>2, <2>3, <2>4 DEF Advances
  <2> QED  BY <2>3, <2>5
<1> QED  BY <1>7, <1>8

------------------------------------------------------------------------------
(* Every step of the pool, seen from a field.                              *)

(* A step that gives no write of stack s an outcome.                       *)
LEMMA ElsewhereAdvances ==
    ASSUME IInv, EndInv, HomeWrites, ops' = ops, trigger = "none", trigger' = "none",
           NEW i \in Items, ListedInOrder(Home(i)),
           NEW t, NEW D, Settles(t, D), Lists(D), D \cap WritesOf(Home(i)) = {},
           cell'[Home(i)][1] = cell[Home(i)][1],
           \/ fatal' = 0
           \/ at'[Home(i)] = "idle"
           \/ \A k : AtHead(Home(i), k)' <=> AtHead(Home(i), k)
    PROVE  Advances(Home(i), {}) /\ ListedInOrder(Home(i))'
<1> DEFINE s == Home(i)
<1>1. Made(s)' = Made(s) /\ ListedInOrder(s)'
  BY MadeStays DEF IInv
<1>2. \A k \in WritesOf(s) : status'[k] = status[k]
  <2> SUFFICES ASSUME NEW k \in WritesOf(s) PROVE status'[k] = status[k]
    OBVIOUS
  <2>1. k \in DOMAIN status
    BY OpFacts DEF IInv, PoolInv, WritesOf
  <2>2. k \notin D
    OBVIOUS
  <2> QED  BY <2>1, <2>2 DEF Settles
<1>3. fatal' = 0 => fatal = 0
  BY DEF Settles
<1>4. Advances(s, {})
  BY <1>1, <1>2, <1>3, StandsStill
<1> QED  BY <1>1, <1>4

(* A step of another stack, and one that only schedules.                   *)
LEMMA HeadElsewhere ==
    ASSUME NEW t \in Stacks, OthersStill(t), NEW s \in Stacks, s # t, NEW k
    PROVE  AtHead(s, k)' <=> AtHead(s, k)
<1>1. chain'[s] = chain[s] /\ (at'[s] = "idle" <=> at[s] = "idle")
  BY DEF OthersStill
<1>2. \A j : Pends(s, 1, j)' <=> Pends(s, 1, j)
  BY PlacesElsewhere
<1> QED  BY <1>1, <1>2 DEF AtHead

LEMMA HeadScheduled ==
    ASSUME StacksInv, NEW s \in Stacks, Proceed(s), fatal # 0
    PROVE  at'[s] = "idle" \/ \A k : AtHead(s, k)' <=> AtHead(s, k)
<1>1. CASE SkipDoomed(s)
  BY <1>1 DEF SkipDoomed, Ready
<1>2. CASE Resume(s)
  <2>1. at[s] = "woken" /\ chain[s] # <<>>
    BY <1>2 DEF Resume, StacksInv, HeadRuns
  <2>2. Starts(s) /\ at'[s] \in InFlight
    BY <1>2, <2>1 DEF Resume, Begin, Starts, StacksInv, FirstCall, InFlight
  <2>3. /\ DOMAIN chain'[s] = DOMAIN chain[s] /\ 1 \in DOMAIN chain[s]
        /\ chain'[s][1].entries = chain[s][1].entries
        /\ chain[s][1].entries \in Seq(Nat \ {0})
    <3>1. 1 \in DOMAIN chain[s] /\ chain[s][1].entries \in Seq(Nat \ {0})
      BY <2>1, HeadFacts
    <3> QED  BY <2>2, <3>1, ClaimFacts
  <2>4. \A j \in DOMAIN chain[s][1].entries : Pends(s, 1, j) /\ Pends(s, 1, j)'
    <3> SUFFICES ASSUME NEW j \in DOMAIN chain[s][1].entries
                 PROVE  Pends(s, 1, j) /\ Pends(s, 1, j)'
      OBVIOUS
    <3>1. j >= 1
      BY <2>3
    <3> QED  BY <2>1, <2>2, <2>3, <3>1 DEF Pends, Starts
  <2>5. at[s] # "idle" /\ at'[s] # "idle"
    BY <2>1, <2>2 DEF InFlight
  <2> QED  BY <2>3, <2>4, <2>5 DEF AtHead
<1> QED  BY <1>1, <1>2 DEF Proceed, AwaitSlot, StartNow

LEMMA AddAdvances ==
    ASSUME IInv, EndInv, HomeWrites, ops' = ops, trigger = "none", trigger' = "none",
           NEW i \in Items, AnswerAdd(Home(i)), ListedInOrder(Home(i)),
           NEW D, Settles(Home(i), D), Lists(D)
    PROVE  Advances(Home(i), {}) /\ ListedInOrder(Home(i))'
<1> DEFINE s == Home(i)
<1>1. s \in Stacks /\ at[s] = "adding" /\ cell' = cell
  BY ConstantFacts DEF Home, Stacks, AnswerAdd
<1>2. chain[s] # <<>>
  BY <1>1 DEF IInv, PoolInv, StacksInv, HeadRuns
<1>3. chain[s][1].kind = "add"
  <2>1. Head1(s) = chain[s][1]
    BY <1>1, <1>2, HeadFacts DEF IInv, PoolInv
  <2> QED  BY <1>1, <2>1 DEF EndInv, QueueInv, HeadClaimed
<1>4. D \cap WritesOf(s) = {}
  <2> SUFFICES ASSUME NEW k \in D PROVE k \notin WritesOf(s)
    OBVIOUS
  <2>1. ops[k].kind = "add"
    BY <1>1, <1>3, SettledFacts DEF IInv, EndInv, QueueInv
  <2> QED  BY <2>1 DEF WritesOf
<1>5. at'[s] = "idle" \/ \A k : AtHead(s, k)' <=> AtHead(s, k)
  <2>1. Drops(s) \/ GoesOn(s)
    BY <1>1, AnswerIsLocal DEF Answer, IInv
  <2>2. CASE GoesOn(s)
    <3>1. chain'[s] = chain[s] /\ at'[s] = "adding"
      BY <1>1, <2>2 DEF GoesOn
    <3> QED  BY <1>1, <3>1 DEF AtHead, Pends
  <2> QED  BY <2>1, <2>2 DEF Drops
<1>6. cell'[s][1] = cell[s][1]
  BY <1>1
<1> QED  BY <1>4, <1>5, <1>6, ElsewhereAdvances

LEMMA PoolAdvances ==
    ASSUME IInv, EndInv, HomeWrites, "lost" \notin Responses, ~Tolerant,
           trigger = "none", trigger' = "none", NEW t \in Stacks, PoolStep(t),
           NEW i \in Items, MadeFirst(Home(i)), ListedInOrder(Home(i))
    PROVE  (\E W : Advances(Home(i), W)) /\ ListedInOrder(Home(i))'
<1> DEFINE s == Home(i)
<1>1. s \in Stacks
  BY ConstantFacts DEF Home, Stacks
<1>2. PICK D : OthersStill(t) /\ ops' = ops /\ Settles(t, D) /\ Lists(D)
  BY PoolStepSettles DEF IInv, EndInv, QueueInv
<1>3. CASE t # s
  <2>1. D \cap WritesOf(s) = {}
    <3> SUFFICES ASSUME NEW k \in D PROVE k \notin WritesOf(s)
      OBVIOUS
    <3>1. ops[k].stack = t
      BY <1>2, SettledFacts DEF IInv, EndInv, QueueInv
    <3> QED  BY <1>3, <3>1 DEF WritesOf
  <2>2. cell'[s] = cell[s]
    <3>1. CASE Proceed(t)
      BY <3>1, ProceedIsLocal DEF IInv, PoolInv
    <3>2. CASE Answer(t)
      BY <1>1, <1>3, <3>2 DEF Answer, AnswerMerged, AnswerSingle, AnswerAdd, Write, IInv,
         PoolInv, ResultsInv
    <3> QED  BY <3>1, <3>2 DEF PoolStep
  <2>3. \A k : AtHead(s, k)' <=> AtHead(s, k)
    BY <1>1, <1>2, <1>3, HeadElsewhere
  <2> QED  BY <1>2, <2>1, <2>2, <2>3, ElsewhereAdvances
<1>4. CASE t = s /\ Proceed(s)
  <2>1. Settles(s, {}) /\ Lists({}) /\ UNCHANGED <<cell, fatal>>
    BY <1>1, <1>4, ProceedSettles, ProceedIsLocal DEF IInv, PoolInv
  <2>2. \/ fatal' = 0 \/ at'[s] = "idle" \/ \A k : AtHead(s, k)' <=> AtHead(s, k)
    BY <1>1, <1>4, <2>1, HeadScheduled DEF IInv, PoolInv
  <2> QED  BY <1>2, <2>1, <2>2, ElsewhereAdvances
<1>5. CASE t = s /\ AnswerMerged(s)
  BY <1>5, MergedAdvances
<1>6. CASE t = s /\ AnswerSingle(s)
  BY <1>6, SingleAdvances
<1>7. CASE t = s /\ AnswerAdd(s)
  BY <1>2, <1>7, AddAdvances
<1> QED  BY <1>3, <1>4, <1>5, <1>6, <1>7 DEF PoolStep, Answer

------------------------------------------------------------------------------
(* A plan puts its write at the end of the line.                           *)

(* An operation is planned: what it is to be undone to is what its field   *)
(* will hold by the time it lands.                                         *)
LEMMA RecordedUnwinds ==
    ASSUME PoolInv, trigger = "none",
           NEW a \in Op, NEW st \in {"queued", "skip", "noop"}, Record(a, st),
           UNCHANGED <<tenant, trigger, cursor, fatal, applied>>,
           fatal # 0 => UNCHANGED <<chain, at, step>>,
           NEW i \in Items, Unwinds(Home(i)),
           WritesHome(a, i) /\ st = "queued" /\ fatal = 0 => Coming(Home(i), a.prior)
    PROVE  Unwinds(Home(i))'
<1> DEFINE s == Home(i)
           n == Len(ops) + 1
           mine == a.kind = "set" /\ a.stack = s
<1>1. /\ ops'[n] = a /\ n \notin DOMAIN ops /\ n \in Nat /\ status'[n] = st
      /\ \A k \in DOMAIN ops : k < n /\ k \in Nat /\ ops'[k] = ops[k] /\ status'[k] = status[k]
      /\ DOMAIN ops' = DOMAIN ops \cup {n}
  <2>1. st \in Status
    BY DEF Status
  <2>2. \A k \in DOMAIN ops : k \in Nat
    BY OpFacts DEF PoolInv
  <2> QED  BY <2>1, <2>2, RecordedFacts DEF Record, PoolInv
<1>2. WritesOf(s)' = WritesOf(s) \cup (IF mine THEN {n} ELSE {})
  BY <1>1 DEF WritesOf
<1>3. \A k \in WritesOf(s) : k < n /\ k # n /\ k \in Nat /\ ops'[k] = ops[k]
                             /\ status'[k] = status[k]
  BY <1>1 DEF WritesOf
<1>4. \A p \in DOMAIN applied : applied[p] \in DOMAIN ops /\ applied[p] # n
  BY <1>1 DEF PoolInv, ResultsInv, ResultsKnown
<1>5. Made(s)' = Made(s)
  <2>1. \A k : ToUndo(k)' <=> ToUndo(k)
    BY DEF ToUndo
  <2>2. ~ToUndo(n)
    BY <1>4 DEF ToUndo
  <2> QED  BY <1>2, <2>1, <2>2 DEF Made
<1>6. Awaited(s)' = Awaited(s) \cup (IF mine /\ st = "queued" THEN {n} ELSE {})
  BY <1>1, <1>2, <1>3 DEF Awaited
<1>7. fatal = 0 => Due(s) = Awaited(s) /\ Due(s)' = Awaited(s)'
  BY DEF Due
<1>8. fatal # 0 => Due(s)' = Due(s)
  <2> SUFFICES ASSUME fatal # 0 PROVE Due(s)' = Due(s)
    OBVIOUS
  <2>1. \A k : AtHead(s, k)' <=> AtHead(s, k)
    BY DEF AtHead, Pends
  <2>2. ~AtHead(s, n)
    <3> SUFFICES ASSUME AtHead(s, n) PROVE FALSE
      OBVIOUS
    <3>1. PICK j \in DOMAIN chain[s][1].entries :
             Pends(s, 1, j) /\ chain[s][1].entries[j] = n
      BY DEF AtHead
    <3>2. s \in Stacks /\ 1 \in DOMAIN chain[s]
      BY <3>1, ConstantFacts DEF Pends, Home, Stacks
    <3>3. n \in DOMAIN ops
      BY <3>1, <3>2 DEF PoolInv, StacksInv, TasksKnown
    <3> QED  BY <1>1, <3>3
  <2> QED  BY <1>6, <2>1, <2>2 DEF Due
<1>9. Line(s) \subseteq WritesOf(s) /\ Made(s) \subseteq WritesOf(s) /\ Due(s) \subseteq WritesOf(s)
  BY WritesNumbered
<1>10. FieldHolds(s)'
  <2>1. cell' = cell /\ \A m \in Made(s) : ops'[m] = ops[m]
    BY <1>3, <1>9 DEF tenant
  <2>2. FieldHolds(s)
    BY DEF Unwinds
  <2> QED  BY <1>5, <2>1, <2>2 DEF FieldHolds
<1>11. ListedInOrder(s)'
  <2>1. \A p \in DOMAIN applied : applied[p] \in WritesOf(s)' <=> applied[p] \in WritesOf(s)
    BY <1>2, <1>4
  <2> QED  BY <2>1 DEF ListedInOrder, Unwinds
<1>12. ASSUME Due(s)' = Due(s) PROVE LineFollows(s)' /\ MadeFirst(s)'
  <2>1. Line(s)' = Line(s) /\ MadeFirst(s)'
    BY <1>5, <1>12 DEF Line, MadeFirst, Unwinds
  <2>2. \A k \in Line(s) : ops'[k] = ops[k]
    BY <1>3, <1>9
  <2>3. \A k \in Line(s) : Follows(k, Line(s))
    BY DEF Unwinds, LineFollows
  <2>4. LineFollows(s)'
    BY <2>1, <2>2, <2>3 DEF LineFollows, Follows
  <2> QED  BY <2>1, <2>4
<1>13. ASSUME fatal = 0, mine, st = "queued", Due(s)' = Due(s) \cup {n}
       PROVE  LineFollows(s)' /\ MadeFirst(s)'
  <2>1. Line(s)' = Line(s) \cup {n} /\ ops'[n].prior = a.prior
    BY <1>1, <1>5, <1>13 DEF Line
  <2>2. MadeFirst(s)'
    BY <1>3, <1>5, <1>9, <1>13 DEF MadeFirst, Unwinds
  <2>3. \A k \in Line(s) : k \in Nat /\ k < n /\ ~(n < k) /\ k <= n /\ ~(n <= k) /\ ops'[k] = ops[k]
    BY <1>1, <1>3, <1>9
  <2>4. Coming(s, a.prior) /\ Due(s) = Awaited(s)
    BY <1>7, <1>13 DEF WritesHome
  <2>5. ASSUME NEW k \in Line(s)
        PROVE  IF \A j \in Line(s) \cup {n} : k <= j THEN ops'[k].prior = Start[Shared]
               ELSE \A j \in Line(s) \cup {n} :
                      j < k /\ (\A l \in Line(s) \cup {n} : l < k => l <= j)
                          => ops'[k].prior = ops'[j].value
    <3>1. Follows(k, Line(s))
      BY DEF Unwinds, LineFollows
    <3>2. (\A j \in Line(s) \cup {n} : k <= j) <=> \A j \in Line(s) : k <= j
      BY <2>3
    <3>3. ASSUME NEW j \in Line(s) \cup {n}, j < k,
                 \A l \in Line(s) \cup {n} : l < k => l <= j
          PROVE  j \in Line(s) /\ (\A l \in Line(s) : l < k => l <= j)
      BY <2>3, <3>3
    <3> QED  BY <2>3, <3>1, <3>2, <3>3 DEF Follows
  <2>6. Line(s) = {} => a.prior = Start[Shared]
    <3> SUFFICES ASSUME Line(s) = {} PROVE a.prior = Start[Shared]
      OBVIOUS
    <3>1. Awaited(s) = {} /\ Made(s) = {}
      BY <2>4 DEF Line
    <3>2. cell[s][1] = a.prior
      BY <2>4, <3>1 DEF Coming
    <3> QED  BY <3>1, <3>2 DEF Unwinds, FieldHolds
  <2>7. ASSUME NEW j \in Line(s), \A l \in Line(s) : l <= j PROVE a.prior = ops[j].value
    <3>1. CASE Awaited(s) = {}
      <4>1. j \in Made(s) /\ \A l \in Made(s) : l <= j
        BY <2>4, <2>7, <3>1 DEF Line
      <4> QED  BY <2>4, <3>1, <4>1 DEF Coming, Unwinds, FieldHolds
    <3>2. CASE Awaited(s) # {}
      <4>1. PICK k \in Awaited(s) : TRUE
        BY <3>2
      <4>2. k \in Line(s) /\ k <= j
        BY <2>4, <2>7 DEF Line
      <4>3. j \notin Made(s)
        <5> SUFFICES ASSUME j \in Made(s) PROVE FALSE
          OBVIOUS
        <5>1. j < k
          BY <2>4 DEF Unwinds, MadeFirst
        <5> QED  BY <2>3, <4>2, <5>1
      <4>4. j \in Awaited(s)
        BY <2>4, <4>3 DEF Line
      <4>5. \A l \in Awaited(s) : l <= j
        BY <2>4, <2>7 DEF Line
      <4> QED  BY <2>4, <4>4, <4>5 DEF Coming
    <3> QED  BY <3>1, <3>2
  <2>8. IF \A j \in Line(s) \cup {n} : n <= j THEN ops'[n].prior = Start[Shared]
        ELSE \A j \in Line(s) \cup {n} :
               j < n /\ (\A l \in Line(s) \cup {n} : l < n => l <= j)
                   => ops'[n].prior = ops'[j].value
    <3>1. (\A j \in Line(s) \cup {n} : n <= j) => Line(s) = {}
      BY <2>3
    <3>2. ASSUME NEW j \in Line(s) \cup {n}, j < n,
                 \A l \in Line(s) \cup {n} : l < n => l <= j
          PROVE  ops'[n].prior = ops'[j].value
      <4>1. j \in Line(s)
        BY <1>1, <3>2
      <4>2. \A l \in Line(s) : l <= j
        BY <2>3, <3>2
      <4> QED  BY <2>1, <2>3, <2>7, <4>1, <4>2
    <3> QED  BY <2>1, <2>6, <3>1, <3>2
  <2>9. LineFollows(s)'
    BY <2>1, <2>5, <2>8 DEF LineFollows, Follows
  <2> QED  BY <2>2, <2>9
<1>14. LineFollows(s)' /\ MadeFirst(s)'
  <2>1. CASE fatal = 0 /\ mine /\ st = "queued"
    BY <1>6, <1>7, <1>13, <2>1
  <2>2. CASE ~(fatal = 0 /\ mine /\ st = "queued")
    BY <1>6, <1>7, <1>8, <1>12, <2>2
  <2> QED  BY <2>1, <2>2
<1> QED  BY <1>10, <1>11, <1>14 DEF Unwinds

------------------------------------------------------------------------------
(* What is planned: the prior value of a write is what its field will have. *)

(* Whatever the cache has of an item, its shared field is a value.         *)
SharedCached == \A i \in Items : snap[i] # None => snap[i].shared \in Values

LEMMA RemoteShared ==
    ASSUME PoolInv, SharedCached, NEW i \in Items, Remote(i) # None
    PROVE  Remote(i).shared \in Values
<1>1. CASE snap[i] # None
  BY <1>1 DEF Remote, SharedCached
<1>2. CASE snap[i] = None
  <2>1. Remote(i).shared = cell[<<i, Shared>>][1]
    BY <1>2 DEF Remote, WireRead
  <2> QED  BY <2>1, ConstantFacts DEF PoolInv, ResultsInv, Stacks
<1> QED  BY <1>1, <1>2

(* A step that changes at most one item's snapshot, or forgets some.       *)
LEMMA CachesShared ==
    ASSUME SharedCached, NEW c,
           \A i \in Items : i # c => snap'[i] \in {snap[i], None},
           c \in Items /\ snap'[c] # None => snap'[c].shared \in Values
    PROVE  SharedCached'
  BY DEF SharedCached

LEMMA SharedCachedStep ==
    ASSUME IInv, ConvInv, SharedCached, [Next]_allVars
    PROVE  SharedCached'
<1>0. snap \in [Items -> Snapshot \cup {None}]
  BY DEF IInv, CacheTypeOK
<1>1. CASE snap' = snap
  BY <1>1 DEF SharedCached
<1>2. CASE PlanSetInSync \/ PlanSetWithheld \/ PlanAddPresent \/ PlanAdd
  <2>1. /\ pc = "plan" /\ Remote(cur.item) # None
        /\ snap' = [snap EXCEPT ![cur.item] = Remote(cur.item)]
    BY <1>2 DEF PlanSetInSync, PlanSetWithheld, PlanAddPresent, PlanAdd, Planning,
       Unresolved, CacheRead
  <2>2. cur.item \in Items
    BY <2>1, InHand
  <2>3. Remote(cur.item).shared \in Values
    BY <2>1, <2>2, RemoteShared DEF IInv
  <2> QED  BY <1>0, <2>1, <2>2, <2>3, CachesShared
<1>3. CASE PlanSetWrite
  <2> DEFINE sn == Remote(cur.item)
             w == WriteThrough(sn, cur.lang, cur.version, cur.value)
  <2>1. /\ pc = "plan" /\ sn # None /\ snap' = [snap EXCEPT ![cur.item] = w]
    BY <1>3 DEF PlanSetWrite, Planning, Unresolved
  <2>2. cur.item \in Items /\ cur.value \in Values
    BY <2>1, InHand
  <2>3. sn.shared \in Values /\ sn \in Snapshot
    BY <2>1, <2>2, RemoteShared, RemoteType DEF IInv
  <2> HIDE DEF sn
  <2>4. w.shared \in Values
    BY <2>2, <2>3 DEF WriteThrough, Snapshot
  <2> HIDE DEF w
  <2> QED  BY <1>0, <2>1, <2>2, <2>4, CachesShared
<1>4. CASE DispatchCreate /\ snap' # snap
  <2> DEFINE c == ops[Latest].stack[1]
             x == ops[Latest].value
  <2>1. pc = "dispatch" /\ snap' = [snap EXCEPT ![c] = Synthetic(x)]
    BY <1>4 DEF DispatchCreate, Dispatching, cacheVars
  <2>2. x \in Values /\ c \in Items
    BY <2>1, LatestOp DEF Op, Stacks
  <2>3. Synthetic(x).shared \in Values
    BY <2>2 DEF Synthetic
  <2> HIDE DEF c, x
  <2> QED  BY <1>0, <2>1, <2>2, <2>3, CachesShared
<1>5. CASE DispatchPrune
  <2>1. \A i \in Items : snap'[i] \in {snap[i], None}
    BY <1>0, <1>5 DEF DispatchPrune
  <2> QED  BY <2>1 DEF SharedCached
<1>6. [Next]_allVars => \/ snap' = snap
                        \/ PlanSetInSync \/ PlanSetWithheld \/ PlanAddPresent \/ PlanAdd
                        \/ PlanSetWrite \/ DispatchCreate \/ DispatchPrune
  <2>1. CASE UNCHANGED allVars
    BY <2>1 DEF allVars, execVars, cacheVars
  <2>2. CASE PoolRuns \/ Cancel \/ (\E r \in Request : NextOp(r)) \/ EndOfIr \/ Drain \/ Undo
    BY <2>2 DEF PoolRuns, execVars, cacheVars, Cancel, NextOp, EndOfIr, Drain, DrainedFatal,
       DrainedCancelled, DrainedEnd, Undo, UndoSet, UndoCreate, UndoAdd, UndoPrune, Undone,
       RollbackEnds
  <2>3. CASE Plan
    BY <2>3 DEF Plan, PlanUnresolved, PlanCreateSkip, PlanCreateUpdate,
       PlanCreateUnresolved, PlanCreate, PlanPrune, PlanError, cacheVars
  <2>4. CASE DispatchSet \/ DispatchAdd
    BY <2>4 DEF DispatchSet, DispatchAdd, cacheVars
  <2> QED  BY <2>1, <2>2, <2>3, <2>4 DEF Next, LoopStep
<1> QED  BY <1>1, <1>2, <1>3, <1>4, <1>5, <1>6

-----------------------------------------------------------------------------
(* What a plan leaves behind, for the unwind.                              *)
PlansWell(a, st) ==
    /\ Record(a, st)
    /\ UNCHANGED <<tenant, trigger, cursor, residue, fatal, applied, adopted>>
    /\ fatal # 0 => UNCHANGED <<chain, at, step>>

LEMMA NotedWell ==
    ASSUME NEW kind, NEW st, NoMutation(kind, st), adopted' = adopted
    PROVE  PlansWell(Action(kind, 0, Blank, {}), st)
  BY DEF NoMutation, PlansWell, poolVars

LEMMA PooledWell ==
    ASSUME NEW a, ToPool(a) \/ ToDispatch(a), adopted' = adopted
    PROVE  PlansWell(a, "queued")
  BY DEF ToPool, ToDispatch, Enqueue, PlansWell, poolVars

(* What is planned, wherever it goes next.                                 *)
Suits(a, st) ==
    /\ a.kind # "prune" => a.stack[1] \notin Prunees
    /\ a.kind = "prune" => a.items \subseteq Prunees \cap present
    /\ \A i \in Items : WritesHome(a, i) /\ st = "queued" /\ fatal = 0
                            => Coming(Home(i), a.prior)

LEMMA NotesSuit ==
    ASSUME IInv, ConvInv, pc = "plan", NEW k \in {"set", "add", "create", "prune"},
           cur.kind = k, NEW st \in {"noop", "skip"}, NoMutation(k, st), adopted' = adopted
    PROVE  \E a \in Op : PlansWell(a, st) /\ Suits(a, st)
<1> DEFINE a == Action(k, 0, Blank, {})
<1>1. PlansWell(a, st)
  BY NotedWell
<1>2. cur \in Request /\ (k # "prune" => cur.item \notin Prunees)
  BY InHand
<1>3. a \in Op
  BY <1>2, ConstantFacts, ActionType
<1>4. a.kind = k /\ a.stack[1] = cur.item /\ a.items = {}
  BY ActionParts DEF Target
<1> HIDE DEF a
<1>5. Suits(a, st)
  BY <1>2, <1>4 DEF Suits
<1> QED  BY <1>1, <1>3, <1>5

LEMMA WriteSuits ==
    ASSUME ~Tolerant, IInv, ConvInv, FailuresShow, SharedCached, PlanSetWrite
    PROVE  \E a \in Op : PlansWell(a, "queued") /\ Suits(a, "queued")
<1> DEFINE c == cur.item
           sn == Remote(c)
           p == FindPriorValue(sn, cur.lang, cur.version)
           a == Action("set", 0, p, {})
<1>1. /\ pc = "plan" /\ cur.kind = "set" /\ sn # None /\ adopted' = adopted /\ ToPool(a)
  BY DEF PlanSetWrite, Planning, Unresolved
<1>2. /\ cur \in Request /\ c \in Items /\ cur.lang \in Langs /\ cur.version \in Versions
      /\ c \notin Prunees /\ trigger = "none"
      /\ cur.lang = Shared => c \in Seeded
  BY <1>1, InHand
<1>3. PlansWell(a, "queued")
  BY <1>1, PooledWell
<1>4. a \in Op
  <2>1. sn \in Snapshot
    BY <1>1, <1>2, RemoteType DEF IInv
  <2>2. p \in Values
    <3> HIDE DEF sn
    <3> QED  BY <1>2, <2>1, FindPriorValueType
  <2> HIDE DEF p
  <2> QED  BY <1>2, <2>2, ActionType
<1>5. a.kind = "set" /\ a.stack = Target /\ a.prior = p
  BY DEF Action
<1>6. ASSUME NEW i \in Items, WritesHome(a, i), fatal = 0 PROVE Coming(Home(i), a.prior)
  <2>1. i = c /\ cur.lang = Shared
    BY <1>5, <1>6 DEF WritesHome, Home, Target
  <2>2. sn.shared \in Values /\ sn.shared # None
    BY <1>1, <1>2, RemoteShared, ExecutorAssumption DEF IInv
  <2>3. a.prior = sn.shared
    <3> HIDE DEF a, sn
    <3> QED  BY <1>5, <2>1, <2>2 DEF FindPriorValue
  <2>4. Spared(Home(c))
    <3>1. \A k \in WritesOf(Home(c)) : k \in DOMAIN status
      BY OpFacts DEF IInv, PoolInv, WritesOf
    <3> QED  BY <1>2, <1>6, <3>1 DEF Spared, FailuresShow
  <2>5. c \in Seeded /\ c \notin adopted
    BY <1>2, <2>1 DEF ConvInv
  <2>6. Coming(Home(c), sn.shared)
    BY <1>1, <1>2, <2>4, <2>5, RemoteComing
  <2> QED  BY <2>1, <2>3, <2>6
<1>7. a.stack[1] = c
  BY <1>5 DEF Target
<1> HIDE DEF a
<1>8. Suits(a, "queued")
  BY <1>2, <1>5, <1>6, <1>7 DEF Suits
<1> QED  BY <1>3, <1>4, <1>8

LEMMA AddSuits ==
    ASSUME IInv, ConvInv, PlanAdd
    PROVE  \E a \in Op : PlansWell(a, "queued") /\ Suits(a, "queued")
<1> DEFINE d == cur.version - CurrentMax
           a == Action("add", d, Blank, {})
<1>1. /\ pc = "plan" /\ cur.kind = "add" /\ CurrentMax < cur.version
      /\ adopted' = adopted /\ ToPool(a)
  BY DEF PlanAdd, Planning
<1>2. /\ cur \in Request /\ cur.item \notin Prunees /\ cur.version \in Nat /\ Target \in Stacks
  BY <1>1, InHand, ConstantFacts DEF Target, Stacks
<1>3. CurrentMax \in Nat
  BY <1>2 DEF CurrentMax, IInv, CacheTypeOK, PoolInv, ResultsInv
<1>4. a \in Op
  <2>1. d \in Nat
    BY <1>1, <1>2, <1>3
  <2> HIDE DEF d
  <2> QED  BY <1>2, <2>1, ConstantFacts, ActionType
<1>5. a.kind = "add" /\ a.stack[1] = cur.item
  BY DEF Action, Target
<1>6. PlansWell(a, "queued")
  BY <1>1, PooledWell
<1> HIDE DEF a
<1>7. Suits(a, "queued")
  BY <1>2, <1>5 DEF Suits, WritesHome
<1> QED  BY <1>4, <1>6, <1>7

LEMMA CreateSuits ==
    ASSUME IInv, ConvInv, PlanCreateUpdate \/ PlanCreate
    PROVE  \E a \in Op : PlansWell(a, "queued") /\ Suits(a, "queued")
<1>1. /\ pc = "plan" /\ cur.kind = "create" /\ adopted' = adopted
  BY DEF PlanCreateUpdate, PlanCreate, Planning, cacheVars
<1>2. /\ cur \in Request /\ cur.item \in Items /\ cur.item \notin Prunees
      /\ Planned(cur.item) = {} /\ Target = Home(cur.item) /\ Target \in Stacks
  BY <1>1, InHand, ConstantFacts DEF Target, Stacks, Home
<1>3. CASE PlanCreateUpdate
  <2> DEFINE p == cell[Target][1]
             a == Action("set", 0, p, {})
  <2>1. ToPool(a)
    BY <1>3 DEF PlanCreateUpdate
  <2>2. p \in Values
    BY <1>2, ConstantFacts DEF IInv, PoolInv, ResultsInv
  <2>3. PlansWell(a, "queued")
    BY <1>1, <2>1, PooledWell
  <2>4. a \in Op
    <3> HIDE DEF p
    <3> QED  BY <1>2, <2>2, ActionType
  <2>5. a.kind = "set" /\ a.stack = Home(cur.item) /\ a.prior = cell[Home(cur.item)][1]
    BY <1>2 DEF Action
  <2>6. WritesOf(Home(cur.item)) = {}
    BY <1>2 DEF Planned, WritesOf, Home
  <2>7. Coming(Home(cur.item), a.prior)
    BY <2>5, <2>6 DEF Coming, Awaited
  <2> HIDE DEF a
  <2>8. \A i \in Items : WritesHome(a, i) => i = cur.item
    BY <2>5 DEF WritesHome, Home
  <2>9. a.stack[1] = cur.item
    BY <2>5 DEF Home
  <2>10. Suits(a, "queued")
    BY <1>2, <2>5, <2>7, <2>8, <2>9 DEF Suits
  <2> QED  BY <2>3, <2>4, <2>10
<1>4. CASE PlanCreate
  <2> DEFINE a == Action("create", 0, Blank, {})
  <2>1. ToDispatch(a)
    BY <1>4 DEF PlanCreate
  <2>2. PlansWell(a, "queued")
    BY <1>1, <2>1, PooledWell
  <2>3. a \in Op
    BY <1>2, ConstantFacts, ActionType
  <2>4. a.kind = "create" /\ a.stack[1] = cur.item
    BY DEF Action, Target
  <2> HIDE DEF a
  <2>5. Suits(a, "queued")
    BY <1>2, <2>4 DEF Suits, WritesHome
  <2> QED  BY <2>2, <2>3, <2>5
<1> QED  BY <1>3, <1>4

LEMMA PruneSuits ==
    ASSUME IInv, ConvInv, PlanPrune
    PROVE  \E a \in Op, st \in {"queued", "skip", "noop"} : PlansWell(a, st) /\ Suits(a, st)
<1>1. /\ pc = "plan" /\ cur.kind = "prune" /\ adopted' = adopted
  BY DEF PlanPrune, Planning, cacheVars
<1>2. cur \in Request
  BY <1>1, InHand
<1>3. CASE NoMutation("prune", "noop")
  BY <1>1, <1>3, NotesSuit
<1>4. CASE ToDispatch(Action("prune", 0, Blank, Prunable))
  <2> DEFINE a == Action("prune", 0, Blank, Prunable)
  <2>1. PlansWell(a, "queued")
    BY <1>1, <1>4, PooledWell
  <2>2. Prunable \in SUBSET Items /\ Prunable \subseteq Prunees \cap present
    BY DEF Prunable, Prunees, IInv, PoolInv, ResultsInv
  <2>3. a \in Op
    <3> HIDE DEF Prunable
    <3> QED  BY <1>2, <2>2, ConstantFacts, ActionType
  <2>4. a.kind = "prune" /\ a.items = Prunable
    BY DEF Action
  <2> HIDE DEF a
  <2>5. Suits(a, "queued")
    BY <2>2, <2>4 DEF Suits, WritesHome
  <2> QED  BY <2>1, <2>3, <2>5
<1> QED  BY <1>3, <1>4 DEF PlanPrune

LEMMA PlanSuits ==
    ASSUME ~Tolerant, IInv, ConvInv, FailuresShow, SharedCached, Plan, ~PlanError
    PROVE  \E a \in Op, st \in {"queued", "skip", "noop"} : PlansWell(a, st) /\ Suits(a, st)
<1>1. CASE \E k \in {"set", "add"} : PlanUnresolved(k)
  <2>1. PICK k \in {"set", "add"} : PlanUnresolved(k)
    BY <1>1
  <2>2. pc = "plan" /\ cur.kind = k /\ NoMutation(k, "skip") /\ adopted' = adopted
    BY <2>1 DEF PlanUnresolved, Planning, cacheVars
  <2> QED  BY <2>2, NotesSuit
<1>2. CASE PlanSetInSync \/ PlanSetWithheld \/ PlanAddPresent
  <2>1. /\ pc = "plan" /\ adopted' = adopted
        /\ \E k \in {"set", "add"}, st \in {"noop", "skip"} :
              cur.kind = k /\ NoMutation(k, st)
    BY <1>2 DEF PlanSetInSync, PlanSetWithheld, PlanAddPresent, Planning
  <2> QED  BY <2>1, NotesSuit
<1>3. CASE PlanCreateSkip \/ PlanCreateUnresolved
  <2>1. /\ pc = "plan" /\ adopted' = adopted /\ cur.kind = "create"
        /\ NoMutation("create", "skip")
    BY <1>3 DEF PlanCreateSkip, PlanCreateUnresolved, Planning, cacheVars
  <2> QED  BY <2>1, NotesSuit
<1>4. CASE PlanSetWrite
  BY <1>4, WriteSuits
<1>5. CASE PlanAdd
  BY <1>5, AddSuits
<1>6. CASE PlanCreateUpdate \/ PlanCreate
  BY <1>6, CreateSuits
<1>7. CASE PlanPrune
  BY <1>7, PruneSuits
<1> QED  BY <1>1, <1>2, <1>3, <1>4, <1>5, <1>6, <1>7 DEF Plan

------------------------------------------------------------------------------
(* The items: what is missing is to be restored, what is new to be deleted. *)

(* The unwind can still put everything back.                               *)
Restorable == trigger # "plan-error" /\ residue = {}

UndoesPrune(k, i) == ToUndo(k) /\ ops[k].kind = "prune" /\ i \in ops[k].items
UndoesCreate(k, i) == ToUndo(k) /\ ops[k].kind = "create" /\ ops[k].stack[1] = i

(* What is missing is yet to be restored, and what is new to be deleted.   *)
GoneComeBack ==
    \A i \in Existing \ (adopted \cup HalfPruned) :
        i \in present \/ \E k \in DOMAIN ops : UndoesPrune(k, i)

NewOnesGo ==
    \A i \in present \ Existing : \E k \in DOMAIN ops : UndoesCreate(k, i)

OpsSuit ==
    \A k \in DOMAIN ops :
        IF ops[k].kind = "prune" THEN ops[k].items \subseteq Existing
        ELSE ops[k].stack[1] \notin Prunees

AdoptionsNoted ==
    \A p \in DOMAIN applied :
        ops[applied[p]].kind = "create" /\ ops[applied[p]].stack[1] \in Existing
            => ops[applied[p]].stack[1] \in adopted

ItemsInv ==
    /\ trigger = "none" => residue = {} /\ Existing \ Prunees \subseteq present
    /\ pc = "done" /\ trigger # "none" => cursor = 0
    /\ SharedCached /\ OpsSuit /\ AdoptionsNoted
    /\ Restorable => GoneComeBack /\ NewOnesGo

-----------------------------------------------------------------------------
LEMMA ItemsInit == Init => ItemsInv
<1> SUFFICES ASSUME Init PROVE ItemsInv
  OBVIOUS
<1>1. /\ ops = <<>> /\ applied = <<>> /\ pc = "loop" /\ present = Existing /\ residue = {}
      /\ snap = [i \in Items |-> None] /\ trigger = "none"
  BY DEF Init, PoolInit
<1>2. SharedCached
  BY <1>1 DEF SharedCached
<1>3. OpsSuit /\ AdoptionsNoted
  BY <1>1 DEF OpsSuit, AdoptionsNoted
<1>4. GoneComeBack /\ NewOnesGo
  BY <1>1 DEF GoneComeBack, NewOnesGo
<1> QED  BY <1>1, <1>2, <1>3, <1>4 DEF ItemsInv

(* Nothing that matters to the items changes.                              *)
LEMMA StandsKeepsItems ==
    ASSUME ItemsInv, SharedCached',
           UNCHANGED <<ops, status, applied, present, adopted, residue, trigger, cursor>>,
           pc' = "done" /\ trigger # "none" => cursor = 0
    PROVE  ItemsInv'
<1>1. OpsSuit' /\ AdoptionsNoted'
  BY DEF ItemsInv, OpsSuit, AdoptionsNoted
<1>2. \A k, i : /\ UndoesPrune(k, i)' <=> UndoesPrune(k, i)
                /\ UndoesCreate(k, i)' <=> UndoesCreate(k, i)
  BY DEF UndoesPrune, UndoesCreate, ToUndo
<1>3. HalfPruned' = HalfPruned
  BY DEF HalfPruned
<1>4. GoneComeBack => GoneComeBack'
  BY <1>2, <1>3 DEF GoneComeBack
<1>5. NewOnesGo => NewOnesGo'
  BY <1>2 DEF NewOnesGo
<1> QED  BY <1>1, <1>4, <1>5 DEF ItemsInv, Restorable

(* A step forward, or the step that ends the way forward.                  *)
LEMMA ForwardKeepsItems ==
    ASSUME ItemsInv, SharedCached', trigger = "none", residue' = residue, pc' # "done",
           \A k \in DOMAIN ops : k \in DOMAIN ops' /\ ops'[k] = ops[k]
                                 /\ (status[k] = "error" => status'[k] = "error"),
           \A k \in DOMAIN ops' \ DOMAIN ops :
              IF ops'[k].kind = "prune" THEN ops'[k].items \subseteq Existing
              ELSE ops'[k].stack[1] \notin Prunees,
           adopted \subseteq adopted',
           \A k : ToUndo(k) => ToUndo(k)',
           \A p \in DOMAIN applied' :
              (p \in DOMAIN applied /\ applied'[p] = applied[p] /\ applied[p] \in DOMAIN ops)
              \/ (ops'[applied'[p]].kind = "create" /\ ops'[applied'[p]].stack[1] \in Existing
                     => ops'[applied'[p]].stack[1] \in adopted'),
           trigger' = "none" => Existing \ Prunees \subseteq present',
           \A i \in Existing \ (adopted' \cup HalfPruned') :
              i \in present /\ i \notin present' => \E k \in DOMAIN ops' : UndoesPrune(k, i)',
           \A i \in present' \ Existing :
              i \in present \/ \E k \in DOMAIN ops' : UndoesCreate(k, i)'
    PROVE  ItemsInv'
<1>1. OpsSuit'
  BY DEF ItemsInv, OpsSuit
<1>2. AdoptionsNoted'
  BY DEF ItemsInv, AdoptionsNoted
<1>3. residue = {} /\ GoneComeBack /\ NewOnesGo
  BY DEF ItemsInv, Restorable
<1>4. \A k \in DOMAIN ops : \A i : /\ UndoesPrune(k, i) => UndoesPrune(k, i)'
                                   /\ UndoesCreate(k, i) => UndoesCreate(k, i)'
  BY DEF UndoesPrune, UndoesCreate
<1>5. HalfPruned \subseteq HalfPruned'
  BY DEF HalfPruned
<1>6. GoneComeBack'
  <2> SUFFICES ASSUME NEW i \in Existing, i \notin adopted', i \notin HalfPruned', i \notin present'
               PROVE  \E k \in DOMAIN ops' : UndoesPrune(k, i)'
    BY DEF GoneComeBack
  <2>1. CASE i \in present
    BY <2>1
  <2>2. CASE i \notin present
    <3>1. PICK k \in DOMAIN ops : UndoesPrune(k, i)
      BY <1>3, <1>5, <2>2 DEF GoneComeBack
    <3> QED  BY <1>4, <3>1
  <2> QED  BY <2>1, <2>2
<1>7. NewOnesGo'
  <2> SUFFICES ASSUME NEW i \in present', i \notin Existing
               PROVE  \E k \in DOMAIN ops' : UndoesCreate(k, i)'
    BY DEF NewOnesGo
  <2>1. CASE i \in present
    <3>1. PICK k \in DOMAIN ops : UndoesCreate(k, i)
      BY <1>3, <2>1 DEF NewOnesGo
    <3> QED  BY <1>4, <3>1
  <2>2. CASE i \notin present
    BY <2>2
  <2> QED  BY <2>1, <2>2
<1> QED  BY <1>1, <1>2, <1>3, <1>6, <1>7 DEF ItemsInv

LEMMA UndoStarts ==
    ASSUME PoolInv, trigger = "none", applied' = applied,
           trigger' = "none" \/ cursor' = Len(applied)
    PROVE  \A k : ToUndo(k)' <=> ToUndo(k)
<1>1. \A p \in DOMAIN applied : p <= Len(applied)
  BY DEF PoolInv, ResultsInv
<1> QED  BY <1>1 DEF ToUndo

LEMMA TurningKeepsItems ==
    ASSUME IInv, EndInv, ConvInv, ItemsInv, SharedCached',
           \/ \E r \in Request : NextOp(r)
           \/ Cancel \/ EndOfIr \/ PlanError \/ Drain \/ RollbackEnds
    PROVE  ItemsInv'
<1>1. UNCHANGED <<ops, status, applied, present, adopted, residue>>
  BY DEF NextOp, Cancel, EndOfIr, PlanError, Drain, DrainedFatal, DrainedCancelled, DrainedEnd,
     RollbackEnds, StartRollback, vars, tenant, poolVars, cacheVars
<1>2. CASE (\E r \in Request : NextOp(r)) \/ Cancel \/ EndOfIr \/ DrainedEnd \/ RollbackEnds
  <2>1. UNCHANGED <<trigger, cursor>>
    BY <1>2 DEF NextOp, Cancel, EndOfIr, DrainedEnd, RollbackEnds
  <2>2. pc' = "done" /\ trigger # "none" => cursor = 0
    BY <1>2 DEF NextOp, Cancel, EndOfIr, DrainedEnd, RollbackEnds, ConvInv, Running
  <2> QED  BY <1>1, <2>1, <2>2, StandsKeepsItems
<1>3. CASE PlanError \/ DrainedFatal \/ DrainedCancelled
  <2>1. pc' = "rollback" /\ cursor' = Len(applied) /\ trigger' # "none"
        /\ pc \notin {"rollback", "done"}
    BY <1>3 DEF PlanError, DrainedFatal, DrainedCancelled, StartRollback
  <2>2. trigger = "none"
    BY <2>1 DEF ConvInv, Running
  <2>3. \A k : ToUndo(k)' <=> ToUndo(k)
    BY <1>1, <2>1, <2>2, UndoStarts DEF IInv
  <2>4. \A p \in DOMAIN applied : applied[p] \in DOMAIN ops
    BY DEF IInv, PoolInv, ResultsInv, ResultsKnown
  <2> QED  BY <1>1, <2>1, <2>2, <2>3, <2>4, ForwardKeepsItems
<1> QED  BY <1>2, <1>3 DEF Drain

LEMMA PlanKeepsItems ==
    ASSUME IInv, ConvInv, ItemsInv, SharedCached', pc = "plan", pc' # "done",
           NEW a \in Op, NEW st \in {"queued", "skip", "noop"}, PlansWell(a, st), Suits(a, st)
    PROVE  ItemsInv'
<1> DEFINE n == Len(ops) + 1
<1>1. /\ ops'[n] = a /\ n \notin DOMAIN ops /\ DOMAIN ops' = DOMAIN ops \cup {n}
      /\ \A k \in DOMAIN ops : ops'[k] = ops[k] /\ status'[k] = status[k]
  <2>1. st \in Status
    BY DEF Status
  <2> QED  BY <2>1, RecordedFacts DEF PlansWell, Record, IInv, PoolInv
<1>2. trigger = "none"
  BY DEF ConvInv, Running
<1>3. UNCHANGED <<applied, trigger, present, residue, adopted>>
  BY DEF PlansWell, tenant
<1>4. \A k : ToUndo(k)' <=> ToUndo(k)
  BY <1>2, <1>3, UndoStarts DEF IInv
<1>5. \A p \in DOMAIN applied : applied[p] \in DOMAIN ops
  BY DEF IInv, PoolInv, ResultsInv, ResultsKnown
<1>6. IF a.kind = "prune" THEN a.items \subseteq Existing ELSE a.stack[1] \notin Prunees
  <2>1. \A i \in present \cap Prunees : i \in Existing
    <3> SUFFICES ASSUME NEW i \in present, i \in Prunees, i \notin Existing PROVE FALSE
      OBVIOUS
    <3>1. PICK k \in DOMAIN ops : UndoesCreate(k, i)
      BY <1>2 DEF ItemsInv, Restorable, NewOnesGo
    <3>2. ops[k].kind = "create" /\ ops[k].stack[1] = i
      BY <3>1 DEF UndoesCreate
    <3> QED  BY <3>2 DEF ItemsInv, OpsSuit
  <2> QED  BY <2>1 DEF Suits
<1>7. Existing \ Prunees \subseteq present
  BY <1>2 DEF ItemsInv
<1> HIDE DEF n
<1>8. \A k \in DOMAIN ops' \ DOMAIN ops :
              IF ops'[k].kind = "prune" THEN ops'[k].items \subseteq Existing
              ELSE ops'[k].stack[1] \notin Prunees
  BY <1>1, <1>6
<1> QED  BY <1>1, <1>2, <1>3, <1>4, <1>5, <1>7, <1>8, ForwardKeepsItems

------------------------------------------------------------------------------
(* The calls and the inverses, seen from the items.                        *)

(* The pool neither makes nor deletes items.                               *)
LEMMA PoolRunsKeepsItems ==
    ASSUME IInv, EndInv, ConvInv, ItemsInv, SharedCached', PoolRuns
    PROVE  ItemsInv'
<1>1. PICK s \in Stacks : PoolStep(s)
  BY DEF PoolRuns
<1>2. UNCHANGED <<present, pc, trigger, cursor, residue, adopted>>
  BY <1>1, PoolKeepsItems DEF PoolRuns, execVars, loopVars, cacheVars
<1>3. PICK D : ops' = ops /\ Settles(s, D) /\ Lists(D)
  BY <1>1, PoolStepSettles DEF IInv, EndInv, QueueInv
<1>4. \A k \in D : status[k] = "queued" /\ ops[k].kind # "create"
  BY <1>3, SettledFacts DEF IInv, EndInv, QueueInv
<1>5. applied \in Seq(Nat \ {0}) /\ (\A p \in DOMAIN applied : applied[p] \in DOMAIN ops)
      /\ DOMAIN status = DOMAIN ops
  BY DEF IInv, PoolInv, ResultsInv, ResultsKnown
<1>6. \A k \in DOMAIN ops : status[k] = "error" => status'[k] = "error"
  <2> SUFFICES ASSUME NEW k \in DOMAIN ops, status[k] = "error" PROVE status'[k] = "error"
    OBVIOUS
  <2>1. k \notin D
    BY <1>4
  <2> QED  BY <1>3, <1>5, <2>1 DEF Settles
<1>7. /\ \A p \in DOMAIN applied : p \in DOMAIN applied' /\ applied'[p] = applied[p]
      /\ \A p \in DOMAIN applied' : p \in DOMAIN applied \/ applied'[p] \in D
  <2>1. CASE applied' = applied
    BY <2>1
  <2>2. CASE applied' # applied
    <3>1. PICK e \in Seq(Nat \ {0}) : applied' = applied \o e /\ \A j \in DOMAIN e : e[j] \in D
      BY <1>3, <2>2 DEF Lists
    <3>2. \A p \in DOMAIN applied : p \in DOMAIN applied' /\ applied'[p] = applied[p]
      BY <1>5, <3>1
    <3>3. ASSUME NEW p \in DOMAIN applied', p \notin DOMAIN applied PROVE applied'[p] \in D
      <4>1. p - Len(applied) \in DOMAIN e /\ applied'[p] = e[p - Len(applied)]
        BY <1>5, <3>1, <3>3
      <4> QED  BY <3>1, <4>1
    <3> QED  BY <3>2, <3>3
  <2> QED  BY <2>1, <2>2
<1>8. \A p \in DOMAIN applied' :
              (p \in DOMAIN applied /\ applied'[p] = applied[p] /\ applied[p] \in DOMAIN ops)
              \/ ops[applied'[p]].kind # "create"
  BY <1>4, <1>5, <1>7
<1>9. CASE trigger = "none"
  <2>1. pc # "done"
    <3> SUFFICES ASSUME pc = "done" PROVE FALSE
      OBVIOUS
    <3>1. Drained
      BY <1>9 DEF IInv, DrainedBeforeRollback
    <3> QED  BY <1>1, <3>1, DrainedIsStill DEF IInv
  <2>2. \A k : ToUndo(k) => ToUndo(k)'
    BY <1>2, <1>7, <1>9 DEF ToUndo
  <2>3. Existing \ Prunees \subseteq present
    BY <1>9 DEF ItemsInv
  <2> QED  BY <1>2, <1>3, <1>5, <1>6, <1>8, <1>9, <2>1, <2>2, <2>3, ForwardKeepsItems
<1>10. CASE trigger # "none"
  <2>1. pc \in {"rollback", "done"}
    BY <1>10 DEF ConvInv, Running
  <2>2. trigger = "plan-error"
    <3> SUFFICES ASSUME trigger # "plan-error" PROVE FALSE
      OBVIOUS
    <3>1. Drained
      BY <2>1 DEF IInv, DrainedBeforeRollback
    <3> QED  BY <1>1, <3>1, DrainedIsStill DEF IInv
  <2>3. OpsSuit' /\ ~Restorable'
    BY <1>2, <1>3, <2>2 DEF ItemsInv, OpsSuit, Restorable
  <2>4. AdoptionsNoted'
    BY <1>2, <1>3, <1>8 DEF ItemsInv, AdoptionsNoted
  <2> QED  BY <1>2, <1>10, <2>3, <2>4 DEF ItemsInv
<1> QED  BY <1>9, <1>10

-----------------------------------------------------------------------------
(* The answer to the operation the loop sends itself.                      *)
LEMMA AnsweredKeepsItems ==
    ASSUME IInv, EndInv, ConvInv, ItemsInv, SharedCached',
           pc = "dispatch", Drained, fatal = 0, ops' = ops,
           Dispatched \/ \E r : DispatchFailed(r) /\ (ops[Latest].kind = "prune" => r # "missing"),
           adopted \subseteq adopted',
           Dispatched /\ ops[Latest].kind = "create" /\ ops[Latest].stack[1] \in Existing
               => ops[Latest].stack[1] \in adopted',
           Existing \ Prunees \subseteq present',
           \A i \in Existing : i \in present /\ i \notin present'
               => ops[Latest].kind = "prune" /\ i \in ops[Latest].items,
           \A i \in present' \ Existing : i \in present \/
               (Dispatched /\ ops[Latest].kind = "create" /\ ops[Latest].stack[1] = i)
    PROVE  ItemsInv'
<1>0. PICK n : n = Latest
  OBVIOUS
<1>1. trigger = "none"
  BY DEF ConvInv, Running
<1>2. n \in DOMAIN ops /\ n \in DOMAIN status /\ status[n] = "queued"
      /\ status \in Seq(Status) /\ DOMAIN status = DOMAIN ops
      /\ applied \in Seq(Nat \ {0}) /\ (\A p \in DOMAIN applied : applied[p] \in DOMAIN ops)
  BY <1>0, OwnCallAlone DEF IInv, PoolInv, ResultsInv, ResultsKnown
<1>3. residue' = residue /\ pc' # "done" /\ (trigger' = "none" \/ cursor' = Len(applied))
  BY <1>1 DEF Dispatched, DispatchFailed, StartRollback
<1>4. ASSUME Dispatched
      PROVE  /\ ToUndo(n)' /\ (\A k : ToUndo(k) => ToUndo(k)')
             /\ \A k \in DOMAIN ops : status[k] = "error" => status'[k] = "error"
             /\ \A p \in DOMAIN applied' :
                  \/ p \in DOMAIN applied /\ applied'[p] = applied[p] /\ applied[p] \in DOMAIN ops
                  \/ applied'[p] = n
  <2>1. applied' = Append(applied, n) /\ status' = [status EXCEPT ![n] = "applied"]
        /\ trigger' = "none"
    BY <1>0, <1>1, <1>4 DEF Dispatched
  <2>2. n \in Nat \ {0}
    BY <1>2, OpFacts DEF IInv, PoolInv
  <2>3. /\ \A p \in DOMAIN applied : p \in DOMAIN applied' /\ applied'[p] = applied[p]
        /\ Len(applied) + 1 \in DOMAIN applied' /\ applied'[Len(applied) + 1] = n
        /\ \A p \in DOMAIN applied' : p \in DOMAIN applied \/ applied'[p] = n
    BY <1>2, <2>1, <2>2
  <2>4. ToUndo(n)' /\ \A k : ToUndo(k) => ToUndo(k)'
    BY <1>1, <2>1, <2>3 DEF ToUndo
  <2>5. \A k \in DOMAIN ops : status[k] = "error" => status'[k] = "error"
    BY <1>2, <2>1
  <2> QED  BY <1>2, <2>3, <2>4, <2>5
<1>5. \A k \in DOMAIN ops' \ DOMAIN ops : FALSE
  OBVIOUS
<1>6. CASE Dispatched
  <2>1. \A i : /\ ops[n].kind = "prune" /\ i \in ops[n].items => UndoesPrune(n, i)'
               /\ ops[n].kind = "create" /\ ops[n].stack[1] = i => UndoesCreate(n, i)'
    BY <1>4, <1>6 DEF UndoesPrune, UndoesCreate
  <2>2. /\ \A k \in DOMAIN ops : k \in DOMAIN ops' /\ ops'[k] = ops[k]
                                 /\ (status[k] = "error" => status'[k] = "error")
        /\ \A k : ToUndo(k) => ToUndo(k)'
        /\ \A p \in DOMAIN applied' :
              (p \in DOMAIN applied /\ applied'[p] = applied[p] /\ applied[p] \in DOMAIN ops)
              \/ (ops'[applied'[p]].kind = "create" /\ ops'[applied'[p]].stack[1] \in Existing
                     => ops'[applied'[p]].stack[1] \in adopted')
    BY <1>0, <1>4, <1>6
  <2>3. /\ \A i \in Existing \ (adopted' \cup HalfPruned') :
              i \in present /\ i \notin present' => \E k \in DOMAIN ops' : UndoesPrune(k, i)'
        /\ \A i \in present' \ Existing :
              i \in present \/ \E k \in DOMAIN ops' : UndoesCreate(k, i)'
    BY <1>0, <1>2, <2>1
  <2> QED  BY <1>1, <1>3, <1>5, <2>2, <2>3, ForwardKeepsItems
<1>7. CASE ~Dispatched
  <2>1. PICK r : DispatchFailed(r) /\ (ops[n].kind = "prune" => r # "missing")
    BY <1>0, <1>7
  <2>2. applied' = applied
        /\ status' = [status EXCEPT ![n] = IF Skippable(n, r) THEN "skip" ELSE "error"]
    BY <1>0, <2>1 DEF DispatchFailed
  <2>3. \A k : ToUndo(k)' <=> ToUndo(k)
    BY <1>1, <1>3, <2>2, UndoStarts DEF IInv
  <2>4. \A k \in DOMAIN ops : status[k] = "error" => status'[k] = "error"
    BY <1>2, <2>2
  <2>5. ops[n].kind = "prune" => ops[n].items \subseteq HalfPruned'
    <3> SUFFICES ASSUME ops[n].kind = "prune" PROVE ops[n].items \subseteq HalfPruned'
      OBVIOUS
    <3>1. status'[n] = "error"
      BY <1>2, <2>1, <2>2 DEF Skippable
    <3> QED  BY <1>2, <3>1 DEF HalfPruned
  <2>6. /\ \A i \in Existing \ (adopted' \cup HalfPruned') :
              i \in present /\ i \notin present' => \E k \in DOMAIN ops' : UndoesPrune(k, i)'
        /\ \A i \in present' \ Existing :
              i \in present \/ \E k \in DOMAIN ops' : UndoesCreate(k, i)'
    BY <1>0, <1>7, <2>5
  <2>7. \A p \in DOMAIN applied' :
              p \in DOMAIN applied /\ applied'[p] = applied[p] /\ applied[p] \in DOMAIN ops
    BY <1>2, <2>2
  <2> QED  BY <1>1, <1>3, <1>5, <2>3, <2>4, <2>6, <2>7, ForwardKeepsItems
<1> QED  BY <1>6, <1>7

LEMMA DispatchKeepsItems ==
    ASSUME IInv, EndInv, ConvInv, ItemsInv, SharedCached', "lost" \notin Responses,
           DispatchSet \/ DispatchAdd \/ DispatchCreate \/ DispatchPrune
    PROVE  ItemsInv'
<1>1. pc = "dispatch" /\ Drained /\ fatal = 0 /\ ops' = ops
  BY DEF DispatchSet, DispatchAdd, DispatchCreate, DispatchPrune, Dispatching
<1>2. Existing \ Prunees \subseteq present /\ Latest \in DOMAIN ops
  BY <1>1, LatestOp DEF ItemsInv, ConvInv, Running
<1>3. CASE DispatchSet \/ DispatchAdd
  <2>1. ops[Latest].kind \in {"set", "add"} /\ present' = present /\ adopted' = adopted
    BY <1>3 DEF DispatchSet, DispatchAdd, Dispatching, Write, cacheVars
  <2>2. Dispatched \/ \E r : DispatchFailed(r)
    BY <1>3 DEF DispatchSet, DispatchAdd
  <2> QED  BY <1>1, <1>2, <2>1, <2>2, AnsweredKeepsItems
<1>4. CASE DispatchCreate
  <2> DEFINE i == ops[Latest].stack[1]
  <2>1. ops[Latest].kind = "create"
    BY <1>4 DEF DispatchCreate, Dispatching
  <2>2. i \notin Prunees
    BY <1>2, <2>1 DEF ItemsInv, OpsSuit
  <2>3. i \in Existing => i \in present
    BY <1>2, <2>2
  <2>4. PICK r \in Responses :
          /\ IF Landed(r) /\ i \notin present THEN Fresh(i, ops[Latest].value)
             ELSE UNCHANGED tenant
          /\ IF r = "ok"
             THEN /\ Dispatched
                  /\ adopted' = IF i \in present THEN adopted \cup {i} ELSE adopted
             ELSE DispatchFailed(r) /\ UNCHANGED cacheVars
    BY <1>4 DEF DispatchCreate
  <2> HIDE DEF i
  <2>5. Landed(r) <=> r = "ok"
    BY DEF Landed
  <2>6. present' = present \/ (Dispatched /\ present' = present \cup {i})
    BY <2>4, <2>5 DEF Fresh, tenant
  <2>7. adopted \subseteq adopted' /\ (Dispatched \/ DispatchFailed(r))
    BY <2>4 DEF cacheVars
  <2>8. Dispatched /\ i \in Existing => i \in adopted'
    <3> SUFFICES ASSUME Dispatched, i \in Existing PROVE i \in adopted'
      OBVIOUS
    <3>1. applied' # applied
      <4>1. applied \in Seq(Nat \ {0})
        BY DEF IInv, PoolInv, ResultsInv
      <4>2. applied' = Append(applied, Latest)
        BY DEF Dispatched
      <4>3. Len(applied') # Len(applied)
        BY <4>1, <4>2
      <4> QED  BY <4>3
    <3>2. r = "ok"
      BY <2>4, <3>1 DEF DispatchFailed
    <3> QED  BY <2>3, <2>4, <3>2
  <2> QED  BY <1>1, <1>2, <2>1, <2>6, <2>7, <2>8, AnsweredKeepsItems DEF i
<1>5. CASE DispatchPrune
  <2>1. ops[Latest].kind = "prune" /\ adopted' = adopted
    BY <1>5 DEF DispatchPrune, Dispatching
  <2>2. ops[Latest].items \subseteq Prunees
    BY <1>2, <2>1 DEF ConvInv, PruneItems
  <2>3. present' \subseteq present /\ present \ ops[Latest].items \subseteq present'
    BY <1>5 DEF DispatchPrune
  <2>4. Dispatched \/ DispatchFailed("fail")
    BY <1>5 DEF DispatchPrune
  <2> QED  BY <1>1, <1>2, <2>1, <2>2, <2>3, <2>4, AnsweredKeepsItems
<1> QED  BY <1>3, <1>4, <1>5

-----------------------------------------------------------------------------
(* One step of the unwind.                                                 *)
LEMMA UndoneFacts ==
    ASSUME IInv, EndInv, pc = "rollback", cursor > 0, NEW ok, Undone(ok)
    PROVE  /\ trigger # "none" /\ cursor \in DOMAIN applied /\ applied[cursor] \in DOMAIN ops
           /\ ToUndo(applied[cursor])
           /\ \A k : ToUndo(k)' <=> ToUndo(k) /\ k # applied[cursor]
           /\ Restorable' => ok /\ Restorable
<1>1. trigger # "none" /\ trigger' = trigger /\ applied' = applied /\ cursor' = cursor - 1
      /\ residue' = IF ok THEN residue ELSE residue \cup {applied[cursor]}
  BY DEF EndInv, Undone, poolVars
<1>2. cursor \in DOMAIN applied /\ applied[cursor] \in DOMAIN ops /\ cursor \in Nat
  BY DEF IInv, AtHand, LoopTypeOK, PoolInv, ResultsInv, ResultsKnown
<1>3. \A j, k \in DOMAIN applied : applied[j] = applied[k] => j = k
  BY DEF EndInv, QueueInv, AppliedOnce
<1>4. \A p \in DOMAIN applied : p \in Nat /\ (p <= cursor - 1 <=> p <= cursor /\ p # cursor)
  BY <1>2 DEF IInv, PoolInv, ResultsInv
<1>5. \A k : ToUndo(k)' <=> ToUndo(k) /\ k # applied[cursor]
  BY <1>1, <1>2, <1>3, <1>4 DEF ToUndo
<1>6. ToUndo(applied[cursor])
  BY <1>2 DEF ToUndo
<1> QED  BY <1>1, <1>2, <1>5, <1>6 DEF Restorable

LEMMA UndoKeepsItems ==
    ASSUME IInv, EndInv, ItemsInv, SharedCached', "lost" \notin Responses,
           UndoSet \/ UndoCreate \/ UndoAdd \/ UndoPrune
    PROVE  ItemsInv'
<1> DEFINE m == applied[cursor]
<1>1. PICK ok \in BOOLEAN :
         /\ pc = "rollback" /\ cursor > 0 /\ Undone(ok)
         /\ \/ ops[m].kind \in {"set", "add"} /\ present' = present
            \/ ops[m].kind = "create" /\ (ok => present' = present \ {ops[m].stack[1]})
            \/ ops[m].kind = "prune" /\ (ok => present' = present \cup ops[m].items)
  <2>1. CASE UndoSet
    BY <2>1 DEF UndoSet, Undoing
  <2>2. CASE UndoAdd
    BY <2>2 DEF UndoAdd, Undoing, tenant
  <2>3. CASE UndoCreate
    BY <2>3 DEF UndoCreate, Undoing, Landed
  <2>4. CASE UndoPrune
    BY <2>4 DEF UndoPrune, Undoing
  <2> QED  BY <2>1, <2>2, <2>3, <2>4
<1>2. /\ trigger # "none" /\ cursor \in DOMAIN applied /\ m \in DOMAIN ops /\ ToUndo(m)
      /\ \A k : ToUndo(k)' <=> ToUndo(k) /\ k # m
      /\ Restorable' => ok /\ Restorable
  BY <1>1, UndoneFacts
<1>3. UNCHANGED <<ops, status, applied, adopted, trigger, pc>>
  BY <1>1 DEF Undone, poolVars, cacheVars
<1>4. OpsSuit' /\ AdoptionsNoted'
  BY <1>3 DEF ItemsInv, OpsSuit, AdoptionsNoted
<1>5. HalfPruned' = HalfPruned
  BY <1>3 DEF HalfPruned
<1>6. /\ ops[m].kind = "prune" => ops[m].items \subseteq Existing
      /\ ops[m].kind = "create" /\ ops[m].stack[1] \in Existing => ops[m].stack[1] \in adopted
  BY <1>2 DEF ItemsInv, OpsSuit, AdoptionsNoted
<1>7. ASSUME NEW k, NEW i
      PROVE  /\ UndoesPrune(k, i) => UndoesPrune(k, i)' \/ (k = m /\ ops[m].kind = "prune")
             /\ UndoesCreate(k, i) => UndoesCreate(k, i)' \/ (k = m /\ ops[m].kind = "create")
  BY <1>2, <1>3 DEF UndoesPrune, UndoesCreate
<1> HIDE DEF m
<1>8. ASSUME Restorable' PROVE GoneComeBack' /\ NewOnesGo'
  <2>1. ok /\ GoneComeBack /\ NewOnesGo
    BY <1>2, <1>8 DEF ItemsInv
  <2>2. ASSUME NEW i \in Existing, i \notin adopted, i \notin HalfPruned
        PROVE  i \in present' \/ \E k \in DOMAIN ops : UndoesPrune(k, i)'
    <3>1. CASE i \in present
      BY <1>1, <1>6, <2>1, <2>2, <3>1
    <3>2. CASE i \notin present
      <4>1. PICK k \in DOMAIN ops : UndoesPrune(k, i)
        BY <2>1, <2>2, <3>2 DEF GoneComeBack
      <4>2. CASE k = m /\ ops[m].kind = "prune"
        <5>1. i \in ops[m].items
          BY <4>1, <4>2 DEF UndoesPrune
        <5> QED  BY <1>1, <2>1, <4>2, <5>1
      <4> QED  BY <1>7, <4>1, <4>2
    <3> QED  BY <3>1, <3>2
  <2>3. ASSUME NEW i \in present', i \notin Existing
        PROVE  \E k \in DOMAIN ops : UndoesCreate(k, i)'
    <3>1. i \in present
      BY <1>1, <1>6, <2>1, <2>3
    <3>2. PICK k \in DOMAIN ops : UndoesCreate(k, i)
      BY <2>1, <2>3, <3>1 DEF NewOnesGo
    <3>3. CASE k = m /\ ops[m].kind = "create"
      <4>1. i = ops[m].stack[1]
        BY <3>2, <3>3 DEF UndoesCreate
      <4> QED  BY <1>1, <2>1, <2>3, <3>3, <4>1
    <3> QED  BY <1>7, <3>2, <3>3
  <2> QED  BY <1>3, <1>5, <2>2, <2>3 DEF GoneComeBack, NewOnesGo
<1> QED  BY <1>1, <1>2, <1>3, <1>4, <1>8 DEF ItemsInv

LEMMA ItemsStep ==
    ASSUME ~Tolerant, "lost" \notin Responses,
           IInv, EndInv, ConvInv, FailuresShow, ItemsInv, [Next]_allVars
    PROVE  ItemsInv'
<1>1. SharedCached'
  BY SharedCachedStep DEF ItemsInv
<1>2. CASE UNCHANGED allVars
  BY <1>1, <1>2, StandsKeepsItems DEF allVars, vars, tenant, poolVars, execVars, loopVars,
     cacheVars, ItemsInv
<1>3. CASE (\E r \in Request : NextOp(r)) \/ Cancel \/ EndOfIr \/ PlanError \/ Drain \/ RollbackEnds
  BY <1>1, <1>3, TurningKeepsItems
<1>4. CASE Plan /\ ~PlanError
  <2>1. pc = "plan" /\ pc' # "done"
    <3>1. pc = "plan"
      BY <1>4, PlanRecords
    <3>2. pc' # "done"
      BY <1>4 DEF Plan, PlanUnresolved, PlanSetInSync, PlanSetWithheld, PlanSetWrite,
         PlanAddPresent, PlanAdd, PlanCreateSkip, PlanCreateUpdate, PlanCreateUnresolved,
         PlanCreate, PlanPrune, NoMutation, ToPool, ToDispatch
    <3> QED  BY <3>1, <3>2
  <2>2. PICK a \in Op, st \in {"queued", "skip", "noop"} : PlansWell(a, st) /\ Suits(a, st)
    BY <1>4, PlanSuits DEF ItemsInv
  <2> QED  BY <1>1, <2>1, <2>2, PlanKeepsItems
<1>5. CASE DispatchSet \/ DispatchAdd \/ DispatchCreate \/ DispatchPrune
  BY <1>1, <1>5, DispatchKeepsItems
<1>6. CASE UndoSet \/ UndoCreate \/ UndoAdd \/ UndoPrune
  BY <1>1, <1>6, UndoKeepsItems
<1>7. CASE PoolRuns
  BY <1>1, <1>7, PoolRunsKeepsItems
<1> QED  BY <1>2, <1>3, <1>4, <1>5, <1>6, <1>7 DEF Next, LoopStep, Undo

------------------------------------------------------------------------------
(* The shared fields: every one unwinds to the value the push found.       *)

(* Every shared field can be put back as the push found it.                *)
FieldsInv == Restorable => \A i \in Existing : Unwinds(Home(i))

LEMMA FieldsInit == Init => FieldsInv
<1> SUFFICES ASSUME Init, NEW i \in Existing PROVE Unwinds(Home(i))
  BY DEF FieldsInv
<1>1. ops = <<>> /\ applied = <<>>
      /\ cell = [s \in Stacks |-> [v \in Versions |-> StartCell(s[1], s[2], v)]]
  BY DEF Init, PoolInit
<1>2. WritesOf(Home(i)) = {}
  BY <1>1 DEF WritesOf
<1>3. Made(Home(i)) = {} /\ Due(Home(i)) = {} /\ Line(Home(i)) = {}
  BY <1>2 DEF Made, Due, Awaited, Line
<1>4. cell[Home(i)][1] = Start[Shared]
  BY <1>1, ConstantFacts, ExecutorAssumption DEF StartCell, Home, Stacks
<1> QED  BY <1>2, <1>3, <1>4 DEF Unwinds, LineFollows, FieldHolds, MadeFirst, ListedInOrder

-----------------------------------------------------------------------------
LEMMA StillUnwinds ==
    ASSUME UNCHANGED <<ops, status, applied, trigger, cursor, fatal, chain, at, step>>,
           NEW s, cell'[s][1] = cell[s][1], Unwinds(s)
    PROVE  Unwinds(s)'
<1>1. WritesOf(s)' = WritesOf(s) /\ Awaited(s)' = Awaited(s)
  BY DEF WritesOf, Awaited
<1>2. \A k : (ToUndo(k)' <=> ToUndo(k)) /\ (AtHead(s, k)' <=> AtHead(s, k))
  BY DEF ToUndo, AtHead, Pends
<1>3. Made(s)' = Made(s) /\ Due(s)' = Due(s)
  BY <1>1, <1>2 DEF Made, Due
<1>4. Line(s)' = Line(s)
  BY <1>3 DEF Line
<1>5. LineFollows(s)'
  BY <1>4 DEF Unwinds, LineFollows, Follows
<1>6. FieldHolds(s)' /\ MadeFirst(s)' /\ ListedInOrder(s)'
  BY <1>1, <1>3 DEF Unwinds, FieldHolds, MadeFirst, ListedInOrder
<1> QED  BY <1>5, <1>6 DEF Unwinds

LEMMA BeginsUnwind ==
    ASSUME PoolInv, UNCHANGED <<ops, applied>>, trigger = "none", trigger' # "none",
           cursor' = Len(applied), NEW s, cell'[s][1] = cell[s][1], Unwinds(s)
    PROVE  Unwinds(s)'
<1>1. Made(s)' = Made(s)
  <2>1. \A k : ToUndo(k)' <=> ToUndo(k)
    BY UndoStarts
  <2> QED  BY <2>1 DEF Made, WritesOf
<1>2. Due(s)' = {}
  BY DEF Due
<1>3. Advances(s, {})
  BY <1>1, <1>2 DEF Advances
<1>4. ListedInOrder(s)'
  BY DEF Unwinds, ListedInOrder, WritesOf
<1>5. LineFollows(s)' /\ FieldHolds(s)' /\ MadeFirst(s)'
  BY <1>3, AdvanceKeeps DEF Unwinds
<1> QED  BY <1>4, <1>5 DEF Unwinds

-----------------------------------------------------------------------------
(* The loop's own call, seen from a field.                                 *)
LEMMA AnsweredElsewhere ==
    ASSUME IInv, EndInv, HomeWrites, pc = "dispatch", Drained, fatal = 0, StacksStill,
           trigger = "none", Dispatched \/ \E r : DispatchFailed(r),
           NEW i \in Items, Unwinds(Home(i)), Latest \notin WritesOf(Home(i)),
           cell'[Home(i)][1] = cell[Home(i)][1]
    PROVE  Unwinds(Home(i))'
<1> DEFINE s == Home(i)
<1>1. ops' = ops /\ fatal' = 0
  BY DEF StacksStill
<1>2. CASE trigger' # "none"
  <2>1. applied' = applied /\ cursor' = Len(applied)
    BY <1>2 DEF Dispatched, DispatchFailed, StartRollback
  <2> QED  BY <1>1, <1>2, <2>1, BeginsUnwind DEF IInv
<1>3. CASE trigger' = "none"
  <2>0. PICK n : n = Latest
    OBVIOUS
  <2>1. /\ n \in DOMAIN status /\ n \in Nat \ {0} /\ n \notin WritesOf(s)
        /\ status \in Seq(Status) /\ applied \in Seq(Nat \ {0})
        /\ \A k \in WritesOf(s) : k \in DOMAIN status
    BY <2>0, OwnCallAlone, OpFacts DEF IInv, PoolInv, ResultsInv, WritesOf
  <2>2. \A k \in WritesOf(s) : status'[k] = status[k]
    BY <2>0, <2>1 DEF Dispatched, DispatchFailed
  <2>3. Lists({n})
    <3>1. CASE Dispatched
      <4>1. applied' = Append(applied, n) /\ status'[n] = "applied"
        BY <2>0, <2>1, <3>1 DEF Dispatched
      <4> DEFINE f == <<n>>
      <4>2. f \in Seq(Nat \ {0}) /\ DOMAIN f = {1} /\ f[1] = n
        BY <2>1
      <4>3. applied' = applied \o f
        <5>1. applied \in Seq(Nat \ {0}) /\ n \in Nat \ {0}
          BY <2>1
        <5> QED  BY <4>1, <5>1
      <4> HIDE DEF f
      <4> QED  BY <4>1, <4>2, <4>3 DEF Lists
    <3>2. CASE \E r : DispatchFailed(r)
      BY <2>0, <2>1, <3>2 DEF Lists, DispatchFailed
    <3> QED  BY <3>1, <3>2
  <2>4. ListedInOrder(s) /\ {n} \cap WritesOf(s) = {}
    BY <2>1 DEF Unwinds
  <2>5. Made(s)' = Made(s) /\ ListedInOrder(s)'
    BY <1>1, <1>3, <2>3, <2>4, MadeStays DEF IInv
  <2>6. Advances(s, {})
    BY <1>1, <1>3, <2>2, <2>5, StandsStill
  <2>7. LineFollows(s)' /\ FieldHolds(s)' /\ MadeFirst(s)'
    BY <1>1, <2>6, AdvanceKeeps DEF Unwinds, IInv
  <2> QED  BY <2>5, <2>7 DEF Unwinds
<1> QED  BY <1>2, <1>3

LEMMA AnsweredAtHome ==
    ASSUME IInv, EndInv, HomeWrites, pc = "dispatch", Drained, fatal = 0, StacksStill,
           trigger = "none", Dispatched,
           NEW i \in Items, Unwinds(Home(i)), NEW n, n = Latest, n \in WritesOf(Home(i)),
           cell'[Home(i)][1] = ops[n].value
    PROVE  Unwinds(Home(i))'
<1> DEFINE s == Home(i)
<1>1. ops' = ops /\ fatal' = 0 /\ trigger' = "none" /\ WritesOf(s)' = WritesOf(s)
  BY DEF StacksStill, Dispatched, WritesOf
<1>2. /\ n \in DOMAIN status /\ n \in Nat \ {0} /\ status[n] = "queued"
      /\ (\A k \in DOMAIN ops : status[k] = "queued" => k = n)
      /\ status \in Seq(Status) /\ applied \in Seq(Nat \ {0}) /\ DOMAIN status = DOMAIN ops
  <2>1. /\ Latest \in DOMAIN ops /\ status[Latest] = "queued"
        /\ \A k \in DOMAIN ops : status[k] = "queued" => k = Latest
    BY OwnCallAlone
  <2>2. /\ status \in Seq(Status) /\ applied \in Seq(Nat \ {0})
        /\ DOMAIN status = DOMAIN ops /\ DOMAIN ops \subseteq Nat \ {0}
    <3>1. /\ ResultsInv /\ status \in Seq(Status) /\ applied \in Seq(Nat \ {0})
          /\ ops \in Seq(Op) /\ Len(status) = Len(ops)
      BY DEF IInv, PoolInv, ResultsInv, ResultsKnown
    <3>2. DOMAIN ops \subseteq Nat \ {0}
      BY <3>1, OpFacts
    <3>3. DOMAIN status = DOMAIN ops
      BY <3>1
    <3> QED  BY <3>1, <3>2, <3>3
  <2> QED  BY <2>1, <2>2
<1>3. Due(s) = {n}
  <2>1. n \in WritesOf(s) /\ WritesOf(s) \subseteq DOMAIN ops
    BY DEF WritesOf
  <2>2. Awaited(s) = {n}
    BY <1>2, <2>1 DEF Awaited
  <2> HIDE DEF s
  <2> QED  BY <2>2 DEF Due
<1>4. applied' = Append(applied, n) /\ status' = [status EXCEPT ![n] = "applied"]
  BY DEF Dispatched
<1>5. Due(s)' = {}
  <2>1. \A k \in WritesOf(s) : status'[k] # "queued"
    BY <1>2, <1>4 DEF WritesOf
  <2> QED  BY <1>1, <2>1 DEF Due, Awaited
<1>6. Made(s)' = Made(s) \cup {n} /\ ListedInOrder(s)'
  <2> DEFINE f == <<n>>
  <2>1. f \in Seq(Nat \ {0}) /\ DOMAIN f = {1} /\ f[1] = n /\ applied' = applied \o f
    BY <1>2, <1>4
  <2> HIDE DEF f
  <2>2. \A j \in DOMAIN f : f[j] \in WritesOf(s) => \A k \in Made(s) : k < f[j]
    BY <1>3, <2>1 DEF Unwinds, MadeFirst
  <2>3. \A j, l \in DOMAIN f : ~(j < l)
    BY <2>1
  <2>4. PoolInv /\ ListedInOrder(s)
    BY DEF IInv, Unwinds
  <2> HIDE DEF s
  <2>5. /\ Made(s)' = Made(s) \cup {k \in WritesOf(s) : \E j \in DOMAIN f : f[j] = k}
        /\ ListedInOrder(s)'
    BY <1>1, <2>1, <2>2, <2>3, <2>4, MadeGrows
  <2>6. {k \in WritesOf(s) : \E j \in DOMAIN f : f[j] = k} = {n}
    BY <2>1 DEF s
  <2> QED  BY <2>5, <2>6
<1>7. Advances(s, {n})
  BY <1>3, <1>5, <1>6 DEF Advances
<1>8. LineFollows(s)' /\ FieldHolds(s)' /\ MadeFirst(s)'
  BY <1>1, <1>7, AdvanceKeeps DEF Unwinds, IInv
<1> QED  BY <1>6, <1>8 DEF Unwinds

LEMMA SetUnwinds ==
    ASSUME ~Tolerant, "lost" \notin Responses, IInv, EndInv, ConvInv, DispatchSet,
           NEW i \in Existing, Unwinds(Home(i))
    PROVE  Unwinds(Home(i))'
<1> DEFINE s == Home(i)
<1>0. PICK n : n = Latest
  OBVIOUS
<1>1. /\ pc = "dispatch" /\ Drained /\ fatal = 0 /\ ops[n].kind = "set" /\ StacksStill
  BY <1>0 DEF DispatchSet, Dispatching, StacksStill
<1>2. trigger = "none" /\ HomeWrites /\ i \in Items /\ n \in DOMAIN ops
  BY <1>0, <1>1, LatestOp, ExecutorAssumption DEF ConvInv, Running
<1>3. PICK r \in Answers(ops[n].stack, ops[n].version) :
          /\ Write(ops[n].stack, ops[n].version, n, r)
          /\ IF r = "ok" THEN Dispatched ELSE DispatchFailed(r)
  BY <1>0 DEF DispatchSet
<1>4. s \in Stacks /\ ops[n].stack \in Stacks
  BY <1>2, ConstantFacts, OpFacts DEF Home, Stacks, IInv, PoolInv, Op
<1>5. CASE n \notin WritesOf(s)
  <2>1. ops[n].stack # s
    BY <1>1, <1>2, <1>5 DEF WritesOf
  <2>2. cell'[s] = cell[s]
    BY <1>3, <1>4, <2>1 DEF Write, IInv, PoolInv, ResultsInv
  <2> QED  BY <1>0, <1>1, <1>2, <1>3, <1>5, <2>2, AnsweredElsewhere
<1>6. CASE n \in WritesOf(s) /\ r = "ok"
  <2>1. ops[n].stack = s /\ ops[n].version = 1
    BY <1>2, <1>6 DEF WritesOf, HomeWrites
  <2>2. cell'[s][1] = ops[n].value
    BY <1>2, <1>3, <1>6, <2>1, OkAtHome DEF IInv
  <2> QED  BY <1>0, <1>1, <1>2, <1>3, <1>6, <2>2, AnsweredAtHome
<1>7. CASE n \in WritesOf(s) /\ r # "ok"
  <2>1. ops[n].stack[2] \in Primary
    BY <1>7, ExecutorAssumption DEF WritesOf, Home
  <2>2. trigger' # "none" /\ cursor' = Len(applied) /\ applied' = applied
    BY <1>0, <1>3, <1>7, <2>1 DEF DispatchFailed, StartRollback, Skippable
  <2>3. cell' = cell
    BY <1>3, <1>7, NothingLost DEF Write
  <2>4. ops' = ops
    BY <1>1 DEF StacksStill
  <2> QED  BY <1>2, <2>2, <2>3, <2>4, BeginsUnwind DEF IInv
<1> QED  BY <1>5, <1>6, <1>7

LEMMA OtherDispatchUnwinds ==
    ASSUME IInv, EndInv, ConvInv, ItemsInv,
           DispatchAdd \/ DispatchCreate \/ DispatchPrune,
           NEW i \in Existing, Unwinds(Home(i))
    PROVE  Unwinds(Home(i))'
<1> DEFINE s == Home(i)
<1>1. /\ pc = "dispatch" /\ Drained /\ fatal = 0 /\ ops[Latest].kind # "set" /\ StacksStill
      /\ Dispatched \/ \E r : DispatchFailed(r)
  BY DEF DispatchAdd, DispatchCreate, DispatchPrune, Dispatching, StacksStill
<1>2. trigger = "none" /\ HomeWrites /\ i \in Items /\ Latest \in DOMAIN ops
  BY <1>1, LatestOp, ExecutorAssumption DEF ConvInv, Running
<1>3. Latest \notin WritesOf(s)
  BY <1>1 DEF WritesOf
<1>4. cell'[s] = cell[s]
  <2>1. CASE DispatchAdd \/ DispatchPrune
    BY <2>1 DEF DispatchAdd, DispatchPrune
  <2>2. CASE DispatchCreate
    <3> DEFINE c == ops[Latest].stack[1]
    <3>1. cell' = cell \/ (c \notin present /\ Fresh(c, ops[Latest].value))
      BY <2>2 DEF DispatchCreate, tenant
    <3>2. c \notin present => c # i
      <4>1. ops[Latest].kind = "create"
        BY <2>2 DEF DispatchCreate, Dispatching
      <4>2. c \notin Prunees
        BY <1>2, <4>1 DEF ItemsInv, OpsSuit
      <4> QED  BY <1>2, <4>2 DEF ItemsInv
    <3>3. s \in Stacks /\ s[1] = i
      BY <1>2, ConstantFacts DEF Home, Stacks
    <3> HIDE DEF c
    <3> QED  BY <3>1, <3>2, <3>3 DEF Fresh
  <2> QED  BY <2>1, <2>2
<1> QED  BY <1>1, <1>2, <1>3, <1>4, AnsweredElsewhere

-----------------------------------------------------------------------------
(* One step of the unwind, seen from a field.                              *)
LEMMA UndoUnwinds ==
    ASSUME IInv, EndInv, ConvInv, Restorable', "lost" \notin Responses,
           UndoSet \/ UndoCreate \/ UndoAdd \/ UndoPrune,
           NEW i \in Existing, Unwinds(Home(i))
    PROVE  Unwinds(Home(i))'
<1> DEFINE s == Home(i)
<1>0. PICK m : m = applied[cursor]
  OBVIOUS
<1>1. PICK ok \in BOOLEAN :
         /\ pc = "rollback" /\ cursor > 0 /\ Undone(ok)
         /\ \/ ops[m].kind # "set" /\ cell' = cell
            \/ /\ ops[m].kind = "set"
               /\ ok => cell' = [cell EXCEPT ![ops[m].stack] =
                             [cell[ops[m].stack] EXCEPT ![ops[m].version] = ops[m].prior]]
  <2>1. CASE UndoSet
    BY <1>0, <2>1 DEF UndoSet, Undoing, Landed
  <2>2. CASE UndoAdd
    BY <1>0, <2>2 DEF UndoAdd, Undoing, tenant
  <2>3. CASE UndoCreate
    BY <1>0, <2>3 DEF UndoCreate, Undoing
  <2>4. CASE UndoPrune
    BY <1>0, <2>4 DEF UndoPrune, Undoing
  <2> QED  BY <2>1, <2>2, <2>3, <2>4
<1>2. /\ trigger # "none" /\ cursor \in DOMAIN applied /\ m \in DOMAIN ops /\ ToUndo(m) /\ ok
      /\ \A k : ToUndo(k)' <=> ToUndo(k) /\ k # m
  BY <1>0, <1>1, UndoneFacts
<1>3. UNCHANGED <<ops, status, applied, trigger, fatal, chain, at, step>>
  BY <1>1 DEF Undone, poolVars
<1>4. HomeWrites /\ i \in Items /\ s \in Stacks
  BY ConstantFacts, ExecutorAssumption DEF ConvInv, Home, Stacks
<1>5. Due(s) = {} /\ Due(s)' = {} /\ WritesOf(s)' = WritesOf(s)
  BY <1>2, <1>3 DEF Due, WritesOf
<1>6. Made(s)' = Made(s) \ {m}
  BY <1>2, <1>5 DEF Made
<1>7. ListedInOrder(s)'
  BY <1>3, <1>5 DEF Unwinds, ListedInOrder
<1>8. cell \in [Stacks -> [Versions -> Values]] /\ 1 \in Versions
  BY ConstantFacts DEF IInv, PoolInv, ResultsInv
<1>9. CASE m \in WritesOf(s)
  <2>1. m \in Made(s) /\ ops[m].stack = s /\ ops[m].version = 1 /\ ops[m].kind = "set"
    BY <1>2, <1>4, <1>9 DEF Made, WritesOf, HomeWrites
  <2>2. \A k \in Made(s) : k <= m
    <3> SUFFICES ASSUME NEW k \in Made(s) PROVE k <= m
      OBVIOUS
    <3>1. k \in WritesOf(s) /\ k \in Nat /\ m \in Nat
      BY <2>1, WritesNumbered DEF IInv
    <3>2. PICK p \in DOMAIN applied : applied[p] = k /\ p <= cursor
      BY <1>2 DEF Made, ToUndo
    <3>3. p = cursor \/ p < cursor
      BY <1>2, <3>2 DEF IInv, PoolInv, ResultsInv
    <3>4. p < cursor => k < m
      BY <1>0, <1>2, <1>9, <3>1, <3>2 DEF Unwinds, ListedInOrder
    <3> QED  BY <1>0, <3>1, <3>2, <3>3, <3>4
  <2>3. cell'[s][1] = ops[m].prior
    BY <1>1, <1>2, <1>4, <1>8, <2>1
  <2>4. LineFollows(s)' /\ FieldHolds(s)' /\ MadeFirst(s)'
    <3>1. PoolInv /\ LineFollows(s) /\ FieldHolds(s) /\ MadeFirst(s) /\ ops' = ops
      BY <1>3 DEF IInv, Unwinds
    <3> HIDE DEF s
    <3> QED  BY <1>5, <1>6, <2>1, <2>2, <2>3, <3>1, TakeBackKeeps
  <2> QED  BY <1>7, <2>4 DEF Unwinds
<1>10. CASE m \notin WritesOf(s)
  <2>1. ops[m].kind = "set" => ops[m].stack # s
    BY <1>2, <1>10 DEF WritesOf
  <2>2. cell'[s] = cell[s]
    <3>1. ops[m].stack \in Stacks
      BY <1>2, OpFacts DEF IInv, PoolInv, Op
    <3> QED  BY <1>1, <1>2, <1>4, <1>8, <2>1, <3>1
  <2>3. Made(s)' = Made(s)
    BY <1>6, <1>10 DEF Made
  <2>4. Advances(s, {})
    BY <1>5, <2>2, <2>3 DEF Advances
  <2>5. LineFollows(s)' /\ FieldHolds(s)' /\ MadeFirst(s)'
    BY <1>3, <2>4, AdvanceKeeps DEF Unwinds, IInv
  <2> QED  BY <1>7, <2>5 DEF Unwinds
<1> QED  BY <1>9, <1>10

------------------------------------------------------------------------------
(* Every step, and what an aborted push leaves.                            *)

LEMMA FieldsStep ==
    ASSUME ~Tolerant, "lost" \notin Responses,
           IInv, EndInv, ConvInv, FailuresShow, ItemsInv, FieldsInv, [Next]_allVars
    PROVE  FieldsInv'
<1> SUFFICES ASSUME Restorable', NEW i \in Existing PROVE Unwinds(Home(i))'
  BY DEF FieldsInv
<1>0. i \in Items /\ Home(i) \in Stacks
  BY ConstantFacts, ExecutorAssumption DEF Home, Stacks
<1>1. CASE \/ UNCHANGED allVars
           \/ (\E r \in Request : NextOp(r))
           \/ Cancel \/ EndOfIr \/ DrainedEnd \/ RollbackEnds
  <2>1. UNCHANGED <<vars, trigger, cursor, residue>>
    BY <1>1 DEF allVars, execVars, loopVars, NextOp, Cancel, EndOfIr, DrainedEnd, RollbackEnds
  <2>2. UNCHANGED <<ops, status, applied, trigger, cursor, fatal, chain, at, step, cell, residue>>
    BY <2>1 DEF vars, tenant, poolVars
  <2>3. Unwinds(Home(i))
    BY <2>2 DEF FieldsInv, Restorable
  <2> QED  BY <2>2, <2>3, StillUnwinds
<1>2. CASE PlanError
  BY <1>2 DEF PlanError, StartRollback, Restorable
<1>3. CASE DrainedFatal \/ DrainedCancelled
  <2>1. /\ pc \notin {"rollback", "done"} /\ trigger' # "none" /\ cursor' = Len(applied)
        /\ UNCHANGED <<ops, applied, cell, residue>>
    BY <1>3 DEF DrainedFatal, DrainedCancelled, StartRollback, vars, tenant, poolVars
  <2>2. trigger = "none"
    BY <2>1 DEF ConvInv, Running
  <2>3. Unwinds(Home(i))
    BY <2>1, <2>2 DEF FieldsInv, Restorable
  <2> QED  BY <2>1, <2>2, <2>3, BeginsUnwind DEF IInv
<1>4. CASE Plan /\ ~PlanError
  <2>1. PICK a \in Op, st \in {"queued", "skip", "noop"} : PlansWell(a, st) /\ Suits(a, st)
    BY <1>4, PlanSuits DEF ItemsInv
  <2>2. trigger = "none"
    <3>1. pc = "plan"
      BY <1>4, PlanRecords
    <3> QED  BY <3>1 DEF ConvInv, Running
  <2>3. /\ Record(a, st) /\ UNCHANGED <<tenant, trigger, cursor, fatal, applied, residue>>
        /\ fatal # 0 => UNCHANGED <<chain, at, step>>
    BY <2>1 DEF PlansWell
  <2>4. Unwinds(Home(i))
    BY <2>3 DEF FieldsInv, Restorable
  <2>5. WritesHome(a, i) /\ st = "queued" /\ fatal = 0 => Coming(Home(i), a.prior)
    BY <1>0, <2>1 DEF Suits
  <2>6. PoolInv
    BY DEF IInv
  <2> QED  BY <1>0, <2>2, <2>3, <2>4, <2>5, <2>6, RecordedUnwinds
<1>5. CASE DispatchSet \/ DispatchAdd \/ DispatchCreate \/ DispatchPrune
  <2>1. pc = "dispatch" /\ residue' = residue
    BY <1>5 DEF DispatchSet, DispatchAdd, DispatchCreate, DispatchPrune, Dispatching,
       Dispatched, DispatchFailed, StartRollback
  <2>2. trigger = "none"
    BY <2>1 DEF ConvInv, Running
  <2>3. Unwinds(Home(i))
    BY <2>1, <2>2 DEF FieldsInv, Restorable
  <2> QED  BY <1>5, <2>3, SetUnwinds, OtherDispatchUnwinds
<1>6. CASE UndoSet \/ UndoCreate \/ UndoAdd \/ UndoPrune
  <2>1. PICK ok \in BOOLEAN : pc = "rollback" /\ cursor > 0 /\ Undone(ok)
    BY <1>6 DEF UndoSet, UndoCreate, UndoAdd, UndoPrune, Undoing
  <2>2. Restorable
    BY <2>1, UndoneFacts
  <2>3. Unwinds(Home(i))
    BY <2>2 DEF FieldsInv
  <2> QED  BY <1>6, <2>3, UndoUnwinds
<1>7. CASE PoolRuns
  <2>1. PICK s \in Stacks : PoolStep(s)
    BY <1>7 DEF PoolRuns
  <2>2. UNCHANGED <<pc, trigger, cursor, residue>> /\ ops' = ops
    <3>1. ops' = ops
      BY <2>1, PoolStepSettles DEF IInv, EndInv, QueueInv
    <3> QED  BY <1>7, <3>1 DEF PoolRuns, execVars, loopVars
  <2>3. trigger = "none"
    <3>1. trigger # "plan-error"
      BY <2>2 DEF Restorable
    <3>2. ~Drained
      BY <2>1, DrainedIsStill DEF IInv
    <3> QED  BY <3>1, <3>2 DEF ConvInv, Running, IInv, DrainedBeforeRollback
  <2>4. Unwinds(Home(i))
    BY <2>2 DEF FieldsInv, Restorable
  <2>5. PICK W : Advances(Home(i), W) /\ ListedInOrder(Home(i))'
    BY <1>0, <2>1, <2>2, <2>3, <2>4, PoolAdvances DEF Unwinds, ConvInv
  <2>6. LineFollows(Home(i))' /\ FieldHolds(Home(i))' /\ MadeFirst(Home(i))'
    BY <2>2, <2>4, <2>5, AdvanceKeeps DEF Unwinds, IInv
  <2> QED  BY <2>5, <2>6 DEF Unwinds
<1> QED  BY <1>1, <1>2, <1>3, <1>4, <1>5, <1>6, <1>7 DEF Next, LoopStep, Drain, Undo

-----------------------------------------------------------------------------
LEMMA InvRollbackRestores ==
    ASSUME IInv, ItemsInv, FieldsInv
    PROVE  RollbackRestores
<1> SUFFICES ASSUME Aborted, trigger # "plan-error",
                    NEW i \in Items, i \notin adopted, i \notin HalfPruned
             PROVE  Intact(i)
  BY DEF RollbackRestores
<1>1. Restorable /\ pc = "done" /\ trigger # "none" /\ cursor = 0
  BY DEF Aborted, Restorable, ItemsInv
<1>2. \A k : ~ToUndo(k)
  <2>1. \A p \in DOMAIN applied : p \in Nat \ {0}
    BY DEF IInv, PoolInv, ResultsInv
  <2> QED  BY <1>1, <2>1 DEF ToUndo
<1>3. i \in Existing => i \in present
  BY <1>1, <1>2 DEF ItemsInv, GoneComeBack, UndoesPrune
<1>4. i \in present => i \in Existing
  BY <1>1, <1>2 DEF ItemsInv, NewOnesGo, UndoesCreate
<1>5. ASSUME i \in Existing PROVE cell[<<i, Shared>>][1] = Start[Shared]
  <2>1. Made(Home(i)) = {}
    BY <1>2 DEF Made
  <2> QED  BY <1>1, <1>5, <2>1 DEF FieldsInv, Unwinds, FieldHolds, Home
<1> QED  BY <1>3, <1>4, <1>5 DEF Intact

(* A strict push that stopped on a failed write or was cancelled, and      *)
(* whose inverses all succeeded, leaves the items and shared fields it     *)
(* found (rollback.ts over what the loop and the pool had recorded in      *)
(* applied), whatever the program, the schedule and the failures, as long  *)
(* as no answer is lost: a write that lands unseen is in no list to undo.  *)
THEOREM RollbackRestoresTenant ==
    ASSUME ~Tolerant, "lost" \notin Responses
    PROVE  Spec => []RollbackRestores
<1>1. Init => FailuresShow
  BY DEF Init, FailuresShow
<1>2. /\ IInv /\ EndInv /\ ConvInv /\ FailuresShow /\ ItemsInv /\ [Next]_allVars => ItemsInv'
  BY ItemsStep
<1>3. /\ IInv /\ EndInv /\ ConvInv /\ FailuresShow /\ ItemsInv /\ FieldsInv /\ [Next]_allVars
             => FieldsInv'
  BY FieldsStep
<1>4. IInv /\ ItemsInv /\ FieldsInv => RollbackRestores
  BY InvRollbackRestores
<1> QED  BY <1>1, <1>2, <1>3, <1>4, ExecutorInit, ExecutorStep, EndInit, EndStep, ConvInit,
            ConvStep, FailuresShowStep, ItemsInit, FieldsInit, PTL DEF Spec

==============================================================================
