--------------------------- MODULE RecipeExecutor ---------------------------
(***************************************************************************)
(* Apply mode of executeIr (src/src/recipe/runtime/execute.ts): the loop   *)
(* that plans each operation just in time, hands field writes and version  *)
(* adds to the WritePool, drains the pool around everything else, and      *)
(* unwinds what it applied, last first, when the push fails or is          *)
(* cancelled (src/src/recipe/rollback/rollback.ts).                        *)
(*                                                                         *)
(* The loop is one thread; its awaits are the points where the pool's      *)
(* steps interleave.  The program is chosen operation by operation.        *)
(*                                                                         *)
(* A snapshot is what RemoteItem holds of an item's two fields, one shared *)
(* and one localized: the generic read returns both without language or    *)
(* version (the localized one in the default language), a pending write    *)
(* adds an entry tagged with its own language and version.                 *)
(***************************************************************************)
EXTENDS WritePool, FiniteSetsExt

CONSTANTS
    Shared,    \* the language of a write without one
    Default,   \* the language a generic read answers in
    Existing,  \* items the tenant holds before the push
    Seeded,    \* items whose id the push knows from the start (prefetch, refs)
    Children,  \* the unmanaged children a prune finds, in listing order
    Start,     \* what an existing item holds, per language
    Pooled,    \* the push has a flush pool (applyConcurrency > 1)
    Adopts,    \* a create may meet an existing item (path-index lag, twins)
    None

ASSUME ExecutorAssumption ==
    /\ Shared \in Primary /\ Default \in Primary /\ Shared # Default
    /\ Existing \subseteq Items /\ Seeded \subseteq Existing
    /\ Children \in Seq(Items)
    /\ Start \in [Langs -> Values] /\ Pooled \in BOOLEAN /\ Adopts \in BOOLEAN /\ None \notin Values

VARIABLES
    pc,        \* where the loop is
    cur,       \* the operation being planned
    trigger,   \* why the push was rolled back
    cursor,    \* rollback: how much of applied is left to undo
    residue,   \* rollback: operations whose inverse failed
    captured,  \* capturedItemIds: items whose id is known
    adopted,   \* adoptedItemRefKeys
    snap,      \* idSnapshotCache
    vcache     \* versionStackCache

loopVars == <<pc, cur, trigger, cursor, residue>>
cacheVars == <<captured, adopted, snap, vcache>>
execVars == <<loopVars, cacheVars>>
allVars == <<vars, execVars>>

Locales == Langs \ {Shared}

Known == Values \cup {None}

Snapshot == [shared : Known, dflt : Known,
             tag : [Locales -> [Versions -> Known]]]

(* undefined is not a RemoteItem.                                          *)
ASSUME SnapshotAssumption == None \notin Snapshot

NoTags == [l \in Locales |-> [v \in Versions |-> None]]

Request == [kind : {"set", "add", "create", "prune"}, item : Items,
            lang : Langs, version : Versions, value : Values]

LoopTypeOK ==
    /\ pc \in {"loop", "plan", "dispatch", "failing", "cancelling", "ending",
               "rollback", "done"}
    /\ cur \in Request \cup {None}
    /\ trigger \in {"none", "apply-error", "plan-error", "cancelled"}
    /\ cursor \in Nat
    /\ residue \subseteq Nat

CacheTypeOK ==
    /\ captured \subseteq Items
    /\ adopted \subseteq Items
    /\ snap \in [Items -> Snapshot \cup {None}]
    /\ vcache \in [Stacks -> Nat \cup {None}]

TypeOK == PoolTypeOK /\ LoopTypeOK /\ CacheTypeOK

(* An existing item has one version in every registered language.          *)
StartTop(i, l) == IF i \in Existing /\ l \notin Unregistered THEN 1 ELSE 0

StartCell(i, l, v) ==
    IF i \in Existing /\ v = 1 THEN Start[l] ELSE Blank

Init ==
    /\ present = Existing
    /\ top = [s \in Stacks |-> StartTop(s[1], s[2])]
    /\ cell = [s \in Stacks |-> [v \in Versions |-> StartCell(s[1], s[2], v)]]
    /\ ops = <<>>
    /\ status = <<>>
    /\ PoolInit
    /\ pc = "loop"
    /\ cur = None
    /\ trigger = "none"
    /\ cursor = 0
    /\ residue = {}
    /\ captured = Seeded
    /\ adopted = {}
    /\ snap = [i \in Items |-> None]
    /\ vcache = [s \in Stacks |-> None]

-----------------------------------------------------------------------------
(* Snapshots.                                                              *)

(* The generic getItem({ itemId }) answer.                                 *)
WireRead(i) ==
    LET en == <<i, Default>> IN
    [shared |-> cell[<<i, Shared>>][1],
     dflt |-> IF top[en] \in Versions THEN cell[en][top[en]] ELSE None,
     tag |-> NoTags]

(* What a create seeds the cache with: the fields it sent.                 *)
Synthetic(x) == [shared |-> x, dflt |-> None, tag |-> NoTags]

Remote(i) == IF snap[i] # None THEN snap[i]
             ELSE IF i \in present THEN WireRead(i) ELSE None

(* lookupField, for drift: an entry without a language matches any.        *)
LookupField(sn, l, v) ==
    IF l = Shared THEN sn.shared
    ELSE IF sn.dflt # None THEN sn.dflt
    ELSE sn.tag[l][v]

(* Mutant: an unset field is restored to no value instead of the blank.    *)
MutantFindPriorValue(sn, l, v) ==
    IF l = Shared THEN sn.shared ELSE sn.tag[l][v]

(* findPriorValue, for the inverse: only an entry of that very cell does.  *)
FindPriorValue(sn, l, v) ==
    LET found == IF l = Shared THEN sn.shared ELSE sn.tag[l][v] IN
    IF found = None THEN Blank ELSE found

(* recordPendingWrite, a field write.                                      *)
WriteThrough(sn, l, v, x) ==
    IF l = Shared THEN [sn EXCEPT !.shared = x]
    ELSE [sn EXCEPT !.tag[l][v] = x]

-----------------------------------------------------------------------------
(* The top of the loop.                                                    *)

Planned(i) == {k \in DOMAIN ops : ops[k].stack[1] = i}

(* Operations a compiled program can hold next: at most one create per     *)
(* item and ahead of its other operations, which write other fields than   *)
(* the create's; versioned writes on the localized field only; prunes last *)
(* among the operations of what they delete.                               *)
Sensible(r) ==
    CASE r.kind = "create" ->
            Planned(r.item) = {} /\ r.item \notin Seeded
            /\ r.lang = Shared /\ r.version = 1
      [] r.kind = "set" ->
            r.lang = Shared => r.version = 1 /\ r.item \in Seeded
      [] r.kind = "add" -> r.lang # Shared /\ r.value = Blank
      [] r.kind = "prune" ->
            /\ Children # <<>> /\ r.item = Head(Children)
            /\ r.lang = Shared /\ r.version = 1 /\ r.value = Blank
      [] OTHER -> FALSE

NotPruned(r) ==
    \A c \in {Children[k] : k \in DOMAIN Children} :
        r.kind # "prune" => r.item # c

(* settleForPlan: the operation is planned once the version adds of its    *)
(* stack have landed; creates and prunes settle nothing.  A fatal failure  *)
(* found here goes straight to the drain.                                  *)
SettledFor(r) ==
    r.kind \in {"set", "add"} /\ r.item \in captured
        => SettledAdds(<<r.item, r.lang>>)

NextOp(r) ==
    /\ pc = "loop"
    /\ Len(ops) < MaxOps
    /\ Sensible(r) /\ NotPruned(r)
    /\ SettledFor(r)
    /\ IF fatal = 0 THEN pc' = "plan" /\ cur' = r
       ELSE pc' = "failing" /\ UNCHANGED cur
    /\ UNCHANGED <<vars, trigger, cursor, residue, cacheVars>>

Cancel ==
    /\ pc = "loop"
    /\ Len(ops) < MaxOps
    /\ pc' = "cancelling"
    /\ UNCHANGED <<vars, cur, trigger, cursor, residue, cacheVars>>

(* Mutant: the result is returned without the final drain.                 *)
MutantEndOfIr ==
    /\ pc = "loop"
    /\ pc' = "done"
    /\ UNCHANGED <<vars, cur, trigger, cursor, residue, cacheVars>>

EndOfIr ==
    /\ pc = "loop"
    /\ pc' = "ending"
    /\ UNCHANGED <<vars, cur, trigger, cursor, residue, cacheVars>>

-----------------------------------------------------------------------------
(* buildAction, and what the loop does with its result.                    *)

Target == <<cur.item, cur.lang>>

Planning(kind) == pc = "plan" /\ cur.kind = kind

Action(kind, count, prior, items) ==
    [kind |-> kind, stack |-> Target, version |-> cur.version, count |-> count,
     value |-> cur.value, prior |-> prior, items |-> items]

Record(a, st) == ops' = Append(ops, a) /\ status' = Append(status, st)

(* A skip (or a withheld conflict): no mutation, on to the next operation. *)
NoMutation(kind, st) ==
    /\ Record(Action(kind, 0, Blank, {}), st)
    /\ pc' = "loop" /\ cur' = None
    /\ UNCHANGED <<tenant, poolVars, trigger, cursor, residue>>

(* applySequential: the mutation waits for the pool to drain.              *)
ToDispatch(a) ==
    /\ Record(a, "queued")
    /\ pc' = "dispatch" /\ cur' = None
    /\ UNCHANGED <<tenant, poolVars, trigger, cursor, residue>>

(* A poolable mutation is enqueued in the same turn as it was planned.     *)
ToPool(a) ==
    IF Pooled
    THEN /\ Record(a, "queued")
         /\ Enqueue(Len(ops) + 1, a)
         /\ pc' = "loop" /\ cur' = None
         /\ UNCHANGED <<tenant, trigger, cursor, residue>>
    ELSE ToDispatch(a)

(* The read that precedes every plan of a captured item.                   *)
CacheRead(i) == snap' = [snap EXCEPT ![i] = Remote(i)]

Unresolved(i) == i \notin captured \/ Remote(i) = None

PlanUnresolved(kind) ==
    /\ Planning(kind)
    /\ Unresolved(cur.item)
    /\ NoMutation(kind, "skip")
    /\ UNCHANGED cacheVars

(* planUpdateOp.  Without drift the write is skipped; with drift the       *)
(* CreateOnly policy or the conflict policy may withhold it.               *)
PlanSetInSync ==
    /\ Planning("set") /\ ~Unresolved(cur.item)
    /\ LookupField(Remote(cur.item), cur.lang, cur.version) = cur.value
    /\ NoMutation("set", "noop")
    /\ CacheRead(cur.item)
    /\ UNCHANGED <<captured, adopted, vcache>>

PlanSetWithheld ==
    /\ Planning("set") /\ ~Unresolved(cur.item)
    /\ LookupField(Remote(cur.item), cur.lang, cur.version) # cur.value
    /\ NoMutation("set", "skip")
    /\ CacheRead(cur.item)
    /\ UNCHANGED <<captured, adopted, vcache>>

(* Mutant: the planned write is not merged into the cached snapshot.       *)
MutantPlanSetWrite ==
    LET sn == Remote(cur.item) IN
    /\ Planning("set") /\ ~Unresolved(cur.item)
    /\ LookupField(sn, cur.lang, cur.version) # cur.value
    /\ ToPool(Action("set", 0, FindPriorValue(sn, cur.lang, cur.version), {}))
    /\ CacheRead(cur.item)
    /\ UNCHANGED <<captured, adopted, vcache>>

PlanSetWrite ==
    LET sn == Remote(cur.item) IN
    /\ Planning("set") /\ ~Unresolved(cur.item)
    /\ LookupField(sn, cur.lang, cur.version) # cur.value
    /\ ToPool(Action("set", 0, FindPriorValue(sn, cur.lang, cur.version), {}))
    /\ snap' = [snap EXCEPT ![cur.item] =
                    WriteThrough(sn, cur.lang, cur.version, cur.value)]
    /\ UNCHANGED <<captured, adopted, vcache>>

(* planAddItemVersion, with readCurrentMaxVersion's cached stacks.         *)
CurrentMax == IF vcache[Target] # None THEN vcache[Target] ELSE top[Target]

PlanAddPresent ==
    /\ Planning("add") /\ ~Unresolved(cur.item)
    /\ CurrentMax >= cur.version
    /\ NoMutation("add", "noop")
    /\ CacheRead(cur.item)
    /\ vcache' = [vcache EXCEPT ![Target] = CurrentMax]
    /\ UNCHANGED <<captured, adopted>>

PlanAdd ==
    /\ Planning("add") /\ ~Unresolved(cur.item)
    /\ CurrentMax < cur.version
    /\ ToPool(Action("add", cur.version - CurrentMax, Blank, {}))
    /\ CacheRead(cur.item)
    /\ vcache' = [vcache EXCEPT ![Target] = cur.version]
    /\ UNCHANGED <<captured, adopted>>

(* planCreateItem.  A live item is captured, and skipped or updated where  *)
(* its fields drifted; the update is a pooled write, and misses the cache  *)
(* because the read went by path.  The create itself is sequential.        *)
PlanCreateSkip ==
    /\ Planning("create") /\ cur.item \in present
    /\ NoMutation("create", "skip")
    /\ captured' = captured \cup {cur.item}
    /\ UNCHANGED <<adopted, snap, vcache>>

PlanCreateUpdate ==
    /\ Planning("create") /\ cur.item \in present
    /\ cell[Target][1] # cur.value
    /\ ToPool(Action("set", 0, cell[Target][1], {}))
    /\ captured' = captured \cup {cur.item}
    /\ UNCHANGED <<adopted, snap, vcache>>

(* Its parent, or the template it is made from, is not captured yet.       *)
PlanCreateUnresolved ==
    /\ Planning("create")
    /\ cur.item \notin present \/ Adopts
    /\ NoMutation("create", "skip")
    /\ UNCHANGED cacheVars

PlanCreate ==
    /\ Planning("create")
    /\ cur.item \notin present \/ Adopts
    /\ ToDispatch(Action("create", 0, Blank, {}))
    /\ UNCHANGED cacheVars

(* planPruneChildren: nothing to delete is a skip.                         *)
Prunable == {Children[k] : k \in DOMAIN Children} \cap present

PlanPrune ==
    /\ Planning("prune")
    /\ IF Prunable = {} THEN NoMutation("prune", "noop")
       ELSE ToDispatch(Action("prune", 0, Blank, Prunable))
    /\ UNCHANGED cacheVars

StartRollback(why) ==
    /\ pc' = "rollback"
    /\ trigger' = why
    /\ cursor' = Len(applied)
    /\ UNCHANGED <<cur, residue>>

(* buildAction throws (a read failed, a reference does not resolve): the   *)
(* rollback starts at once, without draining the pool.                     *)
PlanError ==
    /\ pc = "plan"
    /\ StartRollback("plan-error")
    /\ UNCHANGED <<vars, cacheVars>>

Plan ==
    \/ \E kind \in {"set", "add"} : PlanUnresolved(kind)
    \/ PlanSetInSync \/ PlanSetWithheld \/ PlanSetWrite
    \/ PlanAddPresent \/ PlanAdd
    \/ PlanCreateSkip \/ PlanCreateUpdate
    \/ PlanCreateUnresolved \/ PlanCreate
    \/ PlanPrune
    \/ PlanError

-----------------------------------------------------------------------------
(* applySequential: nothing is in flight while it dispatches.              *)

Latest == Len(ops)

Dispatching(kind) ==
    pc = "dispatch" /\ Drained /\ fatal = 0 /\ ops[Latest].kind = kind

Dispatched ==
    /\ applied' = Append(applied, Latest)
    /\ status' = [status EXCEPT ![Latest] = "applied"]
    /\ pc' = "loop"
    /\ UNCHANGED <<cur, trigger, cursor, residue>>

(* Mutant: the sequential path ignores onError.                            *)
MutantDispatchFailed(r) ==
    /\ status' = [status EXCEPT ![Latest] =
                      IF Skippable(Latest, r) THEN "skip" ELSE "error"]
    /\ UNCHANGED applied
    /\ IF Skippable(Latest, r)
       THEN pc' = "loop" /\ UNCHANGED <<cur, trigger, cursor, residue>>
       ELSE StartRollback("apply-error")

(* dispatchMutation threw, before anything was pushed to applied.          *)
DispatchFailed(r) ==
    /\ status' = [status EXCEPT ![Latest] =
                      IF Skippable(Latest, r) THEN "skip" ELSE "error"]
    /\ UNCHANGED applied
    /\ IF Tolerant \/ Skippable(Latest, r)
       THEN pc' = "loop" /\ UNCHANGED <<cur, trigger, cursor, residue>>
       ELSE StartRollback("apply-error")

(* Without a pool, field writes and version adds are dispatched here too.  *)
DispatchSet ==
    LET o == ops[Latest] IN
    /\ Dispatching("set")
    /\ \E r \in Answers(o.stack, o.version) :
          /\ Write(o.stack, o.version, Latest, r)
          /\ IF r = "ok" THEN Dispatched ELSE DispatchFailed(r)
    /\ UNCHANGED <<ops, chain, at, step, active, waiters, fatal, cacheVars>>

(* One call per missing version; the first failure stops them, and the     *)
(* versions that did land are not taken back.                              *)
DispatchAdd ==
    LET s == ops[Latest].stack
        added(k) == top' = [top EXCEPT ![s] = top[s] + k] IN
    /\ Dispatching("add")
    /\ \/ "ok" \in Answers(s, 0) /\ added(ops[Latest].count) /\ Dispatched
       \/ \E r \in Answers(s, 0) \ {"ok"}, k \in 0 .. ops[Latest].count :
             /\ "ok" \notin Answers(s, 0) => k = 0
             /\ k = ops[Latest].count => r = "lost"
             /\ added(k)
             /\ DispatchFailed(r)
    /\ UNCHANGED <<present, cell, ops, chain, at, step, active, waiters, fatal,
                   cacheVars>>

Fresh(i, x) ==
    /\ present' = present \cup {i}
    /\ top' = [s \in Stacks |-> IF s[1] # i THEN top[s]
                                ELSE IF s[2] \in {Shared, Default} THEN 1 ELSE 0]
    /\ cell' = [s \in Stacks |-> IF s[1] # i THEN cell[s]
                                 ELSE [v \in Versions |->
                                         IF s[2] = Shared THEN x ELSE Blank]]

(* dispatchCreateItem.  An adopted item keeps its fields, but the cache is *)
(* seeded with the ones the create asked for.                              *)
DispatchCreate ==
    LET i == ops[Latest].stack[1] IN
    /\ Dispatching("create")
    /\ \E r \in Responses :
          /\ IF Landed(r) /\ i \notin present THEN Fresh(i, ops[Latest].value)
             ELSE UNCHANGED tenant
          /\ IF r = "ok"
             THEN /\ Dispatched
                  /\ captured' = captured \cup {i}
                  /\ adopted' = IF i \in present THEN adopted \cup {i}
                                ELSE adopted
                  /\ snap' = [snap EXCEPT ![i] = Synthetic(ops[Latest].value)]
                  /\ UNCHANGED vcache
             ELSE DispatchFailed(r) /\ UNCHANGED cacheVars
    /\ UNCHANGED <<ops, chain, at, step, active, waiters, fatal>>

(* pruneChildren: the deletions go out one by one, in listing order, and   *)
(* the first failure stops them.                                           *)
DispatchPrune ==
    LET doomed == ops[Latest].items
        first(k) == {Children[j] : j \in 1 .. k} \cap doomed IN
    /\ Dispatching("prune")
    /\ \/ /\ "ok" \in Responses
          /\ present' = present \ doomed
          /\ Dispatched
          /\ snap' = [i \in Items |-> IF i \in doomed THEN None ELSE snap[i]]
       \/ /\ Responses # {"ok"}
          /\ \E k \in 0 .. Len(Children) :
                /\ first(k) = doomed => "lost" \in Responses
                /\ present' = present \ first(k)
          /\ DispatchFailed("fail")
          /\ UNCHANGED snap
    /\ UNCHANGED <<top, cell, ops, chain, at, step, active, waiters, fatal,
                   captured, adopted, vcache>>

(* drainPool at every await that ends in a decision.                       *)
DrainedFatal ==
    /\ pc \in {"dispatch", "failing", "cancelling", "ending"}
    /\ Drained /\ fatal # 0
    /\ StartRollback("apply-error")
    /\ UNCHANGED <<vars, cacheVars>>

(* Mutant: a cancellation does not wait for the writes in flight.          *)
MutantDrainedCancelled ==
    /\ pc = "cancelling" /\ fatal = 0
    /\ StartRollback("cancelled")
    /\ UNCHANGED <<vars, cacheVars>>

DrainedCancelled ==
    /\ pc = "cancelling" /\ Drained /\ fatal = 0
    /\ StartRollback("cancelled")
    /\ UNCHANGED <<vars, cacheVars>>

DrainedEnd ==
    /\ pc = "ending" /\ Drained /\ fatal = 0
    /\ pc' = "done"
    /\ UNCHANGED <<vars, cur, trigger, cursor, residue, cacheVars>>

-----------------------------------------------------------------------------
(* rollback(): inverseOf of applied[cursor], then the next older one.      *)

Undoing(kind) ==
    pc = "rollback" /\ cursor > 0 /\ ops[applied[cursor]].kind = kind

(* Mutant: the unwind stops one short of the first applied operation.      *)
MutantRollbackEnds ==
    /\ pc = "rollback" /\ cursor \in {0, 1}
    /\ pc' = "done"
    /\ UNCHANGED <<vars, cur, trigger, cursor, residue, cacheVars>>

RollbackEnds ==
    /\ pc = "rollback" /\ cursor = 0
    /\ pc' = "done"
    /\ UNCHANGED <<vars, cur, trigger, cursor, residue, cacheVars>>

Undone(ok) ==
    /\ cursor' = cursor - 1
    /\ residue' = IF ok THEN residue ELSE residue \cup {applied[cursor]}
    /\ UNCHANGED <<pc, cur, trigger, ops, status, poolVars, cacheVars>>

(* Each field goes back to its value in the snapshot.                      *)
UndoSet ==
    LET o == ops[applied[cursor]] IN
    /\ Undoing("set")
    /\ \E r \in Answers(o.stack, o.version) :
          /\ cell' = IF Landed(r)
                     THEN [cell EXCEPT ![o.stack] =
                             [cell[o.stack] EXCEPT ![o.version] = o.prior]]
                     ELSE cell
          /\ Undone(r = "ok")
    /\ UNCHANGED <<present, top>>

(* A created item is deleted; so is one the create only adopted.           *)
UndoCreate ==
    LET i == ops[applied[cursor]].stack[1] IN
    /\ Undoing("create")
    /\ \E r \in Responses :
          /\ present' = IF Landed(r) THEN present \ {i} ELSE present
          /\ Undone(r = "ok")
    /\ UNCHANGED <<top, cell>>

(* Version adds are left in place.                                         *)
UndoAdd ==
    /\ Undoing("add")
    /\ Undone(TRUE)
    /\ UNCHANGED tenant

(* restoreItems recreates the pruned items as far as it can.               *)
UndoPrune ==
    LET gone == ops[applied[cursor]].items IN
    /\ Undoing("prune")
    /\ \/ present' = present \cup gone /\ "ok" \in Responses /\ Undone(TRUE)
       \/ /\ Responses # {"ok"}
          /\ \E back \in SUBSET gone : present' = present \cup back
          /\ Undone(FALSE)
    /\ UNCHANGED <<top, cell>>

-----------------------------------------------------------------------------
Undo == UndoSet \/ UndoCreate \/ UndoAdd \/ UndoPrune \/ RollbackEnds

Drain == DrainedFatal \/ DrainedCancelled \/ DrainedEnd

LoopStep ==
    \/ \E r \in Request : NextOp(r)
    \/ EndOfIr
    \/ Plan
    \/ DispatchSet \/ DispatchAdd \/ DispatchCreate \/ DispatchPrune
    \/ Drain
    \/ Undo

PoolRuns == (\E s \in Stacks : PoolStep(s)) /\ UNCHANGED execVars

Next == LoopStep \/ Cancel \/ PoolRuns

(* The loop's thread runs whenever its await is over, a call is always     *)
(* answered, a ready continuation runs.  Nobody has to cancel.             *)
Fairness ==
    /\ WF_allVars(LoopStep)
    /\ \A s \in Stacks : WF_allVars(PoolStep(s) /\ UNCHANGED execVars)

Spec == Init /\ [][Next]_allVars
FairSpec == Spec /\ Fairness
-----------------------------------------------------------------------------
(* No forward write is in flight while the unwind runs or after it, so     *)
(* nothing lands behind the inverse that should have undone it.  The one   *)
(* exception is a push that failed while planning (see AbortUndoesAll).    *)
DrainedBeforeRollback ==
    pc \in {"rollback", "done"} /\ trigger # "plan-error" => Drained

Aborted == pc = "done" /\ trigger # "none" /\ residue = {}

Intact(i) ==
    /\ i \in present <=> i \in Existing
    /\ i \in Existing => cell[<<i, Shared>>][1] = Start[Shared]

(* What a failed prune had deleted is in no applied list.                  *)
HalfPruned ==
    UNION {ops[k].items : k \in {j \in DOMAIN ops : status[j] = "error"}}

(* A push that failed on a write, or was cancelled, and whose inverses all *)
(* succeeded, leaves the items and shared fields the tenant had: every     *)
(* write that landed was in applied, with the value it replaced, and was   *)
(* undone after the writes that came on top of it.  Version adds stay, an  *)
(* adopted item is deleted.                                                *)
RollbackRestores ==
    Aborted /\ trigger # "plan-error"
        => \A i \in Items \ (adopted \cup HalfPruned) : Intact(i)

(* The operations the finished push claims its cell (s, v) follows.        *)
Claims(s, v) ==
    {k \in DOMAIN ops : ops[k].kind = "set" /\ ops[k].stack = s
                        /\ ops[k].version = v /\ status[k] \in {"applied", "noop"}}

Holds(s, v) ==
    Claims(s, v) # {} => cell[s][v] = ops[Max(Claims(s, v))].value

(* A push that ran to its end left every shared field it wrote or found in *)
(* sync with the value of the last operation on it, although each was      *)
(* planned while earlier writes of the same cell were still in flight.     *)
SharedFieldsConverge ==
    pc = "done" /\ trigger = "none" =>
        \A i \in Items : Holds(<<i, Shared>>, 1)

(* The cache written through before the call is made never misleads a plan *)
(* (execute-write-pool.ts:14-18): when the next operation is about to be   *)
(* planned and nothing is in flight for an item's shared field, the cached *)
(* snapshot has the value the tenant holds.  Items a create adopted, or    *)
(* found live although the push did not know them, are left out: their     *)
(* snapshot can lag behind that create, whose fields nothing else writes.  *)
PoisonedCacheUnread ==
    pc = "loop" /\ fatal = 0 =>
        \A i \in present \ (adopted \cup (Existing \ Seeded)) :
            snap[i] # None /\ Settled(<<i, Shared>>)
                => snap[i].shared = cell[<<i, Shared>>][1]

(* The result of a push that was not aborted is final: nothing it reports  *)
(* is still in flight, and every operation has an outcome.                 *)
ResultIsFinal ==
    pc = "done" /\ trigger = "none" =>
        Drained /\ \A k \in DOMAIN status : status[k] # "queued"

(* With onError = "continue" no failing write, pooled, isolated out of a   *)
(* coalesced call or dispatched, turns into an abort.                      *)
ToleratedFailuresDontAbort == Tolerant => trigger # "apply-error"

(* A tolerated failure costs its own cell only: every other shared field   *)
(* that a push run to its end wrote, or found in sync, has the value of    *)
(* the last operation on it (the failed cell's value stays in the snapshot *)
(* cache and misleads what is planned on that cell from it).               *)
ToleratedFailuresStayLocal ==
    pc = "done" /\ trigger = "none" =>
        \A i \in Items :
            \/ \E k \in DOMAIN ops : ops[k].stack = <<i, Shared>> /\ status[k] = "error"
            \/ Holds(<<i, Shared>>, 1)

(* A push ends, whatever fails: no await of the loop waits for a slot, a   *)
(* drain or an answer that never comes.                                    *)
PushEnds == <>(pc = "done")

-----------------------------------------------------------------------------
(* What the documentation says of the program and a run refutes.           *)

(* "A partial failure rolls back the operations it already applied via a   *)
(* LIFO unwind" (docs/recipes.md:392), whatever the failure was.           *)
AbortUndoesAll ==
    Aborted => \A i \in Items \ (adopted \cup HalfPruned) : Intact(i)
=============================================================================
