----------------------- MODULE WritePoolClient_proofs -----------------------
(***************************************************************************)
(* The write pool under its most general client, for any items, languages, *)
(* limit and number of operations: type correctness, the semaphore's       *)
(* bookkeeping, the absence of an idle slot beside a sleeper, the order of *)
(* the tenant's writes and the outcome of each, and the pool's             *)
(* implementation of CellWrites.                                           *)
(***************************************************************************)
EXTENDS WritePoolClient, WritePool_proofs

LEMMA ClientInit == Init => PoolInv
<1> SUFFICES ASSUME Init PROVE PoolInv
  OBVIOUS
<1>1. \A s \in Stacks : InitialTop(s) \in Nat
  BY DEF InitialTop
<1>2. top \in [Stacks -> Nat] /\ cell \in [Stacks -> [Versions -> Values]]
  BY <1>1, PoolAssumption DEF Init
<1> QED  BY <1>2, InitialPool DEF Init

(* What the client submits is a write that carries its own number, or a    *)
(* version add.                                                            *)
LEMMA SubmittedOp ==
    ASSUME PoolInv, SubmitSome
    PROVE  \E o \in Op : /\ Submit(o) /\ o.kind \in {"set", "add"}
                         /\ o.kind = "set" => o.value = Len(ops) + 1
<1>1. PICK s \in Stacks, v \in Versions :
          \/ Len(ops) < MaxOps /\ Submit(Set(s, v))
          \/ \E n \in Versions : Submit(AddUpTo(s, v, n))
  BY DEF SubmitSome, Submit
<1>2. Blank \in Values /\ Versions \subseteq Nat
  BY PoolAssumption DEF Versions
<1>3. CASE Len(ops) < MaxOps /\ Submit(Set(s, v))
  <2>1. Len(ops) + 1 \in Values
    <3>1. Len(ops) \in Nat
      BY DEF PoolInv, ResultsInv
    <3> QED  BY <1>3, <3>1, ClientAssumption, PoolAssumption
  <2>2. Set(s, v) \in Op /\ Set(s, v).kind = "set" /\ Set(s, v).value = Len(ops) + 1
    BY <1>2, <2>1 DEF Set, Op
  <2> QED  BY <1>3, <2>2
<1>4. CASE \E n \in Versions : Submit(AddUpTo(s, v, n))
  <2>1. PICK n \in Versions : Submit(AddUpTo(s, v, n))
    BY <1>4
  <2>2. AddUpTo(s, v, n) \in Op /\ AddUpTo(s, v, n).kind = "add"
    BY <1>2 DEF AddUpTo, Op
  <2> QED  BY <2>1, <2>2
<1> QED  BY <1>1, <1>3, <1>4

LEMMA SubmitKeeps ==
    ASSUME PoolInv, SubmitSome
    PROVE  PoolInv'
<1>1. PICK o \in Op : Submit(o)
  BY SubmittedOp
<1>2. "queued" \in Status
  BY DEF Status
<1> QED  BY <1>1, <1>2, EnqueueKeeps DEF Submit

(* In every reachable state the pool's variables fit together.             *)
THEOREM PoolInvariant == Spec => []PoolInv
<1>1. PoolInv /\ [Next]_vars => PoolInv'
  <2> SUFFICES ASSUME PoolInv, [Next]_vars PROVE PoolInv'
    OBVIOUS
  <2>1. CASE SubmitSome
    BY <2>1, SubmitKeeps
  <2>2. CASE \E s \in Stacks : PoolStep(s)
    BY <2>2, PoolStepKeeps
  <2>3. CASE UNCHANGED vars
    BY <2>3, StutterKeeps
  <2> QED  BY <2>1, <2>2, <2>3 DEF Next
<1> QED  BY ClientInit, <1>1, PTL DEF Spec

(* Every variable keeps its type; in particular no release ever takes the  *)
(* semaphore below zero.                                                   *)
THEOREM TypeCorrectness == Spec => []TypeOK
<1>1. PoolInv => TypeOK
  BY PoolInvImplies DEF TypeOK
<1> QED  BY PoolInvariant, <1>1, PTL

(* The semaphore counts the calls in flight exactly and its list holds     *)
(* every sleeping stack exactly once.                                      *)
THEOREM SemaphoreCounts == Spec => []SemaphoreExact
<1>1. PoolInv => SemaphoreExact
  BY PoolInvImplies
<1> QED  BY PoolInvariant, <1>1, PTL

(* While a stack sleeps on the semaphore, all of its slots are taken or    *)
(* promised to a stack that has been woken.                                *)
THEOREM NoSlotIdles == Spec => []NoIdleSlot
<1>1. PoolInv => NoIdleSlot
  BY PoolInvImplies
<1> QED  BY PoolInvariant, <1>1, PTL

-----------------------------------------------------------------------------
(***************************************************************************)
(* What the queues are for.  OrderInv adds to the pool's two invariants    *)
(* that each cell holds its newest applied write.                          *)
(***************************************************************************)

(* Every operation is a write or a version add, and a write carries its    *)
(* own number.                                                             *)
Numbered ==
    \A i \in DOMAIN ops :
        /\ ops[i].kind \in {"set", "add"}
        /\ ops[i].kind = "set" => ops[i].value = i

(* A cell holds its newest applied write at all times.                     *)
CellsHold ==
    "lost" \notin Responses =>
        \A s \in Stacks, v \in Versions :
            cell[s][v] = IF WritesTo(s, v) = {} THEN Blank
                         ELSE Max(WritesTo(s, v))

(* The inductive invariant of this section.                                *)
OrderInv ==
    /\ PoolInv
    /\ QueueInv
    /\ Accounted({})
    /\ Numbered
    /\ CellsHold

LEMMA MaxIs ==
    ASSUME NEW S \in SUBSET Nat, NEW m \in S, \A x \in S : x <= m
    PROVE  Max(S) = m
<1>1. \E x \in S : \A y \in S : x >= y
  OBVIOUS
<1>2. Max(S) \in S /\ \A y \in S : Max(S) >= y
  BY <1>1 DEF Max
<1>3. Max(S) >= m /\ Max(S) <= m /\ Max(S) \in Nat /\ m \in Nat
  BY <1>2
<1> QED  BY <1>3

LEMMA WritesAreNumbers ==
    ASSUME ResultsInv, NEW s, NEW v
    PROVE  WritesTo(s, v) \subseteq DOMAIN ops /\ WritesTo(s, v) \subseteq Nat
  BY OpFacts DEF WritesTo

-----------------------------------------------------------------------------
(* While nothing is fatal, an entry of a stack's head task has no version  *)
(* add of that stack before it that is still without an outcome.           *)
LEMMA AddsDone ==
    ASSUME PoolInv, QueueInv, Accounted({}), fatal = 0,
           NEW s \in Stacks, chain[s] # <<>>,
           NEW j \in DOMAIN chain[s][1].entries,
           NEW x \in DOMAIN ops, x < chain[s][1].entries[j],
           ops[x].kind = "add", ops[x].stack = s
    PROVE  status[x] # "queued"
<1> SUFFICES ASSUME status[x] = "queued" PROVE FALSE
  OBVIOUS
<1> DEFINE i == chain[s][1].entries[j]
<1>1. 1 \in DOMAIN chain[s] /\ chain[s] \in Seq(Task)
  BY HeadFacts DEF PoolInv
<1>2. i \in Nat /\ x \in Nat
  BY <1>1, OpFacts DEF PoolInv, StacksInv, TasksKnown
<1>3. PICK t \in Stacks : \E k \in DOMAIN chain[t] :
         \E l \in DOMAIN chain[t][k].entries :
            Pends(t, k, l) /\ chain[t][k].entries[l] = x
  BY DEF Accounted, InQueue
<1>4. PICK k \in DOMAIN chain[t] : \E l \in DOMAIN chain[t][k].entries :
            Pends(t, k, l) /\ chain[t][k].entries[l] = x
  BY <1>3
<1>5. PICK l \in DOMAIN chain[t][k].entries : chain[t][k].entries[l] = x
  BY <1>4
<1>6. t = s
  BY <1>5, OwnStack DEF QueueInv
<1>7. chain[s][k].kind = "add"
  BY <1>5, <1>6 DEF QueueInv, QueuesOrdered, WellQueued, InTask
<1>8. CASE k = 1
  <2>1. Len(chain[s][1].entries) = 1
    BY <1>1, <1>7, <1>8 DEF QueueInv, QueuesOrdered, WellQueued, InTask
  <2>2. chain[s][1] \in Task
    BY <1>1
  <2>3. chain[s][1].entries \in Seq(Nat \ {0})
    BY <2>2 DEF Task
  <2>4. j = 1 /\ l = 1
    BY <1>5, <1>6, <1>8, <2>1, <2>3
  <2> QED  BY <1>2, <1>5, <1>6, <1>8, <2>4
<1>9. CASE k # 1
  <2>1. 1 < k
    BY <1>1, <1>6, <1>9
  <2>2. Older(chain[s][1], chain[s][k])
    BY <1>1, <1>6, <1>7, <2>1 DEF QueueInv, QueuesOrdered, WellQueued, Before
  <2>3. i < x
    BY <1>5, <1>6, <2>2 DEF Older
  <2> QED  BY <1>2, <2>3
<1> QED  BY <1>8, <1>9

LEMMA InvAddsLandFirst == OrderInv => AddsLandFirst
<1> SUFFICES ASSUME OrderInv, NEW s \in Stacks, NEW i \in Sent(s), NEW x \in 1 .. i - 1,
                    ops[x].kind = "add", ops[x].stack = s, fatal = 0
             PROVE  status[x] # "queued"
  BY DEF AddsLandFirst
<1>1. at[s] \in InFlight
  BY DEF Sent
<1>2. chain[s] # <<>> /\ (at[s] = "single" => step[s] \in DOMAIN Head1(s).entries)
  BY <1>1 DEF OrderInv, PoolInv, StacksInv, HeadRuns, InFlight
<1>3. /\ Head1(s) = chain[s][1] /\ 1 \in DOMAIN Head1(s).entries
      /\ 1 \in DOMAIN chain[s]
  BY <1>2, HeadFacts DEF OrderInv, PoolInv
<1>4. PICK j \in DOMAIN chain[s][1].entries : i = chain[s][1].entries[j]
  BY <1>1, <1>2, <1>3 DEF Sent, InFlight
<1>5. i \in DOMAIN ops
  BY <1>3, <1>4 DEF OrderInv, PoolInv, StacksInv, TasksKnown
<1>6. ops \in Seq(Op)
  BY DEF OrderInv, PoolInv, ResultsInv
<1>7. x \in DOMAIN ops /\ x < i
  BY <1>5, <1>6
<1> QED  BY <1>2, <1>4, <1>7, AddsDone DEF OrderInv

LEMMA InvSameAsSequential == OrderInv => SameAsSequential
  BY DEF OrderInv, CellsHold, SameAsSequential

LEMMA AppliedCount ==
    ASSUME PoolInv, AppliedOnce
    PROVE  Len(applied) = Cardinality({i \in DOMAIN status : status[i] = "applied"})
<1> DEFINE S == {i \in DOMAIN status : status[i] = "applied"}
<1>1. applied \in Seq(Nat \ {0}) /\ \A k \in DOMAIN applied : applied[k] \in DOMAIN status
  BY OpFacts DEF PoolInv, ResultsInv, ResultsKnown
<1>2. Len(applied) \in Nat /\ DOMAIN applied = 1 .. Len(applied)
  BY <1>1
<1>3. applied \in [1 .. Len(applied) -> S]
  BY <1>1, <1>2 DEF AppliedOnce
<1>4. applied \in Bijection(1 .. Len(applied), S)
  BY <1>2, <1>3 DEF AppliedOnce, Bijection, Injection, Surjection, IsInjective
<1>5. ExistsBijection(1 .. Len(applied), S)
  BY <1>4 DEF ExistsBijection
<1> HIDE DEF S
<1>6. Cardinality(S) = Len(applied)
  BY <1>2, <1>5, FS_CountingElements
<1> QED  BY <1>6 DEF S

LEMMA InvEveryWriteAccounted == OrderInv => EveryWriteAccounted
<1> SUFFICES ASSUME OrderInv PROVE EveryWriteAccounted
  OBVIOUS
<1>1. ASSUME Drained, fatal = 0, NEW i \in DOMAIN status PROVE status[i] # "queued"
  <2>1. i \in DOMAIN ops
    BY DEF OrderInv, PoolInv, ResultsInv, ResultsKnown
  <2>2. ~InQueue(i)
    <3>1. \A s \in Stacks : DOMAIN chain[s] = {}
      BY <1>1 DEF Drained, Settled
    <3> QED  BY <3>1 DEF InQueue
  <2> QED  BY <1>1, <2>1, <2>2 DEF OrderInv, Accounted
<1>2. Len(applied) = Cardinality({i \in DOMAIN status : status[i] = "applied"})
  BY AppliedCount DEF OrderInv, QueueInv
<1>3. \A k \in DOMAIN applied : status[applied[k]] = "applied"
  BY DEF OrderInv, QueueInv, AppliedOnce
<1> QED  BY <1>1, <1>2, <1>3 DEF EveryWriteAccounted

-----------------------------------------------------------------------------
(* What an answered call does to the operations and the tenant.            *)
LandsIn(s, v, W) ==
    /\ Max(W) \in W /\ \A x \in W : x <= Max(W)
    /\ W \subseteq {i \in DOMAIN ops : ops[i].kind = "set" /\ ops[i].stack = s
                                       /\ ops[i].version = v /\ status[i] = "queued"}
    /\ \A i \in W, j \in WritesTo(s, v) : j < i
    /\ fatal = 0 => \A i \in W : \A x \in DOMAIN ops :
          x < i /\ ops[x].kind = "add" /\ ops[x].stack = s => status[x] # "queued"
    /\ cell' = [cell EXCEPT ![s] = [cell[s] EXCEPT ![v] = Max(W)]]
    /\ status' = [i \in DOMAIN status |-> IF i \in W THEN "applied" ELSE status[i]]
    /\ UNCHANGED <<top, fatal>>

GrowsIn(s, i) ==
    /\ i \in DOMAIN ops /\ ops[i].kind = "add" /\ ops[i].stack = s
    /\ status[i] = "queued"
    /\ top' = [top EXCEPT ![s] = top[s] + 1]
    /\ status' \in {status, [status EXCEPT ![i] = "applied"]}
    /\ UNCHANGED <<cell, fatal>>

FailsIn(i) ==
    /\ i \in DOMAIN status /\ status[i] = "queued"
    /\ status' \in {[status EXCEPT ![i] = st] : st \in {"skip", "error"}}
    /\ fatal # 0 => fatal' # 0
    /\ UNCHANGED <<top, cell>>

Idles == UNCHANGED <<status, cell, top, fatal>>

(* Nothing lands without saying so, where no answer is lost.               *)
LEMMA HonestAnswers ==
    ASSUME "lost" \notin Responses, NEW s, NEW v, NEW r \in Answers(s, v)
    PROVE  Landed(r) <=> r = "ok"
  BY PoolAssumption DEF Answers, Landed

(* The entries of a cell task that runs: writes of one cell that wait for  *)
(* their outcome, newer than the ones that landed and behind no version    *)
(* add.                                                                    *)
LEMMA CellEntry ==
    ASSUME OrderInv, NEW s \in Stacks, at[s] \in {"merged", "single"},
           NEW j \in DOMAIN chain[s][1].entries, Pends(s, 1, j)
    PROVE  LET i == chain[s][1].entries[j]
               v == chain[s][1].version IN
           /\ i \in DOMAIN ops /\ i \in DOMAIN status /\ i \in Nat
           /\ ops[i].kind = "set" /\ ops[i].stack = s /\ ops[i].version = v
           /\ ops[i].value = i /\ status[i] = "queued"
           /\ \A k \in WritesTo(s, v) : k < i
           /\ fatal = 0 => \A x \in DOMAIN ops :
                x < i /\ ops[x].kind = "add" /\ ops[x].stack = s => status[x] # "queued"
<1> DEFINE i == chain[s][1].entries[j]
           v == chain[s][1].version
<1>1. chain[s] # <<>>
  BY DEF OrderInv, PoolInv, StacksInv, HeadRuns
<1>2. 1 \in DOMAIN chain[s] /\ Head1(s) = chain[s][1]
  BY <1>1, HeadFacts DEF OrderInv, PoolInv
<1>3. chain[s][1].kind = "cell"
  BY <1>2 DEF OrderInv, QueueInv, HeadClaimed
<1>4. i \in DOMAIN ops /\ status[i] = "queued"
  BY <1>2 DEF OrderInv, PoolInv, StacksInv, TasksKnown, QueueInv, PendingQueued
<1>5. i \in DOMAIN status /\ i \in Nat
  BY <1>4, OpFacts DEF OrderInv, PoolInv
<1>6. ops[i].kind = "set" /\ ops[i].stack = s /\ ops[i].version = v
  BY <1>2, <1>3 DEF OrderInv, QueueInv, QueuesOrdered, WellQueued, InTask
<1>7. ops[i].value = i
  BY <1>4, <1>6 DEF OrderInv, Numbered
<1>8. \A k \in WritesTo(s, v) : k < i
  BY <1>2, <1>3 DEF OrderInv, QueueInv, AppliedOlder, WritesTo
<1>9. fatal = 0 => \A x \in DOMAIN ops :
                x < i /\ ops[x].kind = "add" /\ ops[x].stack = s => status[x] # "queued"
  BY <1>1, AddsDone DEF OrderInv
<1> QED  BY <1>4, <1>5, <1>6, <1>7, <1>8, <1>9

LEMMA MergedPromise ==
    ASSUME OrderInv, "lost" \notin Responses, NEW s \in Stacks, AnswerMerged(s)
    PROVE  (\E v \in Versions : \E W : LandsIn(s, v, W)) \/ Idles
<1> DEFINE t == Head1(s)
           e == t.entries
           v == t.version
           W == {e[k] : k \in DOMAIN e}
           m == Topmost(t)
<1>1. at[s] = "merged" /\ UNCHANGED <<fatal, ops>> /\ chain[s] # <<>>
  BY DEF AnswerMerged, OrderInv, PoolInv, StacksInv, HeadRuns
<1>2. /\ t = chain[s][1] /\ t \in Task /\ e \in Seq(Nat \ {0}) /\ e # <<>>
      /\ 1 \in DOMAIN chain[s]
  BY <1>1, HeadFacts DEF OrderInv, PoolInv
<1>3. v \in Versions
  BY <1>2 DEF Task
<1>4. PICK r \in Answers(s, v) :
          /\ Write(s, v, m, r)
          /\ IF r = "ok"
             THEN status' = [i \in DOMAIN status |->
                                  IF \E k \in DOMAIN e : e[k] = i
                                  THEN "applied" ELSE status[i]]
             ELSE UNCHANGED status
  BY DEF AnswerMerged
<1>5. top' = top /\ (r # "ok" => cell' = cell)
      /\ (r = "ok" => cell' = [cell EXCEPT ![s] = [cell[s] EXCEPT ![v] = ops[m].value]])
  BY <1>4, HonestAnswers DEF Write
<1>6. CASE r # "ok"
  BY <1>1, <1>4, <1>5, <1>6 DEF Idles
<1>7. CASE r = "ok"
  <2>1. ASSUME NEW j \in DOMAIN e
        PROVE  LET i == e[j] IN
               /\ i \in DOMAIN ops /\ i \in DOMAIN status /\ i \in Nat
               /\ ops[i].kind = "set" /\ ops[i].stack = s /\ ops[i].version = v
               /\ ops[i].value = i /\ status[i] = "queued"
               /\ \A k \in WritesTo(s, v) : k < i
               /\ fatal = 0 => \A x \in DOMAIN ops :
                    x < i /\ ops[x].kind = "add" /\ ops[x].stack = s
                        => status[x] # "queued"
    <3>1. Pends(s, 1, j)
      BY <1>1, <1>2 DEF Pends
    <3> QED  BY <1>1, <1>2, <3>1, CellEntry
  <2>2. \A a, b \in DOMAIN e : a < b => e[a] < e[b]
    BY <1>2 DEF OrderInv, QueueInv, QueuesOrdered, WellQueued, InTask
  <2>3. m = e[Len(e)]
    BY DEF Topmost
  <2> HIDE DEF e
  <2>4. /\ Len(e) \in DOMAIN e
        /\ \A j \in DOMAIN e : e[j] \in Nat /\ (j < Len(e) \/ j = Len(e))
    BY <1>2
  <2>5. \A j \in DOMAIN e : e[j] <= e[Len(e)]
    BY <2>2, <2>4
  <2>6. Max(W) = m /\ m \in W /\ \A x \in W : x <= m
    <3>1. W \in SUBSET Nat /\ m \in W /\ \A x \in W : x <= m
      BY <2>3, <2>4, <2>5
    <3> HIDE DEF W, m
    <3> QED  BY <3>1, MaxIs
  <2>7. ops[m].value = Max(W)
    BY <2>1, <2>3, <2>4, <2>6
  <2>8. status' = [i \in DOMAIN status |-> IF i \in W THEN "applied" ELSE status[i]]
    BY <1>4, <1>7
  <2>9. \A i \in W : \E j \in DOMAIN e : i = e[j]
    OBVIOUS
  <2> HIDE DEF W, m, v, t
  <2>10. LandsIn(s, v, W)
    BY <1>1, <1>5, <1>7, <2>1, <2>6, <2>7, <2>8, <2>9 DEF LandsIn
  <2> QED  BY <1>3, <2>10
<1> QED  BY <1>6, <1>7

LEMMA SinglePromise ==
    ASSUME OrderInv, "lost" \notin Responses, NEW s \in Stacks, AnswerSingle(s)
    PROVE  (\E v \in Versions : \E W : LandsIn(s, v, W)) \/ \E i : FailsIn(i)
<1> DEFINE t == Head1(s)
           v == t.version
           i == t.entries[step[s]]
<1>1. at[s] = "single" /\ ops' = ops /\ chain[s] # <<>>
      /\ step[s] \in DOMAIN t.entries
  BY DEF AnswerSingle, OrderInv, PoolInv, StacksInv, HeadRuns
<1>2. /\ t = chain[s][1] /\ t \in Task /\ t.entries \in Seq(Nat \ {0})
      /\ 1 \in DOMAIN chain[s]
  BY <1>1, HeadFacts DEF OrderInv, PoolInv
<1>3. v \in Versions
  BY <1>2 DEF Task
<1>4. PICK r \in Answers(s, v) : Write(s, v, i, r) /\ RecordAnswer(i, r)
  BY DEF AnswerSingle
<1>5. top' = top /\ (r # "ok" => cell' = cell)
      /\ (r = "ok" => cell' = [cell EXCEPT ![s] = [cell[s] EXCEPT ![v] = ops[i].value]])
  BY <1>4, HonestAnswers DEF Write
<1>6. Pends(s, 1, step[s])
  BY <1>1, <1>2 DEF Pends
<1>7. /\ i \in DOMAIN ops /\ i \in DOMAIN status /\ i \in Nat
      /\ ops[i].kind = "set" /\ ops[i].stack = s /\ ops[i].version = v
      /\ ops[i].value = i /\ status[i] = "queued"
      /\ \A k \in WritesTo(s, v) : k < i
      /\ fatal = 0 => \A x \in DOMAIN ops :
           x < i /\ ops[x].kind = "add" /\ ops[x].stack = s => status[x] # "queued"
  BY <1>1, <1>2, <1>6, CellEntry
<1> HIDE DEF i, v, t
<1>8. status \in Seq(Status)
  BY DEF OrderInv, PoolInv, ResultsInv
<1>9. CASE r = "ok"
  <2>1. status' = [status EXCEPT ![i] = "applied"] /\ fatal' = fatal
    BY <1>4, <1>9 DEF RecordAnswer
  <2>2. status' = [x \in DOMAIN status |-> IF x \in {i} THEN "applied" ELSE status[x]]
    BY <1>7, <1>8, <2>1
  <2>3. Max({i}) = i /\ \A x \in {i} : x <= i
    <3>1. {i} \in SUBSET Nat /\ i \in {i} /\ \A x \in {i} : x <= i
      BY <1>7
    <3> QED  BY <3>1, MaxIs
  <2>4. LandsIn(s, v, {i})
    <3>1. Max({i}) \in {i} /\ \A x \in {i} : x <= Max({i})
      BY <2>3
    <3>2. cell' = [cell EXCEPT ![s] = [cell[s] EXCEPT ![v] = Max({i})]]
      BY <1>5, <1>7, <1>9, <2>3
    <3>3. UNCHANGED <<top, fatal>>
      BY <1>5, <2>1
    <3>4. {i} \subseteq {x \in DOMAIN ops :
                          ops[x].kind = "set" /\ ops[x].stack = s
                          /\ ops[x].version = v /\ status[x] = "queued"}
      BY <1>7
    <3>5. \A x \in {i}, j \in WritesTo(s, v) : j < x
      BY <1>7
    <3>6. fatal = 0 => \A k \in {i} : \A x \in DOMAIN ops :
             x < k /\ ops[x].kind = "add" /\ ops[x].stack = s => status[x] # "queued"
      BY <1>7
    <3> QED  BY <2>2, <3>1, <3>2, <3>3, <3>4, <3>5, <3>6 DEF LandsIn
  <2> QED  BY <1>3, <2>4
<1>10. CASE r # "ok"
  <2>1. /\ status' = [status EXCEPT ![i] = IF Skippable(i, r) THEN "skip" ELSE "error"]
        /\ fatal' = FatalAfter(i, r)
    BY <1>4, <1>10 DEF RecordAnswer
  <2>2. fatal # 0 => fatal' # 0
    BY <2>1 DEF FatalAfter
  <2>3. FailsIn(i)
    BY <1>5, <1>7, <1>10, <2>1, <2>2 DEF FailsIn
  <2> QED  BY <2>3
<1> QED  BY <1>9, <1>10

LEMMA AddPromise ==
    ASSUME OrderInv, "lost" \notin Responses, NEW s \in Stacks, AnswerAdd(s)
    PROVE  (\E i : GrowsIn(s, i)) \/ \E i : FailsIn(i)
<1> DEFINE i == Head1(s).entries[1]
<1>1. at[s] = "adding" /\ UNCHANGED <<ops, cell>> /\ chain[s] # <<>>
  BY DEF AnswerAdd, OrderInv, PoolInv, StacksInv, HeadRuns
<1>2. /\ Head1(s) = chain[s][1] /\ 1 \in DOMAIN Head1(s).entries
      /\ 1 \in DOMAIN chain[s]
  BY <1>1, HeadFacts DEF OrderInv, PoolInv
<1>3. PICK r \in Answers(s, 0) :
          /\ top' = IF Landed(r) THEN [top EXCEPT ![s] = top[s] + 1] ELSE top
          /\ IF r = "ok" /\ step[s] < ops[i].count
             THEN UNCHANGED <<status, fatal>>
             ELSE RecordAnswer(i, r)
  BY DEF AnswerAdd
<1>4. Pends(s, 1, 1)
  BY <1>1, <1>2 DEF Pends
<1>5. i \in DOMAIN ops /\ status[i] = "queued"
  BY <1>2, <1>4 DEF OrderInv, PoolInv, StacksInv, TasksKnown, QueueInv, PendingQueued
<1>6. i \in DOMAIN status
  BY <1>5, OpFacts DEF OrderInv, PoolInv
<1>7. ops[i].kind = "add" /\ ops[i].stack = s
  <2>1. Head1(s).kind = "add"
    BY <1>1 DEF OrderInv, QueueInv, HeadClaimed
  <2> QED  BY <1>2, <2>1 DEF OrderInv, QueueInv, QueuesOrdered, WellQueued, InTask
<1>8. Landed(r) <=> r = "ok"
  BY HonestAnswers
<1> HIDE DEF i
<1>9. CASE r = "ok"
  <2>1. top' = [top EXCEPT ![s] = top[s] + 1]
    BY <1>3, <1>8, <1>9
  <2>2. fatal' = fatal /\ status' \in {status, [status EXCEPT ![i] = "applied"]}
    BY <1>3, <1>9 DEF RecordAnswer
  <2>3. GrowsIn(s, i)
    BY <1>1, <1>5, <1>7, <2>1, <2>2 DEF GrowsIn
  <2> QED  BY <2>3
<1>10. CASE r # "ok"
  <2>1. /\ status' = [status EXCEPT ![i] = IF Skippable(i, r) THEN "skip" ELSE "error"]
        /\ fatal' = FatalAfter(i, r) /\ top' = top
    BY <1>3, <1>8, <1>10 DEF RecordAnswer
  <2>2. fatal # 0 => fatal' # 0
    BY <2>1 DEF FatalAfter
  <2>3. FailsIn(i)
    BY <1>1, <1>5, <1>6, <2>1, <2>2 DEF FailsIn
  <2> QED  BY <2>3
<1> QED  BY <1>9, <1>10

LEMMA StepPromise ==
    ASSUME OrderInv, "lost" \notin Responses, NEW s \in Stacks, PoolStep(s)
    PROVE  /\ ops' = ops
           /\ \/ \E v \in Versions : \E W : LandsIn(s, v, W)
              \/ \E i : GrowsIn(s, i)
              \/ \E i : FailsIn(i)
              \/ Idles
<1>1. CASE Proceed(s)
  BY <1>1, ProceedIsLocal DEF OrderInv, PoolInv, Idles
<1>2. CASE Answer(s)
  BY <1>2, AnswerIsLocal, MergedPromise, SinglePromise, AddPromise DEF OrderInv, Answer
<1> QED  BY <1>1, <1>2 DEF PoolStep

LEMMA SubmitKeepsOrder ==
    ASSUME OrderInv, SubmitSome
    PROVE  OrderInv'
<1>1. PICK o \in Op : /\ Submit(o) /\ o.kind \in {"set", "add"}
                      /\ o.kind = "set" => o.value = Len(ops) + 1
  BY SubmittedOp DEF OrderInv
<1>2. /\ ops' = Append(ops, o) /\ status' = Append(status, "queued")
      /\ UNCHANGED tenant /\ Enqueue(Len(ops) + 1, o) /\ "queued" \in Status
  BY <1>1 DEF Submit, Status
<1>3. PoolInv'
  BY <1>2, EnqueueKeeps DEF OrderInv
<1>4. QueueInv' /\ Accounted({})'
  BY <1>1, <1>2, EnqueueKeepsQueues DEF OrderInv
<1> DEFINE i == Len(ops) + 1
<1>5. /\ DOMAIN ops' = DOMAIN ops \cup {i} /\ ops'[i] = o
      /\ status'[i] = "queued"
      /\ \A e \in DOMAIN ops : ops'[e] = ops[e] /\ status'[e] = status[e]
  BY <1>2, RecordedFacts DEF OrderInv, PoolInv
<1>6. Numbered'
  BY <1>1, <1>5 DEF OrderInv, Numbered
<1>7. \A s, v : WritesTo(s, v)' = WritesTo(s, v)
  BY <1>5 DEF WritesTo
<1>8. cell' = cell
  BY <1>2 DEF tenant
<1>9. CellsHold'
  BY <1>7, <1>8 DEF OrderInv, CellsHold
<1> QED  BY <1>3, <1>4, <1>6, <1>9 DEF OrderInv

(* Whatever does not apply a write leaves the cells' writes alone.         *)
LEMMA WritesStay ==
    ASSUME OrderInv, ops' = ops, cell' = cell,
           \A i \in DOMAIN ops : ops[i].kind = "set" =>
              (status'[i] = "applied" <=> status[i] = "applied")
    PROVE  CellsHold'
<1>1. \A s, v : WritesTo(s, v)' = WritesTo(s, v)
  BY DEF WritesTo
<1> QED  BY <1>1 DEF OrderInv, CellsHold

LEMMA LandKeepsCells ==
    ASSUME OrderInv, "lost" \notin Responses, ops' = ops,
           NEW s \in Stacks, NEW v \in Versions, NEW W, LandsIn(s, v, W)
    PROVE  CellsHold'
<1>1. cell \in [Stacks -> [Versions -> Values]]
  BY DEF OrderInv, PoolInv, ResultsInv
<1>2. cell' = [cell EXCEPT ![s] = [cell[s] EXCEPT ![v] = Max(W)]]
  BY DEF LandsIn
<1>3. /\ cell'[s][v] = Max(W)
      /\ \A t \in Stacks, u \in Versions : <<t, u>> # <<s, v>> => cell'[t][u] = cell[t][u]
  BY <1>1, <1>2
<1>4. /\ \A i \in W : /\ i \in DOMAIN ops /\ ops[i].kind = "set" /\ ops[i].stack = s
                      /\ ops[i].version = v
      /\ \A i \in W, j \in WritesTo(s, v) : j < i
      /\ status' = [i \in DOMAIN status |-> IF i \in W THEN "applied" ELSE status[i]]
      /\ Max(W) \in W /\ \A x \in W : x <= Max(W)
  BY DEF LandsIn
<1>5. DOMAIN status = DOMAIN ops /\ DOMAIN ops \subseteq Nat
  BY OpFacts DEF OrderInv, PoolInv, ResultsInv, ResultsKnown
<1>6. \A t \in Stacks, u \in Versions :
         WritesTo(t, u)' = IF <<t, u>> = <<s, v>> THEN WritesTo(t, u) \cup W
                           ELSE WritesTo(t, u)
  BY <1>4, <1>5 DEF WritesTo
<1>7. Max(WritesTo(s, v) \cup W) = Max(W)
  <2> DEFINE m == Max(W)
  <2>1. WritesTo(s, v) \subseteq Nat /\ W \subseteq Nat /\ m \in W
    BY <1>4, <1>5, WritesAreNumbers DEF OrderInv, PoolInv
  <2>2. \A x \in WritesTo(s, v) \cup W : x <= m
    <3>1. \A x \in WritesTo(s, v) : x < m
      BY <1>4, <2>1
    <3>2. \A x \in W : x <= m
      BY <1>4
    <3>3. \A x \in WritesTo(s, v) : x \in Nat /\ m \in Nat
      BY <2>1
    <3> HIDE DEF m
    <3> QED  BY <3>1, <3>2, <3>3
  <2> HIDE DEF m
  <2>3. Max(WritesTo(s, v) \cup W) = m
    BY <2>1, <2>2, MaxIs
  <2> QED  BY <2>3 DEF m
<1>8. WritesTo(s, v) \cup W # {}
  BY <1>4
<1>9. ASSUME NEW t \in Stacks, NEW u \in Versions
      PROVE  cell'[t][u] = IF WritesTo(t, u)' = {} THEN Blank
                           ELSE Max(WritesTo(t, u)')
  <2>1. CASE t = s /\ u = v
    BY <1>3, <1>6, <1>7, <1>8, <2>1
  <2>2. CASE ~(t = s /\ u = v)
    <3>1. cell'[t][u] = cell[t][u] /\ WritesTo(t, u)' = WritesTo(t, u)
      BY <1>3, <1>6, <2>2
    <3> QED  BY <3>1 DEF OrderInv, CellsHold
  <2> QED  BY <2>1, <2>2
<1> QED  BY <1>9 DEF CellsHold

LEMMA StepKeepsOrderInv ==
    ASSUME OrderInv, NEW s \in Stacks, PoolStep(s)
    PROVE  OrderInv'
<1>1. PoolInv' /\ QueueInv' /\ Accounted({})'
  BY PoolStepKeeps, PoolStepKeepsQueues DEF OrderInv
<1>2. ops' = ops
  BY PoolStepSettles DEF OrderInv, QueueInv
<1>3. Numbered'
  BY <1>2 DEF OrderInv, Numbered
<1>4. CellsHold'
  <2>1. CASE "lost" \in Responses
    BY <2>1 DEF CellsHold
  <2>2. CASE "lost" \notin Responses
    <3>0. \A i \in DOMAIN ops : i \in DOMAIN status
      BY OpFacts DEF OrderInv, PoolInv
    <3>1. CASE \E v \in Versions : \E W : LandsIn(s, v, W)
      BY <1>2, <2>2, <3>1, LandKeepsCells
    <3>2. CASE \E i : GrowsIn(s, i)
      <4>1. PICK i : GrowsIn(s, i)
        BY <3>2
      <4>2. cell' = cell /\ \A x \in DOMAIN ops : x # i => status'[x] = status[x]
        BY <3>0, <4>1 DEF GrowsIn
      <4>3. ops[i].kind # "set"
        BY <4>1 DEF GrowsIn
      <4> QED  BY <1>2, <4>2, <4>3, WritesStay
    <3>3. CASE \E i : FailsIn(i)
      <4>1. PICK i : FailsIn(i)
        BY <3>3
      <4>2. /\ cell' = cell /\ \A x \in DOMAIN ops : x # i => status'[x] = status[x]
            /\ status[i] # "applied" /\ status'[i] # "applied"
        BY <3>0, <4>1 DEF FailsIn
      <4> QED  BY <1>2, <4>2, WritesStay
    <3>4. CASE Idles
      BY <1>2, <3>4, WritesStay DEF Idles
    <3> QED  BY <2>2, <3>1, <3>2, <3>3, <3>4, StepPromise
  <2> QED  BY <2>1, <2>2
<1> QED  BY <1>1, <1>3, <1>4 DEF OrderInv

LEMMA OrderInit == Init => OrderInv
<1> SUFFICES ASSUME Init PROVE OrderInv
  OBVIOUS
<1>1. PoolInv
  BY ClientInit
<1>2. QueueInv /\ Accounted({})
  BY InitialQueues DEF Init
<1>3. ops = <<>> /\ cell = [s \in Stacks |-> [v \in Versions |-> Blank]]
  BY DEF Init
<1>4. DOMAIN ops = {}
  BY <1>3
<1>5. Numbered /\ \A s, v : WritesTo(s, v) = {}
  BY <1>4 DEF Numbered, WritesTo
<1>6. CellsHold
  BY <1>3, <1>5 DEF CellsHold
<1> QED  BY <1>1, <1>2, <1>5, <1>6 DEF OrderInv

LEMMA OrderStep == OrderInv /\ [Next]_vars => OrderInv'
<1> SUFFICES ASSUME OrderInv, [Next]_vars PROVE OrderInv'
  OBVIOUS
<1>1. CASE SubmitSome
  BY <1>1, SubmitKeepsOrder
<1>2. CASE \E s \in Stacks : PoolStep(s)
  BY <1>2, StepKeepsOrderInv
<1>3. CASE UNCHANGED vars
  <2>1. PoolInv' /\ QueueInv' /\ Accounted({})'
    BY <1>3, StutterKeeps, StutterKeepsQueues DEF OrderInv, vars
  <2>2. UNCHANGED <<ops, cell, status>>
    BY <1>3 DEF vars, tenant
  <2>3. Numbered' /\ CellsHold'
    BY <2>2, WritesStay DEF OrderInv, Numbered
  <2> QED  BY <2>1, <2>3 DEF OrderInv
<1> QED  BY <1>1, <1>2, <1>3 DEF Next

(* In every reachable state the queues hold the operations without an      *)
(* outcome, in order, and the cells the newest applied writes              *)
(* (enqueue, chainTask and the task runners of execute-write-pool.ts).     *)
THEOREM QueueInvariant == Spec => []OrderInv
  BY OrderInit, OrderStep, PTL DEF Spec

-----------------------------------------------------------------------------
(* The implementation of CellWrites, step by step.                         *)

(* The abstract pool sees an operation by its kind and its cell.           *)
Seen == [i \in DOMAIN ops |-> [kind |-> ops[i].kind, stack |-> ops[i].stack,
                               version |-> ops[i].version]]

LEMMA PromisedMax ==
    ASSUME NEW S
    PROVE  Promised!Max(S) = Max(S)
  BY DEF Max, Promised!Max

LEMMA PromisedInit == Init => Promised!Init
<1> SUFFICES ASSUME Init PROVE Promised!Init
  OBVIOUS
<1>1. /\ ops = <<>> /\ status = <<>> /\ fatal = 0
      /\ top = [s \in Stacks |-> InitialTop(s)]
      /\ cell = [s \in Stacks |-> [v \in Versions |-> Blank]]
  BY DEF Init, PoolInit
<1>2. Seen = <<>>
  BY <1>1 DEF Seen
<1>3. top \in [Stacks -> Nat]
  BY <1>1 DEF InitialTop
<1>4. cell \in [Stacks -> [Versions -> Values]]
  BY <1>1, PoolAssumption
<1> QED  BY <1>1, <1>2, <1>3, <1>4 DEF Promised!Init, Seen

LEMMA PromisedSubmit ==
    ASSUME OrderInv, SubmitSome
    PROVE  Promised!Submit
<1>1. PICK o \in Op : Submit(o) /\ o.kind \in {"set", "add"}
  BY SubmittedOp DEF OrderInv
<1> DEFINE q == [kind |-> o.kind, stack |-> o.stack, version |-> o.version]
<1>2. /\ ops' = Append(ops, o) /\ status' = Append(status, "queued")
      /\ UNCHANGED <<top, cell>> /\ Enqueue(Len(ops) + 1, o)
  BY <1>1 DEF Submit, tenant
<1>3. fatal' = fatal
  BY <1>2 DEF Enqueue
<1>4. q \in [kind : {"set", "add"}, stack : Stacks, version : Versions]
  BY <1>1 DEF Op
<1>5. ops \in Seq(Op) /\ Len(ops) \in Nat
  BY DEF OrderInv, PoolInv, ResultsInv
<1> HIDE DEF q
<1>6. Seen' = Append(Seen, q)
  <2> DEFINE n == Len(ops)
             Kept == [i \in DOMAIN ops |-> [kind |-> ops[i].kind, stack |-> ops[i].stack,
                                            version |-> ops[i].version]]
  <2>1. DOMAIN ops = 1 .. n /\ DOMAIN ops' = 1 .. n + 1
    BY <1>2, <1>5
  <2>2. ops'[n + 1] = o /\ \A i \in DOMAIN ops : ops'[i] = ops[i]
    BY <1>2, <1>5
  <2>3. DOMAIN Kept = 1 .. n
    BY <2>1
  <2>4. \A i \in DOMAIN ops : Kept[i] = [kind |-> ops[i].kind, stack |-> ops[i].stack,
                                         version |-> ops[i].version]
    OBVIOUS
  <2>5. Seen' = [i \in 1 .. n + 1 |-> IF i = n + 1 THEN q ELSE Kept[i]]
    <3>1. Seen' = [i \in DOMAIN ops' |-> [kind |-> ops'[i].kind, stack |-> ops'[i].stack,
                                          version |-> ops'[i].version]]
      BY DEF Seen
    <3>2. \A i \in 1 .. n + 1 : i = n + 1 \/ i \in DOMAIN ops
      BY <1>5, <2>1
    <3> HIDE DEF n, Kept
    <3> QED  BY <2>1, <2>2, <2>4, <3>1, <3>2 DEF q
  <2>6. Kept \in Seq({Kept[i] : i \in 1 .. n})
    <3>1. \A i \in 1 .. n : Kept[i] \in {Kept[j] : j \in 1 .. n}
      OBVIOUS
    <3>2. Kept \in [1 .. n -> {Kept[j] : j \in 1 .. n}]
      BY <2>1, <3>1
    <3> HIDE DEF Kept
    <3> QED  BY <1>5, <3>2
  <2>7. Len(Kept) = n /\ Seen = Kept
    <3>1. Seen = Kept
      BY DEF Seen
    <3> HIDE DEF Kept
    <3> QED  BY <1>5, <2>3, <2>6, <3>1
  <2> HIDE DEF n, Kept
  <2>8. Append(Kept, q) = [i \in 1 .. n + 1 |-> IF i = n + 1 THEN q ELSE Kept[i]]
    <3> DEFINE T == {Kept[i] : i \in 1 .. n} \cup {q}
               A == Append(Kept, q)
    <3>1. Kept \in Seq(T) /\ q \in T /\ n \in Nat
      BY <1>5, <2>6 DEF n
    <3> HIDE DEF T
    <3>2. /\ A \in Seq(T) /\ Len(A) = n + 1
          /\ A[n + 1] = q /\ \A i \in 1 .. n : A[i] = Kept[i]
      BY <2>7, <3>1
    <3> HIDE DEF A
    <3>3. A \in [1 .. n + 1 -> T]
      BY <3>1, <3>2
    <3>4. \A i \in 1 .. n + 1 : i = n + 1 \/ i \in 1 .. n
      BY <3>1
    <3>5. A = [i \in 1 .. n + 1 |-> IF i = n + 1 THEN q ELSE Kept[i]]
      BY <3>2, <3>3, <3>4
    <3> QED  BY <3>5 DEF A
  <2> QED  BY <2>5, <2>7, <2>8
<1> QED  BY <1>2, <1>3, <1>4, <1>6 DEF Promised!Submit, Seen

LEMMA PromisedStep ==
    ASSUME OrderInv, "lost" \notin Responses, NEW s \in Stacks, PoolStep(s)
    PROVE  \/ Promised!Next
           \/ UNCHANGED <<Seen, status, top, cell, (fatal # 0)>>
<1>1. ops' = ops /\ Seen' = Seen
  BY StepPromise DEF Seen
<1>2. DOMAIN status = DOMAIN ops /\ DOMAIN ops \subseteq Nat
  BY OpFacts DEF OrderInv, PoolInv, ResultsInv, ResultsKnown
<1>3. /\ DOMAIN Seen = DOMAIN ops
      /\ \A i \in DOMAIN ops : /\ Seen[i].kind = ops[i].kind
                               /\ Seen[i].stack = ops[i].stack
                               /\ Seen[i].version = ops[i].version
  BY DEF Seen
<1>4. CASE \E v \in Versions : \E W : LandsIn(s, v, W)
  <2>1. PICK v \in Versions : \E W : LandsIn(s, v, W)
    BY <1>4
  <2>2. PICK W : LandsIn(s, v, W)
    BY <2>1
  <2>3. W \in (SUBSET Promised!WritesOf(s, v, "queued")) \ {{}}
    BY <1>3, <2>2 DEF LandsIn, Promised!WritesOf, Seen
  <2>4. \A i \in W, j \in Promised!WritesOf(s, v, "applied") : j < i
    BY <1>3, <2>2 DEF LandsIn, Promised!WritesOf, WritesTo, Seen
  <2>5. ~(fatal # 0) => \A i \in W : \A j \in Promised!AddsBefore(i) : ~Promised!Pending(j)
    <3> SUFFICES ASSUME fatal = 0, NEW i \in W, NEW j \in Promised!AddsBefore(i)
                 PROVE  status[j] # "queued"
      BY DEF Promised!Pending
    <3>1. i \in DOMAIN ops /\ ops[i].stack = s
      BY <2>2 DEF LandsIn
    <3>2. j \in 1 .. i - 1 /\ Seen[j].kind = "add" /\ Seen[j].stack = Seen[i].stack
      BY DEF Promised!AddsBefore, Seen
    <3>3. i \in 1 .. Len(ops) /\ Len(ops) \in Nat /\ DOMAIN ops = 1 .. Len(ops)
      BY <3>1 DEF OrderInv, PoolInv, ResultsInv
    <3>4. j \in DOMAIN ops /\ j < i
      BY <3>2, <3>3
    <3> QED  BY <1>3, <2>2, <3>1, <3>2, <3>4 DEF LandsIn
  <2>6. /\ cell' = [cell EXCEPT ![s] = [cell[s] EXCEPT ![v] = Promised!Max(W)]]
        /\ status' = [i \in DOMAIN status |-> IF i \in W THEN "applied" ELSE status[i]]
        /\ UNCHANGED <<top, fatal>>
    BY <2>2, PromisedMax DEF LandsIn
  <2>7. Promised!Land(s, v)
    BY <1>1, <2>3, <2>4, <2>5, <2>6 DEF Promised!Land, Seen
  <2> QED  BY <2>7 DEF Promised!Next
<1>5. CASE \E i : GrowsIn(s, i)
  <2>1. PICK i : GrowsIn(s, i)
    BY <1>5
  <2>2. /\ i \in DOMAIN ops /\ Seen[i].kind = "add" /\ Seen[i].stack = s
        /\ Promised!Pending(i)
        /\ status' \in {status, [status EXCEPT ![i] = "applied"]}
    BY <1>2, <1>3, <2>1 DEF GrowsIn, Promised!Pending
  <2>3. top' = [top EXCEPT ![s] = top[s] + 1] /\ UNCHANGED <<cell, fatal>>
    BY <2>1 DEF GrowsIn
  <2>4. Promised!Grow(s)
    BY <1>1, <1>3, <2>2, <2>3 DEF Promised!Grow, Seen
  <2> QED  BY <2>4 DEF Promised!Next
<1>6. CASE \E i : FailsIn(i)
  <2>1. PICK i : FailsIn(i)
    BY <1>6
  <2>2. Promised!Fail(i)
    BY <1>1, <2>1 DEF FailsIn, Promised!Fail, Promised!Pending, Seen
  <2> QED  BY <2>1, <2>2 DEF FailsIn, Promised!Next
<1>7. CASE Idles
  BY <1>1, <1>7 DEF Idles
<1> QED  BY <1>4, <1>5, <1>6, <1>7, StepPromise

LEMMA PromisedStepping ==
    ASSUME OrderInv, "lost" \notin Responses, [Next]_vars
    PROVE  [Promised!Next]_(Promised!vars)
<1>1. CASE SubmitSome
  BY <1>1, PromisedSubmit DEF Promised!Next
<1>2. CASE \E s \in Stacks : PoolStep(s)
  BY <1>2, PromisedStep DEF Promised!vars, Seen
<1>3. CASE UNCHANGED vars
  <2>1. UNCHANGED <<ops, status, top, cell, fatal>>
    BY <1>3 DEF vars, tenant, poolVars
  <2>2. Promised!vars' = Promised!vars
    BY <2>1 DEF Promised!vars
  <2> QED  BY <2>2
<1> QED  BY <1>1, <1>2, <1>3 DEF Next

(* Where no answer is lost, the pool implements CellWrites: its queues,    *)
(* slots and coalescing show in the tenant as calls that land the writes   *)
(* of a cell in order, behind the version adds planned before them         *)
(* (execute-write-pool.ts:82-107).                                         *)
THEOREM PoolImplementsCellWrites ==
    ASSUME "lost" \notin Responses
    PROVE  Spec => ImplementsCellWrites
<1>1. Init => Promised!Init
  BY PromisedInit
<1>2. OrderInv /\ [Next]_vars => [Promised!Next]_(Promised!vars)
  BY PromisedStepping
<1> QED  BY <1>1, <1>2, QueueInvariant, PTL DEF Spec, ImplementsCellWrites, Promised!Spec

(* A field write is not sent before the version adds enqueued before it on *)
(* its stack have their outcome, unless the push is doomed (enqueueAdd     *)
(* closes the open cell tasks).                                            *)
THEOREM AddsBeforeWrites == Spec => []AddsLandFirst
  BY QueueInvariant, InvAddsLandFirst, PTL

(* A drained pool leaves in every cell what its last applied write carries *)
(* (the joins of enqueueCell, the merged call and its isolation).          *)
THEOREM CellsAsSequential == Spec => []SameAsSequential
  BY QueueInvariant, InvSameAsSequential, PTL

(* A drained pool that met nothing fatal has an outcome for every write,   *)
(* and the applied list, which the rollback walks, holds each applied      *)
(* operation exactly once.                                                 *)
THEOREM OutcomesAccounted == Spec => []EveryWriteAccounted
  BY QueueInvariant, InvEveryWriteAccounted, PTL

=============================================================================
