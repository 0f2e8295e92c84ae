-------------------------- MODULE WritePool_proofs --------------------------
(***************************************************************************)
(* The pool's two invariants, for any items, languages and number of       *)
(* slots, preserved by every step of the pool and by every enqueue,        *)
(* whatever the client that calls it: PoolInv, about tasks and slots, and  *)
(* QueueInv, about the order and the fate of the queued operations.        *)
(* WritePoolClient_proofs and RecipeExecutor_proofs turn the lemmas into   *)
(* theorems of a specification.                                            *)
(***************************************************************************)
EXTENDS WritePool, FiniteSetTheorems, TLAPS

(* What the scheduling steps maintain ...                                  *)
StacksInv ==
    /\ chain \in [Stacks -> Seq(Task)]
    /\ at \in [Stacks -> {"idle", "waiting", "woken"} \cup InFlight]
    /\ step \in [Stacks -> Nat]
    /\ active \in Nat
    /\ waiters \in Seq(Stacks)
    /\ TasksKnown
    /\ HeadRuns
    /\ SemaphoreExact
    /\ NoIdleSlot

(* ... and what the answers do.                                            *)
ResultsInv ==
    /\ present \subseteq Items
    /\ top \in [Stacks -> Nat]
    /\ cell \in [Stacks -> [Versions -> Values]]
    /\ ops \in Seq(Op)
    /\ status \in Seq(Status)
    /\ fatal \in Nat
    /\ applied \in Seq(Nat \ {0})
    /\ ResultsKnown

PoolInv == StacksInv /\ ResultsInv

-----------------------------------------------------------------------------
(* Sequences.                                                              *)

LEMMA SeqOfFunction ==
    ASSUME NEW S, NEW q \in Seq(S), NEW f, DOMAIN f = DOMAIN q,
           f = [k \in DOMAIN q |-> f[k]],
           \A k \in DOMAIN q : f[k] \in S
    PROVE  f \in Seq(S) /\ Len(f) = Len(q)
<1>1. DOMAIN q = 1 .. Len(q) /\ Len(q) \in Nat
  OBVIOUS
<1>2. f \in [1 .. Len(q) -> S]
  BY <1>1
<1> QED  BY <1>1, <1>2

LEMMA SingletonFacts ==
    ASSUME NEW x
    PROVE  <<x>> # <<>> /\ \A j \in DOMAIN <<x>> : <<x>>[j] = x
  OBVIOUS

LEMMA AppendFacts ==
    ASSUME NEW S, NEW q \in Seq(S), NEW x \in S
    PROVE  /\ Append(q, x) \in Seq(S)
           /\ Append(q, x) # <<>>
           /\ DOMAIN Append(q, x) = DOMAIN q \cup {Len(q) + 1}
           /\ Len(Append(q, x)) = Len(q) + 1
           /\ Append(q, x)[Len(q) + 1] = x
           /\ \A k \in DOMAIN q : Append(q, x)[k] = q[k]
  OBVIOUS

LEMMA TailFacts ==
    ASSUME NEW S, NEW q \in Seq(S), q # <<>>
    PROVE  /\ Head(q) = q[1] /\ Head(q) \in S
           /\ 1 \in DOMAIN q
           /\ Tail(q) \in Seq(S)
           /\ Len(Tail(q)) = Len(q) - 1
           /\ \A k \in DOMAIN Tail(q) : k + 1 \in DOMAIN q /\ Tail(q)[k] = q[k + 1]
           /\ \A k \in DOMAIN q : k = 1 \/ (k - 1 \in DOMAIN Tail(q) /\ Tail(q)[k - 1] = q[k])
  OBVIOUS

(* Closing cells changes nothing but the open flags.                       *)
LEMMA CloseCellsKeeps ==
    ASSUME NEW q \in Seq(Task), NEW vs
    PROVE  /\ CloseCells(q, vs) \in Seq(Task)
           /\ Len(CloseCells(q, vs)) = Len(q)
           /\ \A k \in DOMAIN q :
                 /\ CloseCells(q, vs)[k].entries = q[k].entries
                 /\ CloseCells(q, vs)[k].kind = q[k].kind
<1> DEFINE c == CloseCells(q, vs)
<1>1. /\ DOMAIN c = DOMAIN q
      /\ c = [k \in DOMAIN q |-> c[k]]
  BY DEF CloseCells
<1>2. \A k \in DOMAIN q : c[k] = q[k] \/ c[k] = [q[k] EXCEPT !.open = FALSE]
  BY DEF CloseCells
<1>3. ASSUME NEW k \in DOMAIN q
      PROVE  /\ c[k] \in Task
             /\ c[k].entries = q[k].entries
             /\ c[k].kind = q[k].kind
  <2>1. q[k] \in Task
    OBVIOUS
  <2>2. c[k] = q[k] \/ c[k] = [q[k] EXCEPT !.open = FALSE]
    BY <1>2
  <2> HIDE DEF c
  <2>3. CASE c[k] = q[k]
    BY <2>1, <2>3
  <2>4. CASE c[k] = [q[k] EXCEPT !.open = FALSE]
    BY <2>1, <2>4 DEF Task
  <2> QED  BY <2>2, <2>3, <2>4
<1>4. c \in Seq(Task) /\ Len(c) = Len(q)
  <2> HIDE DEF c
  <2> QED  BY <1>1, <1>3, SeqOfFunction
<1> QED  BY <1>3, <1>4

-----------------------------------------------------------------------------
(* The semaphore.                                                          *)

LEMMA StacksFinite == IsFiniteSet(Stacks)
  BY PoolAssumption, FS_Product DEF Stacks

LEMMA BusyFinite ==
    /\ IsFiniteSet(Busy) /\ Cardinality(Busy) \in Nat
    /\ IsFiniteSet(Woken) /\ Cardinality(Woken) \in Nat
<1>1. Busy \subseteq Stacks /\ Woken \subseteq Stacks
  BY DEF Busy, Woken
<1>2. IsFiniteSet(Busy) /\ IsFiniteSet(Woken)
  BY <1>1, StacksFinite, FS_Subset
<1> QED  BY <1>2, FS_CardinalityType

(* Every stack but s keeps its tasks; s goes on with the rest of its own.  *)
LEMMA TailKeepsTasks ==
    ASSUME StacksInv, NEW s \in Stacks, UNCHANGED ops, chain[s] # <<>>,
           chain' = [chain EXCEPT ![s] = Tail(chain[s])]
    PROVE  chain' \in [Stacks -> Seq(Task)] /\ TasksKnown'
<1>1. chain[s] \in Seq(Task)
  BY DEF StacksInv
<1>2. /\ Tail(chain[s]) \in Seq(Task)
      /\ \A k \in DOMAIN Tail(chain[s]) :
            k + 1 \in DOMAIN chain[s] /\ Tail(chain[s])[k] = chain[s][k + 1]
  BY <1>1, TailFacts
<1>3. chain' \in [Stacks -> Seq(Task)]
  BY <1>2 DEF StacksInv
<1>4. chain'[s] = Tail(chain[s]) /\ \A t \in Stacks : t # s => chain'[t] = chain[t]
  BY DEF StacksInv
<1>5. TasksKnown'
  <2>1. ASSUME NEW k \in DOMAIN chain'[s]
        PROVE  /\ chain'[s][k].entries # <<>>
               /\ \A j \in DOMAIN chain'[s][k].entries :
                     chain'[s][k].entries[j] \in DOMAIN ops'
    BY <1>2, <1>4 DEF StacksInv, TasksKnown
  <2> QED  BY <1>4, <2>1 DEF StacksInv, TasksKnown
<1> QED  BY <1>3, <1>5

LEMMA BeginKeeps ==
    ASSUME StacksInv, NEW s \in Stacks, UNCHANGED ops,
           (Ready(s) /\ active < Limit) \/ at[s] = "woken",
           Begin(s)
    PROVE  StacksInv'
<1>1. chain[s] \in Seq(Task) /\ chain[s] # <<>> /\ s \notin Busy
  BY DEF StacksInv, HeadRuns, Ready, Busy, InFlight
<1> DEFINE new == IF Head1(s).kind = "cell"
                  THEN CloseCells(chain[s], {Head1(s).version})
                  ELSE chain[s]
<1>2. /\ new \in Seq(Task)
      /\ Len(new) = Len(chain[s])
      /\ \A k \in DOMAIN chain[s] : new[k].entries = chain[s][k].entries
  BY <1>1, CloseCellsKeeps
<1>3. chain' = [chain EXCEPT ![s] = new]
  BY DEF Begin
<1>4. at' = [at EXCEPT ![s] = FirstCall(Head1(s))] /\ step' = [step EXCEPT ![s] = 1]
      /\ active' = active + 1 /\ waiters' = waiters
  BY DEF Begin
<1> HIDE DEF new
<1>5. FirstCall(Head1(s)) \in InFlight
  BY DEF FirstCall, InFlight
<1>6. /\ chain' \in [Stacks -> Seq(Task)]
      /\ at' \in [Stacks -> {"idle", "waiting", "woken"} \cup InFlight]
      /\ step' \in [Stacks -> Nat]
      /\ active' \in Nat
      /\ waiters' \in Seq(Stacks)
  BY <1>2, <1>3, <1>4, <1>5 DEF StacksInv
<1>7. DOMAIN new = DOMAIN chain[s] /\ new # <<>>
  BY <1>1, <1>2
<1>8. TasksKnown'
  BY <1>1, <1>2, <1>3, <1>7 DEF StacksInv, TasksKnown
<1>9. HeadRuns'
  <2>1. ASSUME NEW t \in Stacks, t # s
        PROVE  chain'[t] = chain[t] /\ at'[t] = at[t] /\ step'[t] = step[t]
    BY <1>3, <1>4, <2>1 DEF StacksInv
  <2>2. chain'[s] = new /\ step'[s] = 1
    BY <1>3, <1>4 DEF StacksInv
  <2>3. 1 \in DOMAIN Head(new).entries
    <3>1. Head(new) = new[1] /\ 1 \in DOMAIN chain[s]
      BY <1>1, <1>2, <1>7
    <3>2. chain[s][1] \in Task
      BY <1>1, <3>1
    <3>3. chain[s][1].entries \in Seq(Nat \ {0})
      BY <3>2 DEF Task
    <3>4. chain[s][1].entries # <<>>
      BY <3>1 DEF StacksInv, TasksKnown
    <3>5. 1 \in DOMAIN chain[s][1].entries
      BY <3>3, <3>4
    <3> QED  BY <1>2, <3>1, <3>5
  <2> QED  BY <1>7, <2>1, <2>2, <2>3 DEF StacksInv, HeadRuns, Head1
<1>10. Busy' = Busy \cup {s} /\ Woken' = Woken \ {s}
  BY <1>4, <1>5 DEF StacksInv, Busy, Woken, InFlight
<1>11. /\ Cardinality(Busy') = Cardinality(Busy) + 1
       /\ Cardinality(Woken') =
             IF s \in Woken THEN Cardinality(Woken) - 1 ELSE Cardinality(Woken)
  BY <1>1, <1>10, BusyFinite, FS_AddElement, FS_RemoveElement
<1>12. SemaphoreExact'
  <2>1. \A t \in Stacks : at'[t] = "waiting" <=> at[t] = "waiting"
    BY <1>4, <1>5 DEF StacksInv, Ready, InFlight
  <2> QED  BY <1>4, <1>11, <2>1 DEF StacksInv, SemaphoreExact, Sleeps
<1>13. NoIdleSlot'
  BY <1>4, <1>11, BusyFinite, PoolAssumption DEF StacksInv, NoIdleSlot
<1> QED  BY <1>6, <1>8, <1>9, <1>12, <1>13 DEF StacksInv

LEMMA AwaitSlotKeeps ==
    ASSUME StacksInv, NEW s \in Stacks, AwaitSlot(s)
    PROVE  StacksInv'
<1>1. /\ at[s] = "idle" /\ chain[s] # <<>> /\ active >= Limit
      /\ waiters' = Append(waiters, s) /\ at' = [at EXCEPT ![s] = "waiting"]
      /\ UNCHANGED <<ops, chain, step, active>>
  BY DEF AwaitSlot, Ready
<1>2. waiters \in Seq(Stacks)
  BY DEF StacksInv
<1>3. /\ chain' \in [Stacks -> Seq(Task)]
      /\ at' \in [Stacks -> {"idle", "waiting", "woken"} \cup InFlight]
      /\ step' \in [Stacks -> Nat]
      /\ active' \in Nat
      /\ waiters' \in Seq(Stacks)
      /\ TasksKnown'
  BY <1>1, <1>2, AppendFacts DEF StacksInv, TasksKnown
<1>4. HeadRuns'
  BY <1>1 DEF StacksInv, HeadRuns, Head1
<1>5. Busy' = Busy /\ Woken' = Woken
  BY <1>1 DEF StacksInv, Busy, Woken, InFlight
<1>6. SemaphoreExact'
  <2>1. ~Sleeps(s)
    BY <1>1 DEF StacksInv, SemaphoreExact
  <2>2. \A t \in Stacks : Sleeps(t)' <=> Sleeps(t) \/ t = s
    BY <1>1, <1>2, AppendFacts DEF Sleeps
  <2>3. \A t \in Stacks : at'[t] = "waiting" <=> at[t] = "waiting" \/ t = s
    BY <1>1 DEF StacksInv
  <2>4. \A j, k \in DOMAIN waiters' : waiters'[j] = waiters'[k] => j = k
    BY <1>1, <1>2, <2>1, AppendFacts DEF StacksInv, SemaphoreExact, Sleeps
  <2> QED  BY <1>1, <1>5, <2>2, <2>3, <2>4 DEF StacksInv, SemaphoreExact
<1>7. NoIdleSlot'
  BY <1>1, <1>5, BusyFinite, PoolAssumption DEF StacksInv, NoIdleSlot
<1> QED  BY <1>3, <1>4, <1>6, <1>7 DEF StacksInv

LEMMA SkipDoomedKeeps ==
    ASSUME StacksInv, NEW s \in Stacks, SkipDoomed(s)
    PROVE  StacksInv'
<1>1. /\ at[s] = "idle" /\ chain[s] # <<>>
      /\ chain' = [chain EXCEPT ![s] = Tail(chain[s])]
      /\ UNCHANGED <<ops, at, step, active, waiters>>
  BY DEF SkipDoomed, Ready
<1>2. chain' \in [Stacks -> Seq(Task)] /\ TasksKnown'
  BY <1>1, TailKeepsTasks
<1>3. HeadRuns'
  BY <1>1 DEF StacksInv, HeadRuns, Head1
<1>4. SemaphoreExact' /\ NoIdleSlot'
  BY <1>1 DEF StacksInv, SemaphoreExact, NoIdleSlot, Busy, Woken, Sleeps
<1> QED  BY <1>1, <1>2, <1>3, <1>4 DEF StacksInv

(* The first sleeper, if there is one, is a stack with work to do.         *)
LEMMA FirstSleeper ==
    ASSUME StacksInv, waiters # <<>>
    PROVE  /\ Head(waiters) \in Stacks
           /\ at[Head(waiters)] = "waiting"
           /\ chain[Head(waiters)] # <<>>
<1>1. waiters \in Seq(Stacks)
  BY DEF StacksInv
<1>2. Head(waiters) \in Stacks /\ Sleeps(Head(waiters))
  BY <1>1, TailFacts DEF Sleeps
<1> QED  BY <1>2 DEF StacksInv, SemaphoreExact, HeadRuns

LEMMA LeaveKeeps ==
    ASSUME StacksInv, NEW s \in Stacks, at[s] \in InFlight, UNCHANGED ops,
           Leave(s)
    PROVE  StacksInv'
<1> DEFINE h == Head(waiters)
<1>1. /\ chain' = [chain EXCEPT ![s] = Tail(chain[s])]
      /\ step' = [step EXCEPT ![s] = 0]
      /\ active' = active - 1
  BY DEF Leave
<1>2. chain[s] # <<>> /\ s \in Busy /\ waiters \in Seq(Stacks)
  BY DEF StacksInv, HeadRuns, InFlight, Busy
<1>3. chain' \in [Stacks -> Seq(Task)] /\ TasksKnown'
  BY <1>1, <1>2, TailKeepsTasks
<1>4. /\ Cardinality(Busy) \in Nat \ {0}
      /\ Cardinality(Busy \ {s}) = Cardinality(Busy) - 1
  BY <1>2, BusyFinite, FS_RemoveElement, FS_EmptySet
<1>5. active' \in Nat
  BY <1>1, <1>4 DEF StacksInv, SemaphoreExact
<1>6. CASE waiters = <<>>
  <2>1. at' = [at EXCEPT ![s] = "idle"] /\ waiters' = <<>>
    BY <1>6 DEF Leave
  <2>2. HeadRuns'
    BY <1>1, <2>1 DEF StacksInv, HeadRuns, Head1
  <2>3. Busy' = Busy \ {s}
    BY <2>1 DEF StacksInv, Busy, InFlight
  <2>4. SemaphoreExact'
    BY <1>1, <1>4, <1>6, <2>1, <2>3 DEF StacksInv, SemaphoreExact, Sleeps, InFlight
  <2>5. NoIdleSlot'
    BY <2>1 DEF NoIdleSlot
  <2>6. /\ at' \in [Stacks -> {"idle", "waiting", "woken"} \cup InFlight]
        /\ step' \in [Stacks -> Nat]
        /\ waiters' \in Seq(Stacks)
    BY <1>1, <1>2, <1>6, <2>1 DEF StacksInv
  <2> QED  BY <1>3, <1>5, <2>2, <2>4, <2>5, <2>6 DEF StacksInv
<1>7. CASE waiters # <<>>
  <2>1. /\ at' = [at EXCEPT ![s] = "idle", ![h] = "woken"]
        /\ waiters' = Tail(waiters)
    BY <1>7 DEF Leave
  <2>2. h \in Stacks /\ at[h] = "waiting" /\ chain[h] # <<>> /\ h # s
    BY <1>7, FirstSleeper DEF InFlight
  <2> HIDE DEF h
  <2>3. /\ at'[s] = "idle" /\ at'[h] = "woken"
        /\ \A t \in Stacks : t \notin {s, h} => at'[t] = at[t]
        /\ at' \in [Stacks -> {"idle", "waiting", "woken"} \cup InFlight]
    BY <2>1, <2>2 DEF StacksInv
  <2>4. /\ \A t \in Stacks : t # s => chain'[t] = chain[t] /\ step'[t] = step[t]
        /\ step' \in [Stacks -> Nat]
    BY <1>1 DEF StacksInv
  <2>5. HeadRuns'
    BY <2>2, <2>3, <2>4 DEF StacksInv, HeadRuns, Head1
  <2>6. Busy' = Busy \ {s} /\ Woken' = Woken \cup {h} /\ h \notin Woken
    BY <2>2, <2>3 DEF Busy, Woken, InFlight
  <2>7. Cardinality(Woken') = Cardinality(Woken) + 1
    BY <2>6, BusyFinite, FS_AddElement
  <2>8. /\ h = waiters[1] /\ 1 \in DOMAIN waiters
        /\ Tail(waiters) \in Seq(Stacks)
        /\ \A k \in DOMAIN Tail(waiters) :
              k + 1 \in DOMAIN waiters /\ Tail(waiters)[k] = waiters[k + 1]
        /\ \A k \in DOMAIN waiters :
              k = 1 \/ (k - 1 \in DOMAIN Tail(waiters)
                        /\ Tail(waiters)[k - 1] = waiters[k])
    BY <1>2, <1>7, TailFacts DEF h
  <2>9. \A t \in Stacks : Sleeps(t)' <=> Sleeps(t) /\ t # h
    <3>1. ASSUME NEW t \in Stacks, Sleeps(t)'
          PROVE  Sleeps(t) /\ t # h
      <4>1. PICK k \in DOMAIN Tail(waiters) : Tail(waiters)[k] = t
        BY <2>1, <3>1 DEF Sleeps
      <4>2. k \in Nat \ {0}
        BY <2>8
      <4> QED  BY <2>8, <4>1, <4>2 DEF StacksInv, SemaphoreExact, Sleeps
    <3>2. ASSUME NEW t \in Stacks, Sleeps(t), t # h
          PROVE  Sleeps(t)'
      <4>1. PICK k \in DOMAIN waiters : waiters[k] = t
        BY <3>2 DEF Sleeps
      <4> QED  BY <2>1, <2>8, <3>2, <4>1 DEF Sleeps
    <3> QED  BY <3>1, <3>2
  <2>10. \A j, k \in DOMAIN waiters' : waiters'[j] = waiters'[k] => j = k
    <3> SUFFICES ASSUME NEW j \in DOMAIN Tail(waiters), NEW k \in DOMAIN Tail(waiters),
                        Tail(waiters)[j] = Tail(waiters)[k]
                 PROVE  j = k
      BY <2>1
    <3>1. j \in Nat /\ k \in Nat
      BY <2>8
    <3>2. j + 1 = k + 1
      BY <2>8 DEF StacksInv, SemaphoreExact
    <3> QED  BY <3>1, <3>2
  <2>11. SemaphoreExact'
    BY <1>1, <1>4, <2>2, <2>3, <2>6, <2>9, <2>10 DEF StacksInv, SemaphoreExact, InFlight
  <2>12. NoIdleSlot'
    BY <1>1, <1>4, <1>7, <2>7, BusyFinite, PoolAssumption
       DEF StacksInv, NoIdleSlot, SemaphoreExact
  <2> QED  BY <1>3, <1>5, <2>1, <2>3, <2>4, <2>5, <2>8, <2>11, <2>12 DEF StacksInv
<1> QED  BY <1>6, <1>7

(* The next call of the same task: the slot stays taken.                   *)
LEMMA ContinueKeeps ==
    ASSUME StacksInv, NEW s \in Stacks, at[s] \in InFlight, UNCHANGED ops,
           NEW mode \in {"single", "adding"}, NEW n \in Nat,
           mode = "single" => n \in DOMAIN Head1(s).entries,
           Continue(s, mode, n)
    PROVE  StacksInv'
<1>1. /\ at' = [at EXCEPT ![s] = mode] /\ step' = [step EXCEPT ![s] = n]
      /\ UNCHANGED <<chain, active, waiters>>
  BY DEF Continue
<1>2. /\ at' \in [Stacks -> {"idle", "waiting", "woken"} \cup InFlight]
      /\ step' \in [Stacks -> Nat]
      /\ TasksKnown'
  BY <1>1 DEF StacksInv, InFlight, TasksKnown
<1>3. HeadRuns'
  BY <1>1 DEF StacksInv, HeadRuns, Head1, InFlight
<1>4. Busy' = Busy /\ Woken' = Woken
  BY <1>1 DEF StacksInv, Busy, Woken, InFlight
<1>5. \A t \in Stacks : at'[t] = "waiting" <=> at[t] = "waiting"
  BY <1>1 DEF StacksInv, InFlight
<1>6. SemaphoreExact' /\ NoIdleSlot'
  BY <1>1, <1>4, <1>5 DEF StacksInv, SemaphoreExact, NoIdleSlot, Sleeps
<1> QED  BY <1>1, <1>2, <1>3, <1>6 DEF StacksInv

-----------------------------------------------------------------------------
(* Answers.                                                                *)

(* A task's entries are operations.                                        *)
LEMMA HeadEntries ==
    ASSUME PoolInv, NEW s \in Stacks, chain[s] # <<>>
    PROVE  /\ Head1(s) \in Task
           /\ Head1(s).entries \in Seq(Nat \ {0})
           /\ Head1(s).entries # <<>>
           /\ \A j \in DOMAIN Head1(s).entries : Head1(s).entries[j] \in DOMAIN ops
<1>1. chain[s] \in Seq(Task)
  BY DEF PoolInv, StacksInv
<1>2. Head1(s) = chain[s][1] /\ 1 \in DOMAIN chain[s] /\ Head1(s) \in Task
  BY <1>1, TailFacts DEF Head1
<1>3. Head1(s).entries \in Seq(Nat \ {0})
  BY <1>2 DEF Task
<1> QED  BY <1>2, <1>3 DEF PoolInv, StacksInv, TasksKnown

LEMMA OpFacts ==
    ASSUME ResultsInv, NEW i \in DOMAIN ops
    PROVE  /\ ops[i] \in Op
           /\ i \in Nat \ {0}
           /\ i \in DOMAIN status
  BY DEF ResultsInv, ResultsKnown

LEMMA WriteKeepsTenant ==
    ASSUME ResultsInv, NEW s \in Stacks, NEW v \in Versions, NEW i \in DOMAIN ops,
           NEW r, Write(s, v, i, r)
    PROVE  /\ present' \subseteq Items
           /\ top' \in [Stacks -> Nat]
           /\ cell' \in [Stacks -> [Versions -> Values]]
<1>1. ops[i].value \in Values
  BY OpFacts DEF Op
<1>2. cell \in [Stacks -> [Versions -> Values]]
  BY DEF ResultsInv
<1>3. cell' = cell \/ cell' = [cell EXCEPT ![s] = [cell[s] EXCEPT ![v] = ops[i].value]]
  BY DEF Write
<1>4. [cell[s] EXCEPT ![v] = ops[i].value] \in [Versions -> Values]
  BY <1>1, <1>2
<1>5. cell' \in [Stacks -> [Versions -> Values]]
  BY <1>2, <1>3, <1>4
<1> QED  BY <1>5 DEF ResultsInv, Write

(* The outcome of one operation.                                           *)
LEMMA RecordKeeps ==
    ASSUME ResultsInv, NEW i \in DOMAIN ops, NEW r, UNCHANGED ops,
           RecordAnswer(i, r)
    PROVE  /\ status' \in Seq(Status)
           /\ fatal' \in Nat
           /\ applied' \in Seq(Nat \ {0})
           /\ ResultsKnown'
<1>1. /\ status \in Seq(Status) /\ applied \in Seq(Nat \ {0}) /\ fatal \in Nat
      /\ i \in Nat \ {0} /\ i \in DOMAIN status
  BY OpFacts DEF ResultsInv
<1>2. /\ \A st \in Status : [status EXCEPT ![i] = st] \in Seq(Status)
      /\ \A st : Len([status EXCEPT ![i] = st]) = Len(status)
  BY <1>1
<1>3. CASE r = "ok"
  <2>1. /\ applied' = Append(applied, i) /\ fatal' = fatal
        /\ status' = [status EXCEPT ![i] = "applied"]
    BY <1>3 DEF RecordAnswer
  <2>2. /\ applied' \in Seq(Nat \ {0})
        /\ \A k \in DOMAIN applied' : applied'[k] = i \/ (k \in DOMAIN applied /\ applied'[k] = applied[k])
    BY <1>1, <2>1, AppendFacts
  <2>3. ResultsKnown'
    BY <1>2, <2>1, <2>2 DEF ResultsInv, ResultsKnown
  <2>4. status' \in Seq(Status)
    BY <1>2, <2>1 DEF Status
  <2> QED  BY <1>1, <2>1, <2>2, <2>3, <2>4
<1>4. CASE r # "ok"
  <2> DEFINE st == IF Skippable(i, r) THEN "skip" ELSE "error"
  <2>1. /\ applied' = applied /\ fatal' = FatalAfter(i, r)
        /\ status' = [status EXCEPT ![i] = st]
    BY <1>4 DEF RecordAnswer
  <2>2. st \in Status
    BY DEF Status
  <2>3. fatal' \in Nat
    BY <1>1, <2>1 DEF FatalAfter
  <2> HIDE DEF st
  <2>4. ResultsKnown'
    BY <1>2, <2>1 DEF ResultsInv, ResultsKnown
  <2> QED  BY <1>1, <1>2, <2>1, <2>2, <2>3, <2>4
<1> QED  BY <1>3, <1>4

LEMMA AnswerMergedKeeps ==
    ASSUME PoolInv, NEW s \in Stacks, AnswerMerged(s)
    PROVE  PoolInv'
<1> DEFINE t == Head1(s)
<1>1. at[s] = "merged" /\ at[s] \in InFlight /\ ops' = ops /\ fatal' = fatal
  BY DEF AnswerMerged, InFlight
<1>2. chain[s] # <<>>
  BY <1>1 DEF PoolInv, StacksInv, HeadRuns
<1>3. /\ t \in Task /\ t.entries \in Seq(Nat \ {0}) /\ t.entries # <<>>
      /\ \A j \in DOMAIN t.entries : t.entries[j] \in DOMAIN ops
  BY <1>2, HeadEntries
<1>4. t.version \in Versions
  BY <1>3 DEF Task
<1>5. PICK r \in Answers(s, t.version) :
          /\ Write(s, t.version, Topmost(t), r)
          /\ IF r = "ok"
             THEN /\ applied' = applied \o t.entries
                  /\ status' = [i \in DOMAIN status |->
                                  IF \E k \in DOMAIN t.entries : t.entries[k] = i
                                  THEN "applied" ELSE status[i]]
                  /\ Leave(s)
             ELSE /\ IF fatal = 0 THEN Continue(s, "single", 1) ELSE Leave(s)
                  /\ UNCHANGED <<applied, status>>
  BY DEF AnswerMerged
<1> HIDE DEF t
<1>6. 1 \in DOMAIN t.entries /\ Len(t.entries) \in DOMAIN t.entries
  BY <1>3
<1>7. Topmost(t) \in DOMAIN ops
  BY <1>3, <1>6 DEF Topmost
<1>8. /\ present' \subseteq Items
      /\ top' \in [Stacks -> Nat]
      /\ cell' \in [Stacks -> [Versions -> Values]]
  BY <1>4, <1>5, <1>7, WriteKeepsTenant DEF PoolInv
<1>9. StacksInv'
  <2>1. CASE Leave(s)
    BY <1>1, <2>1, LeaveKeeps DEF PoolInv
  <2>2. CASE Continue(s, "single", 1)
    BY <1>1, <1>6, <2>2, ContinueKeeps DEF PoolInv, t
  <2> QED  BY <1>5, <2>1, <2>2
<1>10. status' \in Seq(Status) /\ applied' \in Seq(Nat \ {0}) /\ ResultsKnown'
  <2>1. status \in Seq(Status) /\ applied \in Seq(Nat \ {0}) /\ ResultsKnown
    BY DEF PoolInv, ResultsInv
  <2>2. CASE r = "ok"
    <3>1. applied' = applied \o t.entries
      BY <1>5, <2>2
    <3>2. /\ applied' \in Seq(Nat \ {0})
          /\ \A k \in DOMAIN applied' :
                \/ k \in DOMAIN applied /\ applied'[k] = applied[k]
                \/ k - Len(applied) \in DOMAIN t.entries
                   /\ applied'[k] = t.entries[k - Len(applied)]
      BY <1>3, <2>1, <3>1
    <3>3. /\ status' = [i \in DOMAIN status |->
                          IF \E k \in DOMAIN t.entries : t.entries[k] = i
                          THEN "applied" ELSE status[i]]
      BY <1>5, <2>2
    <3>4. /\ DOMAIN status' = DOMAIN status
          /\ status' = [i \in DOMAIN status |-> status'[i]]
          /\ \A i \in DOMAIN status : status'[i] \in Status
      BY <2>1, <3>3 DEF Status
    <3>5. status' \in Seq(Status) /\ Len(status') = Len(status)
      BY <2>1, <3>4, SeqOfFunction
    <3>6. ResultsKnown'
      BY <1>1, <1>3, <2>1, <3>2, <3>5 DEF ResultsKnown
    <3> QED  BY <3>2, <3>5, <3>6
  <2>3. CASE r # "ok"
    BY <1>1, <1>5, <2>1, <2>3 DEF ResultsKnown
  <2> QED  BY <2>2, <2>3
<1> QED  BY <1>1, <1>8, <1>9, <1>10 DEF PoolInv, ResultsInv

LEMMA AnswerSingleKeeps ==
    ASSUME PoolInv, NEW s \in Stacks, AnswerSingle(s)
    PROVE  PoolInv'
<1> DEFINE t == Head1(s)
           i == t.entries[step[s]]
<1>1. at[s] = "single" /\ at[s] \in InFlight /\ ops' = ops
  BY DEF AnswerSingle, InFlight
<1>2. chain[s] # <<>> /\ step[s] \in DOMAIN t.entries
  BY <1>1 DEF PoolInv, StacksInv, HeadRuns
<1>3. t \in Task /\ t.entries \in Seq(Nat \ {0}) /\ i \in DOMAIN ops
  BY <1>2, HeadEntries
<1>4. t.version \in Versions
  BY <1>3 DEF Task
<1>5. PICK r \in Answers(s, t.version) :
          /\ Write(s, t.version, i, r)
          /\ RecordAnswer(i, r)
          /\ IF MoreEntries(s, r)
             THEN Continue(s, "single", step[s] + 1)
             ELSE Leave(s)
  BY DEF AnswerSingle
<1>6. MoreEntries(s, r) => step[s] + 1 \in DOMAIN t.entries
  BY <1>2, <1>3 DEF MoreEntries
<1> HIDE DEF t, i
<1>7. /\ present' \subseteq Items
      /\ top' \in [Stacks -> Nat]
      /\ cell' \in [Stacks -> [Versions -> Values]]
  BY <1>3, <1>4, <1>5, WriteKeepsTenant DEF PoolInv
<1>8. /\ status' \in Seq(Status) /\ fatal' \in Nat
      /\ applied' \in Seq(Nat \ {0}) /\ ResultsKnown'
  BY <1>1, <1>3, <1>5, RecordKeeps DEF PoolInv
<1>9. StacksInv'
  <2>1. CASE MoreEntries(s, r)
    <3>1. step[s] + 1 \in Nat /\ Continue(s, "single", step[s] + 1)
      BY <1>5, <2>1 DEF PoolInv, StacksInv
    <3> QED  BY <1>1, <1>6, <2>1, <3>1, ContinueKeeps DEF PoolInv, t
  <2>2. CASE ~MoreEntries(s, r)
    BY <1>1, <1>5, <2>2, LeaveKeeps DEF PoolInv
  <2> QED  BY <2>1, <2>2
<1> QED  BY <1>1, <1>7, <1>8, <1>9 DEF PoolInv, ResultsInv

LEMMA AnswerAddKeeps ==
    ASSUME PoolInv, NEW s \in Stacks, AnswerAdd(s)
    PROVE  PoolInv'
<1> DEFINE i == Head1(s).entries[1]
<1>1. /\ at[s] = "adding" /\ at[s] \in InFlight
      /\ UNCHANGED <<present, cell, ops>>
  BY DEF AnswerAdd, InFlight
<1>2. chain[s] # <<>>
  BY <1>1 DEF PoolInv, StacksInv, HeadRuns
<1>3. i \in DOMAIN ops
  BY <1>2, HeadEntries
<1>4. PICK r \in Answers(s, 0) :
          /\ top' = IF Landed(r) THEN [top EXCEPT ![s] = top[s] + 1] ELSE top
          /\ IF r = "ok" /\ step[s] < ops[i].count
             THEN /\ Continue(s, "adding", step[s] + 1)
                  /\ UNCHANGED <<applied, status, fatal>>
             ELSE /\ RecordAnswer(i, r)
                  /\ Leave(s)
  BY DEF AnswerAdd
<1> HIDE DEF i
<1>5. top' \in [Stacks -> Nat]
  BY <1>4 DEF PoolInv, ResultsInv
<1>6. CASE Continue(s, "adding", step[s] + 1) /\ UNCHANGED <<applied, status, fatal>>
  <2>1. step[s] + 1 \in Nat
    BY DEF PoolInv, StacksInv
  <2>2. StacksInv'
    BY <1>1, <1>6, <2>1, ContinueKeeps DEF PoolInv
  <2> QED  BY <1>1, <1>5, <1>6, <2>2 DEF PoolInv, ResultsInv, ResultsKnown
<1>7. CASE RecordAnswer(i, r) /\ Leave(s)
  <2>1. StacksInv'
    BY <1>1, <1>7, LeaveKeeps DEF PoolInv
  <2>2. /\ status' \in Seq(Status) /\ fatal' \in Nat
        /\ applied' \in Seq(Nat \ {0}) /\ ResultsKnown'
    BY <1>1, <1>3, <1>7, RecordKeeps DEF PoolInv
  <2> QED  BY <1>1, <1>5, <2>1, <2>2 DEF PoolInv, ResultsInv
<1> QED  BY <1>4, <1>6, <1>7

LEMMA PoolStepKeeps ==
    ASSUME PoolInv, NEW s \in Stacks, PoolStep(s)
    PROVE  PoolInv'
<1>1. CASE SkipDoomed(s) \/ AwaitSlot(s)
  <2>1. StacksInv'
    BY <1>1, SkipDoomedKeeps, AwaitSlotKeeps DEF PoolInv
  <2>2. UNCHANGED <<tenant, ops, status, fatal, applied>>
    BY <1>1 DEF SkipDoomed, AwaitSlot
  <2> QED  BY <2>1, <2>2 DEF PoolInv, ResultsInv, ResultsKnown, tenant
<1>2. CASE StartNow(s) \/ Resume(s)
  <2>1. /\ Begin(s)
        /\ (Ready(s) /\ active < Limit) \/ at[s] = "woken"
    BY <1>2 DEF StartNow, Resume
  <2>2. UNCHANGED <<tenant, ops, status, fatal, applied>>
    BY <2>1 DEF Begin
  <2>3. StacksInv'
    BY <2>1, <2>2, BeginKeeps DEF PoolInv
  <2> QED  BY <2>2, <2>3 DEF PoolInv, ResultsInv, ResultsKnown, tenant
<1>3. CASE Answer(s)
  BY <1>3, AnswerMergedKeeps, AnswerSingleKeeps, AnswerAddKeeps DEF Answer
<1> QED  BY <1>1, <1>2, <1>3 DEF PoolStep, Proceed

-----------------------------------------------------------------------------
(* The client's part: an operation is recorded, and maybe enqueued.        *)

LEMMA RecordedOp ==
    ASSUME ResultsInv, NEW o \in Op, NEW st \in Status,
           ops' = Append(ops, o), status' = Append(status, st),
           UNCHANGED <<tenant, fatal, applied>>
    PROVE  /\ ResultsInv'
           /\ DOMAIN ops' = DOMAIN ops \cup {Len(ops) + 1}
           /\ Len(ops) + 1 \in Nat \ {0}
<1>1. /\ ops \in Seq(Op) /\ status \in Seq(Status) /\ Len(status) = Len(ops)
  BY DEF ResultsInv, ResultsKnown
<1>2. /\ ops' \in Seq(Op) /\ Len(ops') = Len(ops) + 1
      /\ DOMAIN ops' = DOMAIN ops \cup {Len(ops) + 1}
  BY <1>1, AppendFacts
<1>3. status' \in Seq(Status) /\ Len(status') = Len(status) + 1
  BY <1>1, AppendFacts
<1>4. ResultsKnown'
  BY <1>1, <1>2, <1>3 DEF ResultsInv, ResultsKnown
<1>5. Len(ops) + 1 \in Nat \ {0}
  BY <1>1
<1> QED  BY <1>2, <1>3, <1>4, <1>5 DEF ResultsInv, tenant

(* Adding a task at the end, or operations to a task, disturbs nothing.    *)
LEMMA EnqueuedTasks ==
    ASSUME PoolInv, NEW o \in Op, NEW st \in Status,
           ops' = Append(ops, o), status' = Append(status, st), UNCHANGED tenant,
           Enqueue(Len(ops) + 1, o)
    PROVE  /\ chain' \in [Stacks -> Seq(Task)]
           /\ TasksKnown'
           /\ \A s \in Stacks : chain[s] # <<>> =>
                 /\ chain'[s] # <<>>
                 /\ \A j \in DOMAIN Head1(s).entries : j \in DOMAIN Head1(s)'.entries
<1> DEFINE i == Len(ops) + 1
           s == o.stack
           v == o.version
           q == chain[s]
<1>1. /\ DOMAIN ops' = DOMAIN ops \cup {i} /\ i \in Nat \ {0}
  <2>1. ResultsInv /\ UNCHANGED <<tenant, fatal, applied>>
    BY DEF PoolInv, Enqueue
  <2> QED  BY <2>1, RecordedOp
<1>2. s \in Stacks /\ v \in Versions
  BY DEF Op
<1>3. chain \in [Stacks -> Seq(Task)] /\ q \in Seq(Task)
  BY <1>2 DEF PoolInv, StacksInv
<1>4. \A t \in Stacks : \A k \in DOMAIN chain[t] :
         /\ chain[t][k] \in Task
         /\ chain[t][k].entries \in Seq(Nat \ {0})
         /\ chain[t][k].entries # <<>>
         /\ \A j \in DOMAIN chain[t][k].entries :
               chain[t][k].entries[j] \in DOMAIN ops
  <2>1. \A t \in Stacks : \A k \in DOMAIN chain[t] : chain[t][k] \in Task
    BY <1>3
  <2>2. \A x \in Task : x.entries \in Seq(Nat \ {0})
    BY DEF Task
  <2> QED  BY <2>1, <2>2 DEF PoolInv, StacksInv, TasksKnown
<1> DEFINE Good(new) ==
      /\ new \in Seq(Task)
      /\ \A k \in DOMAIN new :
            /\ new[k].entries # <<>>
            /\ \A j \in DOMAIN new[k].entries : new[k].entries[j] \in DOMAIN ops'
      /\ DOMAIN q \subseteq DOMAIN new
      /\ \A k \in DOMAIN q : \A j \in DOMAIN q[k].entries : j \in DOMAIN new[k].entries
<1>5. ASSUME NEW new, Good(new), chain' = [chain EXCEPT ![s] = new]
      PROVE  /\ chain' \in [Stacks -> Seq(Task)]
             /\ TasksKnown'
             /\ \A t \in Stacks : chain[t] # <<>> =>
                   /\ chain'[t] # <<>>
                   /\ \A j \in DOMAIN Head1(t).entries : j \in DOMAIN Head1(t)'.entries
  <2>1. chain' \in [Stacks -> Seq(Task)] /\ chain'[s] = new
        /\ \A t \in Stacks : t # s => chain'[t] = chain[t]
    BY <1>2, <1>3, <1>5
  <2>2. TasksKnown'
    BY <1>1, <1>4, <1>5, <2>1 DEF TasksKnown
  <2>3. ASSUME NEW t \in Stacks, chain[t] # <<>>
        PROVE  /\ chain'[t] # <<>>
               /\ \A j \in DOMAIN Head1(t).entries : j \in DOMAIN Head1(t)'.entries
    <3>1. CASE t # s
      BY <2>1, <2>3, <3>1 DEF Head1
    <3>2. CASE t = s
      <4>1. 1 \in DOMAIN q /\ Head(q) = q[1]
        BY <1>3, <2>3, <3>2
      <4>2. 1 \in DOMAIN new /\ new # <<>> /\ Head(new) = new[1]
        BY <1>5, <4>1
      <4> QED  BY <1>5, <2>1, <3>2, <4>1, <4>2 DEF Head1
    <3> QED  BY <3>1, <3>2
  <2> QED  BY <2>1, <2>2, <2>3
<1>6. CASE fatal # 0
  <2>1. chain' = chain
    BY <1>6 DEF Enqueue
  <2>2. TasksKnown'
    BY <1>1, <1>4, <2>1 DEF TasksKnown
  <2> QED  BY <1>3, <2>1, <2>2 DEF Head1
<1> HIDE DEF i, s, v
<1>7. \A x \in {"cell", "add"}, b \in BOOLEAN :
         [kind |-> x, version |-> v, entries |-> <<i>>, open |-> b] \in Task
  <2>1. <<i>> \in Seq(Nat \ {0})
    BY <1>1
  <2> QED  BY <1>2, <2>1 DEF Task
<1>8. CASE fatal = 0 /\ o.kind = "add"
  <2> DEFINE c == CloseCells(q, Versions)
             x == [kind |-> "add", version |-> v, entries |-> <<i>>, open |-> FALSE]
  <2>1. chain' = [chain EXCEPT ![s] = Append(c, x)]
    BY <1>8 DEF Enqueue, EnqueueAdd, i, s, v
  <2>2. /\ c \in Seq(Task) /\ Len(c) = Len(q)
        /\ \A k \in DOMAIN q : c[k].entries = q[k].entries
    BY <1>3, CloseCellsKeeps
  <2>3. x \in Task /\ x.entries # <<>> /\ \A j \in DOMAIN x.entries : x.entries[j] = i
    <3>1. x \in Task /\ x.entries = <<i>>
      BY <1>7
    <3> QED  BY <3>1, SingletonFacts
  <2> HIDE DEF c, x
  <2>4. /\ Append(c, x) \in Seq(Task)
        /\ DOMAIN Append(c, x) = DOMAIN c \cup {Len(c) + 1}
        /\ Append(c, x)[Len(c) + 1] = x
        /\ \A k \in DOMAIN c : Append(c, x)[k] = c[k]
    BY <2>2, <2>3, AppendFacts
  <2>5. DOMAIN c = DOMAIN q
    BY <1>3, <2>2
  <2>6. ASSUME NEW k \in DOMAIN Append(c, x)
        PROVE  /\ Append(c, x)[k].entries # <<>>
               /\ \A j \in DOMAIN Append(c, x)[k].entries :
                     Append(c, x)[k].entries[j] \in DOMAIN ops'
    <3>1. CASE k \in DOMAIN q
      <4>1. Append(c, x)[k].entries = q[k].entries
        BY <2>2, <2>4, <2>5, <3>1
      <4> QED  BY <1>1, <1>2, <1>4, <3>1, <4>1
    <3>2. CASE k = Len(c) + 1
      BY <1>1, <2>3, <2>4, <3>2
    <3> QED  BY <2>4, <2>5, <3>1, <3>2
  <2>7. \A k \in DOMAIN q : k \in DOMAIN Append(c, x)
                             /\ Append(c, x)[k].entries = q[k].entries
    BY <2>2, <2>4, <2>5
  <2>8. Good(Append(c, x))
    BY <2>4, <2>6, <2>7
  <2> HIDE DEF Good
  <2> QED  BY <1>5, <2>1, <2>8
<1>9. CASE fatal = 0 /\ o.kind # "add" /\ Joins(s, v) = {}
  <2> DEFINE x == [kind |-> "cell", version |-> v, entries |-> <<i>>, open |-> TRUE]
  <2>1. chain' = [chain EXCEPT ![s] = Append(q, x)]
    BY <1>9 DEF Enqueue, EnqueueCell, i, s, v
  <2>2. x \in Task /\ x.entries # <<>> /\ \A j \in DOMAIN x.entries : x.entries[j] = i
    <3>1. x \in Task /\ x.entries = <<i>>
      BY <1>7
    <3> QED  BY <3>1, SingletonFacts
  <2> HIDE DEF x
  <2>3. /\ Append(q, x) \in Seq(Task)
        /\ DOMAIN Append(q, x) = DOMAIN q \cup {Len(q) + 1}
        /\ Append(q, x)[Len(q) + 1] = x
        /\ \A k \in DOMAIN q : Append(q, x)[k] = q[k]
    BY <1>3, <2>2, AppendFacts
  <2>4. ASSUME NEW k \in DOMAIN Append(q, x)
        PROVE  /\ Append(q, x)[k].entries # <<>>
               /\ \A j \in DOMAIN Append(q, x)[k].entries :
                     Append(q, x)[k].entries[j] \in DOMAIN ops'
    <3>1. CASE k \in DOMAIN q
      <4>1. Append(q, x)[k].entries = q[k].entries
        BY <2>3, <3>1
      <4> QED  BY <1>1, <1>2, <1>4, <3>1, <4>1
    <3>2. CASE k = Len(q) + 1
      BY <1>1, <2>2, <2>3, <3>2
    <3> QED  BY <2>3, <3>1, <3>2
  <2>5. \A k \in DOMAIN q : k \in DOMAIN Append(q, x)
                             /\ Append(q, x)[k].entries = q[k].entries
    BY <2>3
  <2>6. Good(Append(q, x))
    BY <2>3, <2>4, <2>5
  <2> HIDE DEF Good
  <2> QED  BY <1>5, <2>1, <2>6
<1>10. CASE fatal = 0 /\ o.kind # "add" /\ Joins(s, v) # {}
  <2> DEFINE new == [k \in DOMAIN q |->
                       IF k \in Joins(s, v)
                       THEN [q[k] EXCEPT !.entries = Append(q[k].entries, i)]
                       ELSE q[k]]
  <2>1. chain' = [chain EXCEPT ![s] = new]
    BY <1>10 DEF Enqueue, EnqueueCell, i, s, v
  <2>2. ASSUME NEW k \in DOMAIN q
        PROVE  /\ new[k] \in Task
               /\ new[k].entries # <<>>
               /\ \A j \in DOMAIN new[k].entries : new[k].entries[j] \in DOMAIN ops'
               /\ \A j \in DOMAIN q[k].entries : j \in DOMAIN new[k].entries
    <3>1. /\ q[k] \in Task /\ q[k].entries \in Seq(Nat \ {0})
          /\ q[k].entries # <<>>
          /\ \A j \in DOMAIN q[k].entries : q[k].entries[j] \in DOMAIN ops
      BY <1>2, <1>4
    <3>2. CASE new[k] = q[k]
      BY <1>1, <3>1, <3>2
    <3>3. CASE new[k] = [q[k] EXCEPT !.entries = Append(q[k].entries, i)]
      <4> DEFINE e == Append(q[k].entries, i)
      <4>0. i \in Nat \ {0} /\ q[k].entries \in Seq(Nat \ {0})
        BY <1>1, <3>1
      <4>1. /\ e \in Seq(Nat \ {0}) /\ e # <<>>
            /\ DOMAIN e = DOMAIN q[k].entries \cup {Len(q[k].entries) + 1}
            /\ e[Len(q[k].entries) + 1] = i
            /\ \A j \in DOMAIN q[k].entries : e[j] = q[k].entries[j]
        <5> HIDE DEF q
        <5> QED  BY <4>0, AppendFacts
      <4> HIDE DEF e
      <4>2. [q[k] EXCEPT !.entries = e] \in Task /\ [q[k] EXCEPT !.entries = e].entries = e
        BY <3>1, <4>1 DEF Task
      <4>3. new[k] \in Task /\ new[k].entries = e
        BY <3>3, <4>2 DEF e
      <4> QED  BY <1>1, <3>1, <4>1, <4>3
    <3> QED  BY <3>2, <3>3
  <2>3. DOMAIN new = DOMAIN q /\ new = [k \in DOMAIN q |-> new[k]]
    OBVIOUS
  <2> HIDE DEF new
  <2>4. new \in Seq(Task)
    BY <1>3, <2>2, <2>3, SeqOfFunction
  <2>5. Good(new)
    BY <2>2, <2>3, <2>4
  <2> QED  BY <1>5, <2>1, <2>5
<1> QED  BY <1>6, <1>8, <1>9, <1>10

LEMMA EnqueueKeeps ==
    ASSUME PoolInv, NEW o \in Op, NEW st \in Status,
           ops' = Append(ops, o), status' = Append(status, st), UNCHANGED tenant,
           Enqueue(Len(ops) + 1, o)
    PROVE  PoolInv'
<1>1. UNCHANGED <<at, step, active, waiters, fatal, applied>>
  BY DEF Enqueue
<1>2. ResultsInv'
  BY <1>1, RecordedOp DEF PoolInv
<1>3. /\ chain' \in [Stacks -> Seq(Task)]
      /\ TasksKnown'
      /\ \A s \in Stacks : chain[s] # <<>> =>
            /\ chain'[s] # <<>>
            /\ \A j \in DOMAIN Head1(s).entries : j \in DOMAIN Head1(s)'.entries
  BY EnqueuedTasks
<1>4. HeadRuns'
  BY <1>1, <1>3 DEF PoolInv, StacksInv, HeadRuns
<1>5. SemaphoreExact' /\ NoIdleSlot'
  BY <1>1 DEF PoolInv, StacksInv, SemaphoreExact, NoIdleSlot, Busy, Woken, Sleeps
<1> QED  BY <1>1, <1>2, <1>3, <1>4, <1>5 DEF PoolInv, StacksInv

(* An operation that needs no call is recorded, and nothing else happens.  *)
LEMMA NoteKeeps ==
    ASSUME PoolInv, NEW o \in Op, NEW st \in Status,
           ops' = Append(ops, o), status' = Append(status, st),
           UNCHANGED <<tenant, poolVars>>
    PROVE  PoolInv'
<1>1. ResultsInv' /\ DOMAIN ops' = DOMAIN ops \cup {Len(ops) + 1}
  BY RecordedOp DEF PoolInv, poolVars
<1>2. StacksInv'
  BY <1>1 DEF PoolInv, StacksInv, TasksKnown, HeadRuns, Head1, SemaphoreExact,
              NoIdleSlot, Busy, Woken, Sleeps, poolVars
<1> QED  BY <1>1, <1>2 DEF PoolInv

LEMMA StutterKeeps ==
    ASSUME PoolInv, UNCHANGED vars
    PROVE  PoolInv'
  BY DEF PoolInv, StacksInv, ResultsInv, ResultsKnown, TasksKnown, HeadRuns, Head1,
         SemaphoreExact, NoIdleSlot, Busy, Woken, Sleeps, vars, tenant, poolVars

(* The pool as it is created.                                              *)
LEMMA InitialPool ==
    ASSUME PoolInit, ops = <<>>, status = <<>>,
           present \subseteq Items,
           top \in [Stacks -> Nat],
           cell \in [Stacks -> [Versions -> Values]]
    PROVE  PoolInv
<1>1. /\ chain = [s \in Stacks |-> <<>>] /\ at = [s \in Stacks |-> "idle"]
      /\ step = [s \in Stacks |-> 0] /\ active = 0 /\ waiters = <<>>
      /\ fatal = 0 /\ applied = <<>>
  BY DEF PoolInit
<1>2. \A S : <<>> \in Seq(S)
  OBVIOUS
<1>3. Busy = {}
  BY <1>1 DEF Busy, InFlight
<1>4. SemaphoreExact
  BY <1>1, <1>3, FS_EmptySet DEF SemaphoreExact, Sleeps
<1>5. StacksInv
  BY <1>1, <1>2, <1>4 DEF StacksInv, TasksKnown, HeadRuns, NoIdleSlot
<1>6. ResultsInv
  BY <1>1, <1>2 DEF ResultsInv, ResultsKnown
<1> QED  BY <1>5, <1>6 DEF PoolInv

LEMMA PoolInvImplies == PoolInv => PoolTypeOK /\ SemaphoreExact /\ NoIdleSlot
  BY DEF PoolInv, StacksInv, ResultsInv, PoolTypeOK

-----------------------------------------------------------------------------
(***************************************************************************)
(* The queues.  A stack's tasks hold the operations of the stack in the    *)
(* order of the program, as far as the pool promises one: across a version *)
(* add and within a cell.  An operation is in one place of one queue until *)
(* it has its outcome, and has no outcome before.                          *)
(***************************************************************************)

(* A task of stack s, of the program p: its operations in order.           *)
InTask(t, s, p) ==
    /\ \A a, b \in DOMAIN t.entries : a < b => t.entries[a] < t.entries[b]
    /\ \A j \in DOMAIN t.entries : p[t.entries[j]].stack = s
    /\ \A j \in DOMAIN t.entries :
          IF t.kind = "add" THEN p[t.entries[j]].kind = "add"
          ELSE p[t.entries[j]].kind = "set" /\ p[t.entries[j]].version = t.version
    /\ t.kind = "add" => ~t.open /\ Len(t.entries) = 1

(* Every operation of t is older than those of u.                          *)
Older(t, u) ==
    \A a \in DOMAIN t.entries, b \in DOMAIN u.entries : t.entries[a] < u.entries[b]

(* What queueing t before u says of their operations: a version add and    *)
(* what is queued before and after it, and two tasks of one cell, keep the *)
(* order of the program, and only the last task of a cell can be joined.   *)
Before(t, u) ==
    /\ t.kind = "add" \/ u.kind = "add" \/ t.version = u.version => Older(t, u)
    /\ t.open => u.kind # "add" /\ u.version # t.version

WellQueued(q, s, p) ==
    \A k \in DOMAIN q :
        /\ InTask(q[k], s, p)
        /\ \A m \in DOMAIN q : k < m => Before(q[k], q[m])

LEMMA TailQueued ==
    ASSUME NEW q \in Seq(Task), q # <<>>, NEW s, NEW p, WellQueued(q, s, p)
    PROVE  WellQueued(Tail(q), s, p)
<1>1. /\ DOMAIN Tail(q) \subseteq Nat
      /\ \A k \in DOMAIN Tail(q) : k + 1 \in DOMAIN q /\ Tail(q)[k] = q[k + 1]
  BY TailFacts
<1>2. \A k, m \in DOMAIN Tail(q) : k < m => k + 1 < m + 1
  BY <1>1
<1> QED  BY <1>1, <1>2 DEF WellQueued

(* The open flags only matter where they are set.                          *)
LEMMA CloseQueued ==
    ASSUME NEW q \in Seq(Task), NEW s, NEW p, NEW vs, WellQueued(q, s, p)
    PROVE  WellQueued(CloseCells(q, vs), s, p)
<1> DEFINE c == CloseCells(q, vs)
<1>1. DOMAIN c = DOMAIN q
  BY DEF CloseCells
<1>2. ASSUME NEW k \in DOMAIN q
      PROVE  /\ c[k].entries = q[k].entries /\ c[k].kind = q[k].kind
             /\ c[k].version = q[k].version /\ (c[k].open => q[k].open)
  <2>1. q[k] \in Task
    OBVIOUS
  <2>2. c[k] = q[k] \/ c[k] = [q[k] EXCEPT !.open = FALSE]
    BY DEF CloseCells
  <2>3. CASE c[k] = [q[k] EXCEPT !.open = FALSE]
    <3> HIDE DEF c
    <3> QED  BY <2>1, <2>3 DEF Task
  <2> QED  BY <2>2, <2>3
<1> HIDE DEF c
<1>3. ASSUME NEW k \in DOMAIN q PROVE InTask(c[k], s, p)
  BY <1>2, <1>3 DEF InTask, WellQueued
<1>4. ASSUME NEW k \in DOMAIN q, NEW m \in DOMAIN q, k < m
      PROVE  Before(c[k], c[m])
  <2>1. Before(q[k], q[m])
    BY <1>4 DEF WellQueued
  <2> QED  BY <1>2, <2>1 DEF Before, Older
<1>5. WellQueued(c, s, p)
  BY <1>1, <1>3, <1>4 DEF WellQueued
<1> QED  BY <1>5 DEF c

-----------------------------------------------------------------------------
(* p2 is the program p with one more operation i.                          *)
Extends(p, p2, i) == i \in Nat \ {0} /\ \A e \in DOMAIN p : e \in Nat /\ e < i /\ p2[e] = p[e]

EntriesIn(q, p) ==
    \A k \in DOMAIN q : \A j \in DOMAIN q[k].entries : q[k].entries[j] \in DOMAIN p

LEMMA SameQueued ==
    ASSUME NEW q \in Seq(Task), NEW s, NEW p, NEW p2, NEW i, Extends(p, p2, i),
           EntriesIn(q, p), WellQueued(q, s, p)
    PROVE  WellQueued(q, s, p2)
<1>1. ASSUME NEW k \in DOMAIN q PROVE InTask(q[k], s, p2)
  <2>1. InTask(q[k], s, p)
    BY DEF WellQueued
  <2>2. \A j \in DOMAIN q[k].entries : p2[q[k].entries[j]] = p[q[k].entries[j]]
    BY DEF EntriesIn, Extends
  <2> QED  BY <2>1, <2>2 DEF InTask
<1> QED  BY <1>1 DEF WellQueued

(* A new last task.                                                        *)
LEMMA AppendQueued ==
    ASSUME NEW q \in Seq(Task), NEW s, NEW p, NEW p2, NEW i, Extends(p, p2, i),
           EntriesIn(q, p), WellQueued(q, s, p),
           NEW u \in Task, u.entries = <<i>>, InTask(u, s, p2),
           \A k \in DOMAIN q : q[k].open => u.kind # "add" /\ u.version # q[k].version
    PROVE  WellQueued(Append(q, u), s, p2)
<1> DEFINE n == Append(q, u)
<1>1. /\ DOMAIN n = DOMAIN q \cup {Len(q) + 1} /\ Len(q) \in Nat
      /\ n[Len(q) + 1] = u /\ \A k \in DOMAIN q : n[k] = q[k]
      /\ \A k \in DOMAIN q : k \in Nat /\ k < Len(q) + 1
  BY AppendFacts
<1> HIDE DEF n
<1>2. WellQueued(q, s, p2)
  BY SameQueued
<1>3. \A j \in DOMAIN u.entries : u.entries[j] = i
  BY SingletonFacts
<1>4. ASSUME NEW k \in DOMAIN q PROVE Before(q[k], u)
  <2>1. \A a \in DOMAIN q[k].entries : q[k].entries[a] \in Nat /\ q[k].entries[a] < i
    BY DEF EntriesIn, Extends
  <2>2. Older(q[k], u)
    BY <2>1, <1>3 DEF Older
  <2> QED  BY <2>2 DEF Before
<1>5. ASSUME NEW k \in DOMAIN n PROVE InTask(n[k], s, p2)
  BY <1>1, <1>2 DEF WellQueued
<1>6. ASSUME NEW k \in DOMAIN n, NEW m \in DOMAIN n, k < m PROVE Before(n[k], n[m])
  <2>1. CASE m \in DOMAIN q
    <3>1. k \in DOMAIN q
      BY <1>1, <1>6, <2>1
    <3> QED  BY <1>1, <1>2, <1>6, <2>1, <3>1 DEF WellQueued
  <2>2. CASE m = Len(q) + 1
    <3>1. k \in DOMAIN q
      BY <1>1, <1>6, <2>2
    <3> QED  BY <1>1, <1>4, <2>2, <3>1
  <2> QED  BY <1>1, <2>1, <2>2
<1>7. WellQueued(n, s, p2)
  BY <1>5, <1>6 DEF WellQueued
<1> QED  BY <1>7 DEF n

(* An operation joins the open task of its cell.                           *)
Joined(q, n, v, i) ==
    /\ DOMAIN n = DOMAIN q
    /\ \A k \in DOMAIN q :
           /\ n[k].kind = q[k].kind /\ n[k].version = q[k].version
           /\ n[k].open = q[k].open
           /\ ~(q[k].open /\ q[k].version = v) => n[k].entries = q[k].entries
           /\ q[k].open /\ q[k].version = v =>
                 n[k].entries = Append(q[k].entries, i)

LEMMA JoinQueued ==
    ASSUME NEW q \in Seq(Task), NEW s, NEW p, NEW p2, NEW i, Extends(p, p2, i),
           EntriesIn(q, p), WellQueued(q, s, p), NEW v,
           p2[i].stack = s, p2[i].kind = "set", p2[i].version = v,
           NEW n, Joined(q, n, v, i)
    PROVE  WellQueued(n, s, p2)
<1>0. DOMAIN n = DOMAIN q
  BY DEF Joined
<1>1. ASSUME NEW k \in DOMAIN q
      PROVE  /\ n[k].kind = q[k].kind /\ n[k].version = q[k].version
             /\ n[k].open = q[k].open
             /\ ~(q[k].open /\ q[k].version = v) => n[k].entries = q[k].entries
             /\ q[k].open /\ q[k].version = v =>
                   n[k].entries = Append(q[k].entries, i)
  BY DEF Joined
<1>2. ASSUME NEW k \in DOMAIN q
      PROVE  /\ q[k].entries \in Seq(Nat \ {0})
             /\ \A j \in DOMAIN q[k].entries :
                   q[k].entries[j] \in Nat /\ q[k].entries[j] < i
                   /\ p2[q[k].entries[j]] = p[q[k].entries[j]]
  <2>1. q[k] \in Task
    OBVIOUS
  <2> QED  BY <2>1 DEF Task, EntriesIn, Extends
<1>3. ASSUME NEW k \in DOMAIN q, NEW j \in DOMAIN n[k].entries
      PROVE  \/ j \in DOMAIN q[k].entries /\ n[k].entries[j] = q[k].entries[j]
             \/ /\ q[k].open /\ q[k].version = v /\ n[k].entries[j] = i
                /\ j = Len(q[k].entries) + 1
  <2>1. CASE ~(q[k].open /\ q[k].version = v)
    BY <1>1, <2>1
  <2>2. CASE q[k].open /\ q[k].version = v
    <3>1. n[k].entries = Append(q[k].entries, i) /\ i \in Nat \ {0}
      BY <1>1, <2>2 DEF Extends
    <3>2. /\ DOMAIN n[k].entries = DOMAIN q[k].entries \cup {Len(q[k].entries) + 1}
          /\ n[k].entries[Len(q[k].entries) + 1] = i
          /\ \A x \in DOMAIN q[k].entries : n[k].entries[x] = q[k].entries[x]
      BY <1>2, <3>1, AppendFacts
    <3> QED  BY <2>2, <3>2
  <2> QED  BY <2>1, <2>2
<1>4. ASSUME NEW k \in DOMAIN q PROVE InTask(n[k], s, p2)
  <2>1. InTask(q[k], s, p)
    BY DEF WellQueued
  <2>2. \A a, b \in DOMAIN n[k].entries : a < b => n[k].entries[a] < n[k].entries[b]
    <3> SUFFICES ASSUME NEW a \in DOMAIN n[k].entries, NEW b \in DOMAIN n[k].entries, a < b
                 PROVE  n[k].entries[a] < n[k].entries[b]
      OBVIOUS
    <3>1. DOMAIN q[k].entries = 1 .. Len(q[k].entries) /\ Len(q[k].entries) \in Nat
      BY <1>2
    <3>2. a \in DOMAIN q[k].entries /\ n[k].entries[a] = q[k].entries[a]
      BY <1>3, <3>1
    <3>3. q[k].entries[a] < i
      BY <1>2, <3>2
    <3>4. CASE b \in DOMAIN q[k].entries /\ n[k].entries[b] = q[k].entries[b]
      BY <2>1, <3>2, <3>4 DEF InTask
    <3>5. CASE n[k].entries[b] = i
      BY <3>2, <3>3, <3>5
    <3> QED  BY <1>3, <3>4, <3>5
  <2>3. ASSUME NEW j \in DOMAIN n[k].entries PROVE p2[n[k].entries[j]].stack = s
    <3>1. CASE j \in DOMAIN q[k].entries /\ n[k].entries[j] = q[k].entries[j]
      BY <1>2, <2>1, <3>1 DEF InTask
    <3> QED  BY <1>3, <3>1
  <2>4. q[k].open => q[k].kind # "add"
    BY <2>1 DEF InTask
  <2>5. \A j \in DOMAIN n[k].entries :
          IF n[k].kind = "add" THEN p2[n[k].entries[j]].kind = "add"
          ELSE p2[n[k].entries[j]].kind = "set"
               /\ p2[n[k].entries[j]].version = n[k].version
    <3> SUFFICES ASSUME NEW j \in DOMAIN n[k].entries
                 PROVE  IF n[k].kind = "add" THEN p2[n[k].entries[j]].kind = "add"
                        ELSE p2[n[k].entries[j]].kind = "set"
                             /\ p2[n[k].entries[j]].version = n[k].version
      OBVIOUS
    <3>1. CASE j \in DOMAIN q[k].entries /\ n[k].entries[j] = q[k].entries[j]
      <4>1. n[k].kind = q[k].kind /\ n[k].version = q[k].version
        BY <1>1
      <4>2. p2[n[k].entries[j]] = p[q[k].entries[j]]
        BY <1>2, <3>1
      <4> QED  BY <2>1, <3>1, <4>1, <4>2 DEF InTask
    <3>2. CASE q[k].open /\ q[k].version = v /\ n[k].entries[j] = i
      BY <1>1, <2>4, <3>2
    <3> QED  BY <1>3, <3>1, <3>2
  <2>6. n[k].kind = "add" => ~n[k].open /\ Len(n[k].entries) = 1
    BY <1>1, <2>1, <2>4 DEF InTask
  <2> QED  BY <2>2, <2>3, <2>5, <2>6 DEF InTask
<1>5. ASSUME NEW k \in DOMAIN q, NEW m \in DOMAIN q, k < m PROVE Before(n[k], n[m])
  <2>1. Before(q[k], q[m])
    BY <1>5 DEF WellQueued
  <2>2. q[k].open => q[k].kind # "add"
    BY DEF WellQueued, InTask
  <2>3. ASSUME n[k].kind = "add" \/ n[m].kind = "add" \/ n[k].version = n[m].version
        PROVE  Older(n[k], n[m])
    <3>1. ~q[k].open /\ Older(q[k], q[m])
      BY <1>1, <2>1, <2>2, <2>3 DEF Before
    <3>2. n[k].entries = q[k].entries
      BY <1>1, <3>1
    <3>3. ASSUME NEW x \in DOMAIN q[k].entries, NEW y \in DOMAIN n[m].entries
          PROVE  q[k].entries[x] < n[m].entries[y]
      BY <1>2, <1>3, <3>1 DEF Older
    <3> QED  BY <3>2, <3>3 DEF Older
  <2> QED  BY <1>1, <2>1, <2>3 DEF Before
<1> QED  BY <1>0, <1>4, <1>5 DEF WellQueued

-----------------------------------------------------------------------------
(* Entry j of task k of stack s has yet to be given its outcome.           *)
Pends(s, k, j) ==
    /\ k \in DOMAIN chain[s] /\ j \in DOMAIN chain[s][k].entries
    /\ k = 1 /\ at[s] = "single" => j >= step[s]

QueuesOrdered == \A s \in Stacks : WellQueued(chain[s], s, ops)

(* A task that runs is of the kind of its call, and nothing joins it.      *)
HeadClaimed ==
    \A s \in Stacks :
        /\ at[s] \in {"merged", "single"} => Head1(s).kind = "cell"
        /\ at[s] = "adding" => Head1(s).kind = "add"
        /\ at[s] \in InFlight => ~Head1(s).open

PendingQueued ==
    \A s \in Stacks : \A k \in DOMAIN chain[s] : \A j \in DOMAIN chain[s][k].entries :
        Pends(s, k, j) => status[chain[s][k].entries[j]] = "queued"

InQueue(i) ==
    \E s \in Stacks : \E k \in DOMAIN chain[s] : \E j \in DOMAIN chain[s][k].entries :
        Pends(s, k, j) /\ chain[s][k].entries[j] = i

(* Unless the push is doomed every operation without an outcome, those of  *)
(* Q apart, is still in the queue of its stack.                            *)
Accounted(Q) ==
    fatal = 0 => \A i \in DOMAIN ops \ Q : status[i] = "queued" => InQueue(i)

AppliedOnce ==
    /\ \A k \in DOMAIN applied : status[applied[k]] = "applied"
    /\ \A j, k \in DOMAIN applied : applied[j] = applied[k] => j = k
    /\ \A i \in DOMAIN status : status[i] = "applied" => \E k \in DOMAIN applied : applied[k] = i

(* A cell's applied writes are older than the ones it still waits for.     *)
AppliedOlder ==
    \A s \in Stacks : \A k \in DOMAIN chain[s] : \A j \in DOMAIN chain[s][k].entries :
        Pends(s, k, j) /\ chain[s][k].kind = "cell" =>
            \A i \in DOMAIN ops :
                status[i] = "applied" /\ ops[i].kind = "set" /\ ops[i].stack = s
                /\ ops[i].version = chain[s][k].version
                    => i < chain[s][k].entries[j]

QueueInv ==
    /\ QueuesOrdered
    /\ HeadClaimed
    /\ PendingQueued
    /\ AppliedOnce
    /\ AppliedOlder

-----------------------------------------------------------------------------
(* A step of stack s leaves the other stacks' tasks alone; it may wake one.*)
OthersStill(s) ==
    \A t \in Stacks : t # s =>
        /\ chain'[t] = chain[t] /\ step'[t] = step[t]
        /\ at'[t] = at[t] \/ (at[t] = "waiting" /\ at'[t] = "woken")

(* What it can do with its own.                                            *)
Drops(s) == chain[s] # <<>> /\ chain'[s] = Tail(chain[s]) /\ at'[s] = "idle"

Starts(s) ==
    /\ chain[s] # <<>> /\ at[s] \in {"idle", "woken"}
    /\ chain'[s] = IF Head1(s).kind = "cell"
                   THEN CloseCells(chain[s], {Head1(s).version})
                   ELSE chain[s]
    /\ at'[s] = FirstCall(Head1(s)) /\ step'[s] = 1

Waits(s) == chain'[s] = chain[s] /\ at[s] = "idle" /\ at'[s] = "waiting"

GoesOn(s) ==
    /\ chain'[s] = chain[s]
    /\ \/ at[s] \in {"merged", "single"} /\ at'[s] = "single"
       \/ at[s] = "adding" /\ at'[s] = "adding"

LEMMA LeaveIsLocal ==
    ASSUME StacksInv, NEW s \in Stacks, at[s] \in InFlight, Leave(s)
    PROVE  OthersStill(s) /\ Drops(s)
<1>1. chain[s] # <<>>
  BY DEF StacksInv, HeadRuns, InFlight
<1>2. chain' = [chain EXCEPT ![s] = Tail(chain[s])] /\ step' = [step EXCEPT ![s] = 0]
  BY DEF Leave
<1>3. CASE waiters = <<>>
  <2>1. at' = [at EXCEPT ![s] = "idle"]
    BY <1>3 DEF Leave
  <2> QED  BY <1>1, <1>2, <2>1 DEF StacksInv, OthersStill, Drops
<1>4. CASE waiters # <<>>
  <2>1. at' = [at EXCEPT ![s] = "idle", ![Head(waiters)] = "woken"]
    BY <1>4 DEF Leave
  <2>2. Head(waiters) \in Stacks /\ at[Head(waiters)] = "waiting" /\ Head(waiters) # s
    BY <1>4, FirstSleeper DEF InFlight
  <2> QED  BY <1>1, <1>2, <2>1, <2>2 DEF StacksInv, OthersStill, Drops
<1> QED  BY <1>3, <1>4

LEMMA ContinueIsLocal ==
    ASSUME StacksInv, NEW s \in Stacks, NEW mode, NEW n, Continue(s, mode, n),
           \/ at[s] \in {"merged", "single"} /\ mode = "single"
           \/ at[s] = "adding" /\ mode = "adding"
    PROVE  OthersStill(s) /\ GoesOn(s) /\ step'[s] = n
  BY DEF StacksInv, Continue, OthersStill, GoesOn

LEMMA ProceedIsLocal ==
    ASSUME StacksInv, NEW s \in Stacks, Proceed(s)
    PROVE  /\ OthersStill(s) /\ UNCHANGED <<ops, status, applied, fatal, cell, top>>
           /\ \/ Drops(s) /\ at[s] = "idle" /\ fatal # 0
              \/ Starts(s) \/ Waits(s)
<1>1. CASE SkipDoomed(s)
  BY <1>1 DEF SkipDoomed, Ready, StacksInv, OthersStill, Drops, tenant
<1>2. CASE AwaitSlot(s)
  BY <1>2 DEF AwaitSlot, Ready, StacksInv, OthersStill, Waits, tenant
<1>3. CASE StartNow(s) \/ Resume(s)
  <2>1. Begin(s) /\ chain[s] # <<>> /\ at[s] \in {"idle", "woken"}
    BY <1>3 DEF StartNow, Resume, Ready, StacksInv, HeadRuns
  <2>2. UNCHANGED <<ops, status, applied, fatal, cell, top>>
    BY <2>1 DEF Begin, tenant
  <2> QED  BY <2>1, <2>2 DEF Begin, StacksInv, OthersStill, Starts
<1> QED  BY <1>1, <1>2, <1>3 DEF Proceed

LEMMA AnswerIsLocal ==
    ASSUME PoolInv, NEW s \in Stacks, Answer(s)
    PROVE  /\ OthersStill(s) /\ ops' = ops /\ at[s] \in InFlight
           /\ Drops(s) \/ GoesOn(s)
<1>1. CASE AnswerMerged(s)
  <2>1. at[s] = "merged" /\ ops' = ops /\ (Continue(s, "single", 1) \/ Leave(s))
    BY <1>1 DEF AnswerMerged
  <2> QED  BY <2>1, LeaveIsLocal, ContinueIsLocal DEF PoolInv, InFlight
<1>2. CASE AnswerSingle(s)
  <2>1. at[s] = "single" /\ ops' = ops
        /\ (Continue(s, "single", step[s] + 1) \/ Leave(s))
    BY <1>2 DEF AnswerSingle
  <2> QED  BY <2>1, LeaveIsLocal, ContinueIsLocal DEF PoolInv, InFlight
<1>3. CASE AnswerAdd(s)
  <2>1. at[s] = "adding" /\ ops' = ops
        /\ (Continue(s, "adding", step[s] + 1) \/ Leave(s))
    BY <1>3 DEF AnswerAdd
  <2> QED  BY <2>1, LeaveIsLocal, ContinueIsLocal DEF PoolInv, InFlight
<1> QED  BY <1>1, <1>2, <1>3 DEF Answer

(* The head of a claimed stack.                                            *)
LEMMA HeadFacts ==
    ASSUME StacksInv, NEW s \in Stacks, chain[s] # <<>>
    PROVE  /\ chain[s] \in Seq(Task) /\ 1 \in DOMAIN chain[s]
           /\ Head1(s) = chain[s][1] /\ Head1(s) \in Task
           /\ Head1(s).entries \in Seq(Nat \ {0}) /\ Head1(s).entries # <<>>
           /\ 1 \in DOMAIN Head1(s).entries
<1>1. chain[s] \in Seq(Task)
  BY DEF StacksInv
<1>2. Head1(s) = chain[s][1] /\ 1 \in DOMAIN chain[s] /\ Head1(s) \in Task
  BY <1>1, TailFacts DEF Head1
<1>3. Head1(s).entries \in Seq(Nat \ {0}) /\ Head1(s).entries # <<>>
  BY <1>2 DEF Task, StacksInv, TasksKnown
<1> QED  BY <1>1, <1>2, <1>3

(* What claiming does to a queue.                                          *)
LEMMA ClaimFacts ==
    ASSUME StacksInv, NEW s \in Stacks, Starts(s)
    PROVE  /\ chain'[s] \in Seq(Task) /\ DOMAIN chain'[s] = DOMAIN chain[s]
           /\ chain'[s] # <<>>
           /\ \A k \in DOMAIN chain[s] :
                 /\ chain'[s][k].entries = chain[s][k].entries
                 /\ chain'[s][k].kind = chain[s][k].kind
                 /\ chain'[s][k].version = chain[s][k].version
           /\ Head1(s)' = chain'[s][1]
           /\ Head1(s)'.kind = Head1(s).kind
           /\ Head1(s).kind = "cell" => ~Head1(s)'.open
           /\ Head1(s).kind # "cell" => chain'[s] = chain[s]
<1> DEFINE c == CloseCells(chain[s], {Head1(s).version})
<1>1. chain[s] \in Seq(Task) /\ chain[s] # <<>> /\ 1 \in DOMAIN chain[s]
      /\ Head1(s) = chain[s][1]
  BY HeadFacts DEF Starts
<1>2. CASE Head1(s).kind = "cell"
  <2>1. chain'[s] = c
    BY <1>2 DEF Starts
  <2>2. c \in Seq(Task) /\ Len(c) = Len(chain[s])
    BY <1>1, CloseCellsKeeps
  <2>3. ASSUME NEW k \in DOMAIN chain[s]
        PROVE  /\ c[k].entries = chain[s][k].entries /\ c[k].kind = chain[s][k].kind
               /\ c[k].version = chain[s][k].version
               /\ chain[s][k].version = Head1(s).version => ~c[k].open
    <3>1. chain[s][k] \in Task
      BY <1>1
    <3>2. c[k] = IF chain[s][k].version \in {Head1(s).version}
                 THEN [chain[s][k] EXCEPT !.open = FALSE] ELSE chain[s][k]
      BY DEF CloseCells
    <3> HIDE DEF c
    <3> QED  BY <3>1, <3>2 DEF Task
  <2> HIDE DEF c
  <2>4. c # <<>> /\ DOMAIN c = DOMAIN chain[s] /\ Head(c) = c[1]
    BY <1>1, <2>2
  <2> QED  BY <1>1, <1>2, <2>1, <2>2, <2>3, <2>4 DEF Head1
<1>3. CASE Head1(s).kind # "cell"
  <2>1. chain'[s] = chain[s]
    BY <1>3 DEF Starts
  <2> QED  BY <1>1, <1>3, <2>1 DEF Head1
<1> QED  BY <1>2, <1>3

LEMMA StepKeepsOrder ==
    ASSUME StacksInv, QueuesOrdered, HeadClaimed, NEW s \in Stacks,
           OthersStill(s), ops' = ops,
           Drops(s) \/ Starts(s) \/ Waits(s) \/ GoesOn(s)
    PROVE  QueuesOrdered' /\ HeadClaimed'
<1>1. \A t \in Stacks : chain[t] \in Seq(Task) /\ WellQueued(chain[t], t, ops)
  BY DEF StacksInv, QueuesOrdered
<1>2. WellQueued(chain'[s], s, ops)
  <2>1. CASE Drops(s)
    BY <1>1, <2>1, TailQueued DEF Drops
  <2>2. CASE Starts(s)
    BY <1>1, <2>2, CloseQueued DEF Starts
  <2>3. CASE Waits(s) \/ GoesOn(s)
    BY <1>1, <2>3 DEF Waits, GoesOn
  <2> QED  BY <2>1, <2>2, <2>3
<1>3. QueuesOrdered'
  BY <1>1, <1>2 DEF OthersStill, QueuesOrdered
<1>4. ASSUME NEW t \in Stacks, t # s
      PROVE  /\ at'[t] \in {"merged", "single"} => Head1(t)'.kind = "cell"
             /\ at'[t] = "adding" => Head1(t)'.kind = "add"
             /\ at'[t] \in InFlight => ~Head1(t)'.open
  BY <1>4 DEF OthersStill, HeadClaimed, Head1, InFlight
<1>5. /\ at'[s] \in {"merged", "single"} => Head1(s)'.kind = "cell"
      /\ at'[s] = "adding" => Head1(s)'.kind = "add"
      /\ at'[s] \in InFlight => ~Head1(s)'.open
  <2>1. CASE Drops(s) \/ Waits(s)
    BY <2>1 DEF Drops, Waits, InFlight
  <2>2. CASE GoesOn(s)
    BY <2>2 DEF GoesOn, HeadClaimed, Head1, InFlight
  <2>3. CASE Starts(s)
    <3>1. Head1(s)'.kind = Head1(s).kind
          /\ (Head1(s).kind = "cell" => ~Head1(s)'.open)
          /\ (Head1(s).kind # "cell" => Head1(s)' = Head1(s))
      BY <2>3, ClaimFacts DEF Head1
    <3>2. Head1(s) \in Task /\ Head1(s) = chain[s][1] /\ 1 \in DOMAIN chain[s]
      BY <2>3, HeadFacts DEF Starts
    <3>3. Head1(s).kind \in {"cell", "add"}
      BY <3>2 DEF Task
    <3>4. Head1(s).kind = "add" => ~Head1(s).open
      BY <1>1, <3>2 DEF WellQueued, InTask
    <3>5. at'[s] = FirstCall(Head1(s))
      BY <2>3 DEF Starts
    <3> QED  BY <3>1, <3>3, <3>4, <3>5 DEF FirstCall
  <2> QED  BY <2>1, <2>2, <2>3
<1>6. HeadClaimed'
  BY <1>4, <1>5 DEF HeadClaimed
<1> QED  BY <1>3, <1>6

(* A step that gives the operations D of stack s's head task their outcome:*)
(* they were pending, nothing older than one of them stays pending in the  *)
(* task, and unless the push is doomed the task is only dropped when all   *)
(* of its entries are settled.                                             *)
Settles(s, D) ==
    /\ DOMAIN status' = DOMAIN status
    /\ \A i \in DOMAIN status : i \notin D => status'[i] = status[i]
    /\ \A i \in D : status'[i] \in {"applied", "skip", "error"}
    /\ \A i \in D : \E j \in DOMAIN chain[s][1].entries :
          Pends(s, 1, j) /\ chain[s][1].entries[j] = i
    /\ \A j \in DOMAIN chain[s][1].entries :
          Pends(s, 1, j) /\ chain[s][1].entries[j] \notin D
              => \A i \in D : i < chain[s][1].entries[j]
    /\ fatal' = 0 => fatal = 0
    /\ \/ Drops(s) /\ (fatal' = 0 => \A j \in DOMAIN chain[s][1].entries :
                          Pends(s, 1, j) => chain[s][1].entries[j] \in D)
       \/ ~Drops(s)
          /\ DOMAIN chain'[s] = DOMAIN chain[s]
          /\ \A k \in DOMAIN chain[s] :
                /\ chain'[s][k].entries = chain[s][k].entries
                /\ chain'[s][k].kind = chain[s][k].kind
                /\ chain'[s][k].version = chain[s][k].version
          /\ \A j \in DOMAIN chain[s][1].entries :
                Pends(s, 1, j)' <=> Pends(s, 1, j) /\ chain[s][1].entries[j] \notin D

(* ... and lists the ones it applied.                                      *)
Lists(D) ==
    \/ applied' = applied /\ \A i \in D : status'[i] # "applied"
    \/ \E e \in Seq(Nat \ {0}) :
          /\ applied' = applied \o e
          /\ \A j \in DOMAIN e : e[j] \in D
          /\ \A j, k \in DOMAIN e : e[j] = e[k] => j = k
          /\ \A i \in D : status'[i] = "applied" /\ \E j \in DOMAIN e : e[j] = i

(* Scheduling gives nothing an outcome.                                    *)
LEMMA ProceedSettles ==
    ASSUME StacksInv, NEW s \in Stacks, Proceed(s)
    PROVE  Settles(s, {}) /\ Lists({})
<1>1. /\ UNCHANGED <<ops, status, applied, fatal>>
      /\ \/ Drops(s) /\ at[s] = "idle" /\ fatal # 0
         \/ Starts(s) \/ Waits(s)
  BY ProceedIsLocal
<1>2. CASE Drops(s) /\ fatal # 0
  BY <1>1, <1>2 DEF Settles, Lists
<1>3. CASE Starts(s)
  <2>1. ~Drops(s)
    BY <1>3 DEF Starts, Drops, FirstCall
  <2>2. /\ DOMAIN chain'[s] = DOMAIN chain[s]
        /\ \A k \in DOMAIN chain[s] :
              /\ chain'[s][k].entries = chain[s][k].entries
              /\ chain'[s][k].kind = chain[s][k].kind
              /\ chain'[s][k].version = chain[s][k].version
    BY <1>3, ClaimFacts
  <2>3. /\ chain[s] # <<>> /\ 1 \in DOMAIN chain[s]
        /\ chain[s][1].entries \in Seq(Nat \ {0})
    BY <1>3, HeadFacts DEF Starts
  <2>4. step'[s] = 1 /\ at[s] # "single"
    BY <1>3 DEF Starts
  <2>5. \A j \in DOMAIN chain[s][1].entries : Pends(s, 1, j) /\ Pends(s, 1, j)'
    BY <2>2, <2>3, <2>4 DEF Pends
  <2> QED  BY <1>1, <2>1, <2>2, <2>5 DEF Settles, Lists
<1>4. CASE Waits(s)
  <2>1. ~Drops(s)
    BY <1>4 DEF Waits, Drops
  <2>2. \A j \in DOMAIN chain[s][1].entries : Pends(s, 1, j)' <=> Pends(s, 1, j)
    BY <1>4 DEF Waits, Pends
  <2> QED  BY <1>1, <1>4, <2>1, <2>2 DEF Settles, Lists, Waits
<1> QED  BY <1>1, <1>2, <1>3, <1>4

(* One entry gets its outcome.                                             *)
LEMMA RecordFacts ==
    ASSUME ResultsInv, NEW i \in DOMAIN ops, NEW r, RecordAnswer(i, r)
    PROVE  /\ DOMAIN status' = DOMAIN status
           /\ \A k \in DOMAIN status : k \notin {i} => status'[k] = status[k]
           /\ status'[i] \in {"applied", "skip", "error"}
           /\ status'[i] = "applied" <=> r = "ok"
           /\ fatal' = 0 => fatal = 0
           /\ r = "ok" => fatal' = fatal
           /\ Lists({i})
<1>1. status \in Seq(Status) /\ i \in DOMAIN status /\ i \in Nat \ {0}
  BY OpFacts DEF ResultsInv
<1>2. CASE r = "ok"
  <2>1. /\ applied' = Append(applied, i) /\ fatal' = fatal
        /\ status' = [status EXCEPT ![i] = "applied"]
    BY <1>2 DEF RecordAnswer
  <2>2. <<i>> \in Seq(Nat \ {0}) /\ DOMAIN <<i>> = {1} /\ <<i>>[1] = i
    BY <1>1
  <2>3. applied' = applied \o <<i>>
    BY <2>1 DEF ResultsInv
  <2>4. Lists({i})
    <3>1. \E e \in Seq(Nat \ {0}) :
            /\ applied' = applied \o e
            /\ \A j \in DOMAIN e : e[j] \in {i}
            /\ \A j, k \in DOMAIN e : e[j] = e[k] => j = k
            /\ \A x \in {i} : status'[x] = "applied" /\ \E j \in DOMAIN e : e[j] = x
      <4> <<i>> \in Seq(Nat \ {0})
        BY <2>2
      <4> WITNESS <<i>> \in Seq(Nat \ {0})
      <4> QED  BY <1>1, <2>1, <2>2, <2>3
    <3> QED  BY <3>1 DEF Lists
  <2> QED  BY <1>1, <1>2, <2>1, <2>4
<1>3. CASE r # "ok"
  <2> DEFINE st == IF Skippable(i, r) THEN "skip" ELSE "error"
  <2>1. /\ applied' = applied /\ fatal' = FatalAfter(i, r)
        /\ status' = [status EXCEPT ![i] = st]
    BY <1>3 DEF RecordAnswer
  <2>2. st \in {"skip", "error"}
    OBVIOUS
  <2>3. fatal' = 0 => fatal = 0
    BY <2>1 DEF FatalAfter
  <2> HIDE DEF st
  <2> QED  BY <1>1, <1>3, <2>1, <2>2, <2>3 DEF Lists
<1> QED  BY <1>2, <1>3

LEMMA MergedSettles ==
    ASSUME PoolInv, QueuesOrdered, NEW s \in Stacks, AnswerMerged(s)
    PROVE  \E D : Settles(s, D) /\ Lists(D)
<1> DEFINE t == Head1(s)
           e == t.entries
           W == {e[k] : k \in DOMAIN e}
<1>1. at[s] = "merged" /\ fatal' = fatal /\ chain[s] # <<>>
  BY DEF AnswerMerged, PoolInv, StacksInv, HeadRuns
<1>2. /\ t = chain[s][1] /\ e \in Seq(Nat \ {0}) /\ 1 \in DOMAIN e
      /\ chain[s] \in Seq(Task) /\ 1 \in DOMAIN chain[s]
  BY <1>1, HeadFacts DEF PoolInv
<1>3. \A j \in DOMAIN e : Pends(s, 1, j)
  BY <1>1, <1>2 DEF Pends
<1>4. CASE Drops(s) /\ applied' = applied \o e
           /\ status' = [i \in DOMAIN status |->
                            IF \E k \in DOMAIN e : e[k] = i
                            THEN "applied" ELSE status[i]]
  <2>1. InTask(t, s, ops)
    BY <1>2 DEF QueuesOrdered, WellQueued
  <2>2. \A j, k \in DOMAIN e : e[j] = e[k] => j = k
    <3>1. \A j, k \in DOMAIN e : j < k => e[j] < e[k]
      BY <2>1 DEF InTask
    <3> HIDE DEF e
    <3>2. \A j \in DOMAIN e : j \in Nat /\ e[j] \in Nat
      BY <1>2
    <3> QED  BY <3>1, <3>2
  <2>3. \A i \in W : i \in DOMAIN status
    BY <1>1, HeadEntries, OpFacts DEF PoolInv
  <2>4. Settles(s, W)
    BY <1>1, <1>2, <1>3, <1>4, <2>3 DEF Settles
  <2>5. Lists(W)
    <3>1. \A i \in W : status'[i] = "applied" /\ \E j \in DOMAIN e : e[j] = i
      BY <1>4, <2>3
    <3> HIDE DEF e
    <3>2. \E x \in Seq(Nat \ {0}) :
            /\ applied' = applied \o x
            /\ \A j \in DOMAIN x : x[j] \in W
            /\ \A j, k \in DOMAIN x : x[j] = x[k] => j = k
            /\ \A i \in W : status'[i] = "applied" /\ \E j \in DOMAIN x : x[j] = i
      <4> e \in Seq(Nat \ {0})
        BY <1>2
      <4> WITNESS e \in Seq(Nat \ {0})
      <4> QED  BY <1>4, <2>2, <3>1
    <3> QED  BY <3>2 DEF Lists
  <2> QED  BY <2>4, <2>5
<1>5. CASE Drops(s) /\ fatal # 0 /\ UNCHANGED <<applied, status>>
  <2>1. Settles(s, {}) /\ Lists({})
    BY <1>1, <1>5 DEF Settles, Lists
  <2> QED  BY <2>1
<1>6. CASE GoesOn(s) /\ step'[s] = 1 /\ UNCHANGED <<applied, status>>
  <2>1. at'[s] = "single" /\ chain'[s] = chain[s] /\ ~Drops(s)
    BY <1>1, <1>6 DEF GoesOn, Drops
  <2>2. \A j \in DOMAIN e : Pends(s, 1, j)'
    <3>1. \A j \in DOMAIN e : j >= 1
      BY <1>2
    <3> QED  BY <1>2, <1>6, <2>1, <3>1 DEF Pends
  <2>3. Settles(s, {}) /\ Lists({})
    BY <1>1, <1>2, <1>3, <1>6, <2>1, <2>2 DEF Settles, Lists
  <2> QED  BY <2>3
<1>7. \/ Leave(s) /\ applied' = applied \o e
         /\ status' = [i \in DOMAIN status |->
                            IF \E k \in DOMAIN e : e[k] = i
                            THEN "applied" ELSE status[i]]
      \/ Leave(s) /\ fatal # 0 /\ UNCHANGED <<applied, status>>
      \/ Continue(s, "single", 1) /\ UNCHANGED <<applied, status>>
  BY DEF AnswerMerged
<1>8. Leave(s) => Drops(s)
  BY <1>1, LeaveIsLocal DEF PoolInv, InFlight
<1>9. Continue(s, "single", 1) => GoesOn(s) /\ step'[s] = 1
  BY <1>1, ContinueIsLocal DEF PoolInv
<1> HIDE DEF e, W
<1> QED  BY <1>4, <1>5, <1>6, <1>7, <1>8, <1>9

LEMMA SingleSettles ==
    ASSUME PoolInv, QueuesOrdered, NEW s \in Stacks, AnswerSingle(s)
    PROVE  LET i == Head1(s).entries[step[s]] IN
           /\ Settles(s, {i}) /\ Lists({i})
           /\ i \in DOMAIN ops /\ Pends(s, 1, step[s]) /\ step[s] \in DOMAIN chain[s][1].entries
           /\ Head1(s).entries[step[s]] = chain[s][1].entries[step[s]]
<1> DEFINE e == Head1(s).entries
           i == e[step[s]]
<1>1. at[s] = "single" /\ chain[s] # <<>> /\ step[s] \in DOMAIN e
  BY DEF AnswerSingle, PoolInv, StacksInv, HeadRuns
<1>2. /\ Head1(s) = chain[s][1] /\ e \in Seq(Nat \ {0})
      /\ chain[s] \in Seq(Task) /\ 1 \in DOMAIN chain[s]
  BY <1>1, HeadFacts DEF PoolInv
<1>3. i \in DOMAIN ops /\ i \in DOMAIN status
  BY <1>1, HeadEntries, OpFacts DEF PoolInv
<1>4. PICK r : /\ RecordAnswer(i, r)
               /\ IF MoreEntries(s, r)
                  THEN Continue(s, "single", step[s] + 1)
                  ELSE Leave(s)
  BY DEF AnswerSingle
<1>5. \A j \in DOMAIN e : Pends(s, 1, j) <=> j >= step[s]
  BY <1>1, <1>2 DEF Pends
<1>6. InTask(Head1(s), s, ops)
  BY <1>2 DEF QueuesOrdered, WellQueued
<1>7. \A j, k \in DOMAIN e : j < k => e[j] < e[k]
  BY <1>6 DEF InTask
<1> HIDE DEF e
<1>8. \A j \in DOMAIN e : j \in Nat /\ e[j] \in Nat /\ (j > step[s] <=> j >= step[s] + 1)
                           /\ step[s] >= step[s] /\ (j = step[s] \/ j > step[s] \/ j < step[s])
                           /\ (j = step[s] \/ j > step[s] <=> j >= step[s])
                           /\ (j > step[s] <=> step[s] < j)
  BY <1>1, <1>2
<1>9. \A j \in DOMAIN e : (e[j] \notin {i} /\ j >= step[s]) <=> j >= step[s] + 1
  BY <1>1, <1>7, <1>8
<1>10. \A j \in DOMAIN e : e[j] \notin {i} /\ j >= step[s] => i < e[j]
  BY <1>1, <1>7, <1>8
<1>11. /\ DOMAIN status' = DOMAIN status
       /\ \A k \in DOMAIN status : k \notin {i} => status'[k] = status[k]
       /\ status'[i] \in {"applied", "skip", "error"}
       /\ fatal' = 0 => fatal = 0
       /\ Lists({i})
  BY <1>3, <1>4, RecordFacts DEF PoolInv
<1>12. i = e[step[s]] /\ Pends(s, 1, step[s])
  BY <1>1, <1>5, <1>8
<1>13. Settles(s, {i})
  <2>1. CASE MoreEntries(s, r)
    <3>1. GoesOn(s) /\ step'[s] = step[s] + 1
      BY <1>1, <1>4, <2>1, ContinueIsLocal DEF PoolInv
    <3>2. chain'[s] = chain[s] /\ at'[s] = "single" /\ ~Drops(s)
      BY <1>1, <3>1 DEF GoesOn, Drops
    <3>3. \A j \in DOMAIN e : Pends(s, 1, j)' <=> j >= step[s] + 1
      BY <1>2, <3>1, <3>2 DEF Pends, e
    <3> HIDE DEF i
    <3> QED  BY <1>1, <1>2, <1>5, <1>9, <1>10, <1>11, <1>12, <3>2, <3>3 DEF Settles, e
  <2>2. CASE ~MoreEntries(s, r)
    <3>1. Drops(s)
      BY <1>1, <1>4, <2>2, LeaveIsLocal DEF PoolInv, InFlight
    <3>2. fatal' = 0 => step[s] >= Len(e)
      BY <1>1, <1>2, <2>2 DEF MoreEntries, e
    <3>3. fatal' = 0 => \A j \in DOMAIN e : j >= step[s] => e[j] \in {i}
      BY <1>1, <1>2, <1>8, <3>2
    <3> HIDE DEF i
    <3> QED  BY <1>1, <1>2, <1>5, <1>10, <1>11, <1>12, <3>1, <3>3 DEF Settles, e
  <2> QED  BY <2>1, <2>2
<1> QED  BY <1>1, <1>2, <1>3, <1>11, <1>12, <1>13 DEF e

LEMMA AddSettles ==
    ASSUME PoolInv, QueuesOrdered, HeadClaimed, NEW s \in Stacks, AnswerAdd(s)
    PROVE  \E D : Settles(s, D) /\ Lists(D)
<1> DEFINE e == Head1(s).entries
           i == e[1]
<1>1. at[s] = "adding" /\ chain[s] # <<>> /\ ops' = ops
  BY DEF AnswerAdd, PoolInv, StacksInv, HeadRuns
<1>2. /\ Head1(s) = chain[s][1] /\ e \in Seq(Nat \ {0}) /\ 1 \in DOMAIN e
      /\ chain[s] \in Seq(Task) /\ 1 \in DOMAIN chain[s]
  BY <1>1, HeadFacts DEF PoolInv
<1>3. i \in DOMAIN ops /\ i \in DOMAIN status
  BY <1>1, <1>2, HeadEntries, OpFacts DEF PoolInv
<1>4. PICK r :
         \/ /\ Continue(s, "adding", step[s] + 1)
            /\ UNCHANGED <<applied, status, fatal>>
         \/ RecordAnswer(i, r) /\ Leave(s)
  BY DEF AnswerAdd
<1>5. \A j \in DOMAIN e : Pends(s, 1, j)
  BY <1>1, <1>2 DEF Pends
<1>6. DOMAIN e = {1}
  <2>1. InTask(Head1(s), s, ops) /\ Head1(s).kind = "add"
    BY <1>1, <1>2 DEF QueuesOrdered, WellQueued, HeadClaimed
  <2>2. Len(e) = 1
    BY <2>1 DEF InTask
  <2> HIDE DEF e
  <2> QED  BY <1>2, <2>2
<1>7. CASE Continue(s, "adding", step[s] + 1) /\ UNCHANGED <<applied, status, fatal>>
  <2>1. GoesOn(s)
    BY <1>1, <1>7, ContinueIsLocal DEF PoolInv
  <2>2. chain'[s] = chain[s] /\ at'[s] = "adding" /\ ~Drops(s)
    BY <1>1, <2>1 DEF GoesOn, Drops
  <2>3. \A j \in DOMAIN e : Pends(s, 1, j)'
    BY <1>2, <2>2 DEF Pends
  <2>4. Settles(s, {}) /\ Lists({})
    BY <1>2, <1>5, <1>7, <2>2, <2>3 DEF Settles, Lists
  <2> QED  BY <2>4
<1>8. CASE RecordAnswer(i, r) /\ Leave(s)
  <2>1. Drops(s)
    BY <1>1, <1>8, LeaveIsLocal DEF PoolInv, InFlight
  <2>2. /\ DOMAIN status' = DOMAIN status
        /\ \A k \in DOMAIN status : k \notin {i} => status'[k] = status[k]
        /\ status'[i] \in {"applied", "skip", "error"}
        /\ fatal' = 0 => fatal = 0
        /\ Lists({i})
    BY <1>3, <1>8, RecordFacts DEF PoolInv
  <2>3. i = e[1]
    OBVIOUS
  <2> HIDE DEF i
  <2>4. Settles(s, {i})
    BY <1>2, <1>5, <1>6, <2>1, <2>2, <2>3 DEF Settles, e
  <2> QED  BY <2>2, <2>4
<1> HIDE DEF i
<1> QED  BY <1>4, <1>7, <1>8

(* Every step of the pool, as seen from its stack's queue.                 *)
LEMMA PoolStepSettles ==
    ASSUME PoolInv, QueuesOrdered, HeadClaimed, NEW s \in Stacks, PoolStep(s)
    PROVE  /\ OthersStill(s) /\ ops' = ops
           /\ Drops(s) \/ Starts(s) \/ Waits(s) \/ GoesOn(s)
           /\ \E D : Settles(s, D) /\ Lists(D)
<1>1. CASE Proceed(s)
  BY <1>1, ProceedIsLocal, ProceedSettles DEF PoolInv
<1>2. CASE Answer(s)
  <2>1. \E D : Settles(s, D) /\ Lists(D)
    BY <1>2, MergedSettles, SingleSettles, AddSettles DEF Answer
  <2> QED  BY <1>2, <2>1, AnswerIsLocal
<1> QED  BY <1>1, <1>2 DEF PoolStep

-----------------------------------------------------------------------------
(* Two places of a stack's queue never hold the same operation.            *)
LEMMA PlacesDiffer ==
    ASSUME StacksInv, QueuesOrdered, NEW s \in Stacks,
           NEW k \in DOMAIN chain[s], NEW m \in DOMAIN chain[s],
           NEW j \in DOMAIN chain[s][k].entries, NEW l \in DOMAIN chain[s][m].entries,
           chain[s][k].entries[j] = chain[s][m].entries[l]
    PROVE  k = m /\ j = l
<1>1. chain[s] \in Seq(Task) /\ WellQueued(chain[s], s, ops)
  BY DEF StacksInv, QueuesOrdered
<1>2. k \in Nat /\ m \in Nat
  BY <1>1
<1>3. /\ chain[s][k] \in Task /\ chain[s][m] \in Task
  BY <1>1
<1>4. /\ chain[s][k].entries \in Seq(Nat \ {0})
      /\ chain[s][m].entries \in Seq(Nat \ {0})
      /\ chain[s][k].kind \in {"add", "cell"} /\ chain[s][m].kind \in {"add", "cell"}
  BY <1>3 DEF Task
<1>5. /\ j \in Nat /\ l \in Nat
      /\ chain[s][k].entries[j] \in Nat /\ chain[s][m].entries[l] \in Nat
  BY <1>4
<1>6. InTask(chain[s][k], s, ops) /\ InTask(chain[s][m], s, ops)
  BY <1>1 DEF WellQueued
<1>7. CASE k = m
  <2>1. ~(j < l) /\ ~(l < j)
    BY <1>5, <1>6, <1>7 DEF InTask
  <2> QED  BY <1>5, <1>7, <2>1
<1>8. CASE k # m
  <2>1. \/ chain[s][k].kind = "add" \/ chain[s][m].kind = "add"
        \/ chain[s][k].version = chain[s][m].version
    BY <1>4, <1>6 DEF InTask
  <2>2. k < m \/ m < k
    BY <1>2, <1>8
  <2>3. Older(chain[s][k], chain[s][m]) \/ Older(chain[s][m], chain[s][k])
    BY <1>1, <2>1, <2>2 DEF WellQueued, Before
  <2> QED  BY <1>5, <2>3 DEF Older
<1> QED  BY <1>7, <1>8

(* An operation pends on its own stack only.                               *)
LEMMA OwnStack ==
    ASSUME QueuesOrdered, NEW s \in Stacks, NEW k \in DOMAIN chain[s],
           NEW j \in DOMAIN chain[s][k].entries
    PROVE  ops[chain[s][k].entries[j]].stack = s
  BY DEF QueuesOrdered, WellQueued, InTask

(* Where the tasks of s are after its step, and what is pending in them.   *)
LEMMA PlacesAfter ==
    ASSUME StacksInv, NEW s \in Stacks, NEW D, Settles(s, D),
           NEW k \in DOMAIN chain'[s], NEW j \in DOMAIN chain'[s][k].entries,
           Pends(s, k, j)'
    PROVE  \E m \in DOMAIN chain[s] :
              /\ chain'[s][k].entries = chain[s][m].entries
              /\ chain'[s][k].kind = chain[s][m].kind
              /\ chain'[s][k].version = chain[s][m].version
              /\ j \in DOMAIN chain[s][m].entries /\ Pends(s, m, j)
              /\ m = 1 => ~Drops(s) /\ chain[s][1].entries[j] \notin D
<1>1. chain[s] \in Seq(Task)
  BY DEF StacksInv
<1>2. CASE Drops(s)
  <2>1. /\ k + 1 \in DOMAIN chain[s] /\ chain'[s][k] = chain[s][k + 1]
        /\ k \in Nat \ {0}
    <3>1. chain[s] # <<>> /\ chain'[s] = Tail(chain[s])
      BY <1>2 DEF Drops
    <3>2. Tail(chain[s]) \in Seq(Task)
      BY <1>1, <3>1, TailFacts
    <3> QED  BY <1>1, <3>1, <3>2, TailFacts
  <2>2. k + 1 # 1
    BY <2>1
  <2>3. j \in DOMAIN chain[s][k + 1].entries /\ Pends(s, k + 1, j)
    BY <2>1, <2>2 DEF Pends
  <2> QED  BY <2>1, <2>2, <2>3
<1>3. CASE ~Drops(s)
  <2>1. /\ k \in DOMAIN chain[s]
        /\ chain'[s][k].entries = chain[s][k].entries
        /\ chain'[s][k].kind = chain[s][k].kind
        /\ chain'[s][k].version = chain[s][k].version
    BY <1>3 DEF Settles
  <2>2. Pends(s, k, j) /\ (k = 1 => chain[s][1].entries[j] \notin D)
    <3>1. CASE k = 1
      BY <1>3, <2>1, <3>1 DEF Settles
    <3>2. CASE k # 1
      BY <2>1, <3>2 DEF Pends
    <3> QED  BY <3>1, <3>2
  <2> QED  BY <1>3, <2>1, <2>2
<1> QED  BY <1>2, <1>3

(* What pends elsewhere is untouched.                                      *)
LEMMA PlacesElsewhere ==
    ASSUME NEW s \in Stacks, OthersStill(s), NEW t \in Stacks, t # s,
           NEW k, NEW j
    PROVE  chain'[t] = chain[t] /\ (Pends(t, k, j)' <=> Pends(t, k, j))
  BY DEF OthersStill, Pends

(* Nothing pending but the settled operations is touched.                  *)
LEMMA PendingStays ==
    ASSUME StacksInv, QueuesOrdered, PendingQueued, NEW s \in Stacks,
           OthersStill(s), NEW D, Settles(s, D), DOMAIN status = DOMAIN ops
    PROVE  PendingQueued'
<1>0. \A i \in D : i \in DOMAIN ops /\ ops[i].stack = s
      /\ \E j \in DOMAIN chain[s][1].entries :
            Pends(s, 1, j) /\ chain[s][1].entries[j] = i
  <2> SUFFICES ASSUME NEW i \in D
               PROVE  i \in DOMAIN ops /\ ops[i].stack = s
                      /\ \E j \in DOMAIN chain[s][1].entries :
                            Pends(s, 1, j) /\ chain[s][1].entries[j] = i
    OBVIOUS
  <2>1. PICK j \in DOMAIN chain[s][1].entries :
           Pends(s, 1, j) /\ chain[s][1].entries[j] = i
    BY DEF Settles
  <2>2. 1 \in DOMAIN chain[s]
    BY <2>1 DEF Pends
  <2> QED  BY <2>1, <2>2, OwnStack DEF StacksInv, TasksKnown
<1>1. ASSUME NEW t \in Stacks, NEW k \in DOMAIN chain'[t],
             NEW j \in DOMAIN chain'[t][k].entries, Pends(t, k, j)'
      PROVE  status'[chain'[t][k].entries[j]] = "queued"
  <2>1. CASE t # s
    <3>1. chain'[t] = chain[t] /\ Pends(t, k, j)
      BY <1>1, <2>1, PlacesElsewhere
    <3>2. status[chain[t][k].entries[j]] = "queued"
          /\ chain[t][k].entries[j] \in DOMAIN ops
          /\ ops[chain[t][k].entries[j]].stack = t
      BY <3>1, OwnStack DEF PendingQueued, StacksInv, TasksKnown
    <3>3. chain[t][k].entries[j] \notin D
      BY <1>0, <2>1, <3>2
    <3> QED  BY <3>1, <3>2, <3>3 DEF Settles
  <2>2. CASE t = s
    <3>1. PICK m \in DOMAIN chain[s] :
              /\ chain'[s][k].entries = chain[s][m].entries
              /\ j \in DOMAIN chain[s][m].entries /\ Pends(s, m, j)
              /\ m = 1 => ~Drops(s) /\ chain[s][1].entries[j] \notin D
      BY <1>1, <2>2, PlacesAfter
    <3> DEFINE i == chain[s][m].entries[j]
    <3>2. status[i] = "queued" /\ i \in DOMAIN ops
      BY <3>1 DEF PendingQueued, StacksInv, TasksKnown
    <3>3. i \notin D
      <4> SUFFICES ASSUME i \in D PROVE FALSE
        OBVIOUS
      <4>1. PICK l \in DOMAIN chain[s][1].entries :
               Pends(s, 1, l) /\ chain[s][1].entries[l] = i
        BY <1>0
      <4>2. 1 \in DOMAIN chain[s]
        BY <4>1 DEF Pends
      <4>3. m = 1 /\ j = l
        BY <3>1, <4>1, <4>2, PlacesDiffer
      <4> QED  BY <3>1, <4>3
    <3>4. status'[i] = status[i]
      BY <3>2, <3>3 DEF Settles
    <3> QED  BY <2>2, <3>1, <3>2, <3>4
  <2> QED  BY <2>1, <2>2
<1> QED  BY <1>1 DEF PendingQueued

(* Nothing falls out of the queues without an outcome.                     *)
LEMMA AccountedStays ==
    ASSUME StacksInv, QueuesOrdered, NEW Q, Accounted(Q), NEW s \in Stacks,
           OthersStill(s), ops' = ops, NEW D, Settles(s, D), DOMAIN status = DOMAIN ops
    PROVE  Accounted(Q)'
<1> SUFFICES ASSUME fatal' = 0, NEW i \in DOMAIN ops \ Q, status'[i] = "queued"
             PROVE  InQueue(i)'
  BY DEF Accounted
<1>1. fatal = 0 /\ i \notin D /\ status[i] = "queued"
  BY DEF Settles
<1>2a. PICK t \in Stacks : \E k \in DOMAIN chain[t] :
          \E j \in DOMAIN chain[t][k].entries :
             Pends(t, k, j) /\ chain[t][k].entries[j] = i
  BY <1>1 DEF Accounted, InQueue
<1>2b. PICK k \in DOMAIN chain[t] : \E j \in DOMAIN chain[t][k].entries :
             Pends(t, k, j) /\ chain[t][k].entries[j] = i
  BY <1>2a
<1>2. PICK j \in DOMAIN chain[t][k].entries :
             Pends(t, k, j) /\ chain[t][k].entries[j] = i
  BY <1>2b
<1>3. CASE t # s
  <2>1. chain'[t] = chain[t] /\ Pends(t, k, j)'
    BY <1>2, <1>3, PlacesElsewhere
  <2> QED  BY <1>2, <2>1 DEF InQueue
<1>4. CASE t = s /\ Drops(s)
  <2>1. k # 1
    BY <1>1, <1>2, <1>4 DEF Settles
  <2>2. chain[s] \in Seq(Task) /\ chain[s] # <<>> /\ chain'[s] = Tail(chain[s])
        /\ at'[s] = "idle"
    BY <1>4 DEF StacksInv, Drops
  <2>3. k - 1 \in DOMAIN chain'[s] /\ chain'[s][k - 1] = chain[s][k]
    BY <1>2, <1>4, <2>1, <2>2, TailFacts
  <2>4. Pends(s, k - 1, j)'
    BY <1>2, <1>4, <2>2, <2>3 DEF Pends
  <2> QED  BY <1>2, <1>4, <2>3, <2>4 DEF InQueue
<1>5. CASE t = s /\ ~Drops(s)
  <2>1. k \in DOMAIN chain'[s] /\ chain'[s][k].entries = chain[s][k].entries
    BY <1>2, <1>5 DEF Settles
  <2>2. Pends(s, k, j)'
    <3>1. CASE k = 1
      BY <1>1, <1>2, <1>5, <3>1 DEF Settles
    <3>2. CASE k # 1
      BY <1>2, <1>5, <2>1, <3>2 DEF Pends
    <3> QED  BY <3>1, <3>2
  <2> QED  BY <1>2, <1>5, <2>1, <2>2 DEF InQueue
<1> QED  BY <1>3, <1>4, <1>5

(* The settled operations, as operations.                                  *)
LEMMA SettledFacts ==
    ASSUME PoolInv, QueuesOrdered, PendingQueued, NEW s \in Stacks,
           NEW D, Settles(s, D), NEW i \in D
    PROVE  /\ i \in DOMAIN ops /\ i \in DOMAIN status /\ i \in Nat
           /\ ops[i].stack = s /\ status[i] = "queued"
           /\ ops[i].kind = IF chain[s][1].kind = "add" THEN "add" ELSE "set"
           /\ chain[s][1].kind # "add" => ops[i].version = chain[s][1].version
           /\ 1 \in DOMAIN chain[s]
<1>1. PICK j \in DOMAIN chain[s][1].entries :
         Pends(s, 1, j) /\ chain[s][1].entries[j] = i
  BY DEF Settles
<1>2. 1 \in DOMAIN chain[s]
  BY <1>1 DEF Pends
<1>3. i \in DOMAIN ops
  BY <1>1, <1>2 DEF PoolInv, StacksInv, TasksKnown
<1>4. i \in DOMAIN status /\ i \in Nat
  BY <1>3, OpFacts DEF PoolInv
<1>5. InTask(chain[s][1], s, ops)
  BY <1>2 DEF QueuesOrdered, WellQueued
<1>6. status[i] = "queued"
  BY <1>1, <1>2 DEF PendingQueued
<1> QED  BY <1>1, <1>2, <1>3, <1>4, <1>5, <1>6 DEF InTask

(* An outcome is given once, and an applied operation listed once.         *)
LEMMA AppliedStays ==
    ASSUME PoolInv, QueuesOrdered, PendingQueued, AppliedOnce, NEW s \in Stacks,
           NEW D, Settles(s, D), Lists(D)
    PROVE  AppliedOnce'
<1>1. applied \in Seq(Nat \ {0}) /\ \A k \in DOMAIN applied : applied[k] \in DOMAIN status
  BY OpFacts DEF PoolInv, ResultsInv, ResultsKnown
<1>2. \A i \in D : i \in DOMAIN status /\ status[i] = "queued"
  BY SettledFacts
<1>3. \A k \in DOMAIN applied : applied[k] \notin D
  BY <1>2 DEF AppliedOnce
<1>4. /\ DOMAIN status' = DOMAIN status
      /\ \A i \in DOMAIN status : i \notin D => status'[i] = status[i]
  BY DEF Settles
<1>5. CASE applied' = applied /\ \A i \in D : status'[i] # "applied"
  BY <1>1, <1>3, <1>4, <1>5 DEF AppliedOnce
<1>6. ASSUME NEW e \in Seq(Nat \ {0}),
             applied' = applied \o e,
             \A j \in DOMAIN e : e[j] \in D,
             \A j, k \in DOMAIN e : e[j] = e[k] => j = k,
             \A i \in D : status'[i] = "applied" /\ \E j \in DOMAIN e : e[j] = i
      PROVE  AppliedOnce'
  <2>1. /\ \A k \in DOMAIN applied' :
              \/ k \in DOMAIN applied /\ applied'[k] = applied[k]
              \/ \E l \in DOMAIN e : k = Len(applied) + l /\ applied'[k] = e[l]
        /\ \A k \in DOMAIN applied : k \in DOMAIN applied' /\ applied'[k] = applied[k]
        /\ \A k \in DOMAIN e : Len(applied) + k \in DOMAIN applied'
                               /\ applied'[Len(applied) + k] = e[k]
    <3>1. \A k \in DOMAIN applied' :
              \/ k \in DOMAIN applied /\ applied'[k] = applied[k]
              \/ /\ k - Len(applied) \in DOMAIN e /\ k \in Nat
                 /\ applied'[k] = e[k - Len(applied)]
      BY <1>1, <1>6
    <3>2. ASSUME NEW k \in Nat, k - Len(applied) \in DOMAIN e,
                 applied'[k] = e[k - Len(applied)]
          PROVE  \E l \in DOMAIN e : k = Len(applied) + l /\ applied'[k] = e[l]
      <4>1. k = Len(applied) + (k - Len(applied))
        BY <1>1
      <4> QED  BY <3>2, <4>1
    <3>3. /\ \A k \in DOMAIN applied : k \in DOMAIN applied' /\ applied'[k] = applied[k]
          /\ \A k \in DOMAIN e : Len(applied) + k \in DOMAIN applied'
                               /\ applied'[Len(applied) + k] = e[k]
      BY <1>1, <1>6
    <3> QED  BY <3>1, <3>2, <3>3
  <2>a. \A j, k \in DOMAIN applied : applied[j] = applied[k] => j = k
    BY DEF AppliedOnce
  <2>b. \A j, k \in DOMAIN e : e[j] = e[k] => j = k
    BY <1>6
  <2>c. \A j \in DOMAIN e : e[j] \in D
    BY <1>6
  <2>d. \A i \in D : status'[i] = "applied" /\ \E j \in DOMAIN e : e[j] = i
    BY <1>6
  <2>2. \A k \in DOMAIN applied' : status'[applied'[k]] = "applied"
    <3>1. \A k \in DOMAIN applied : status'[applied[k]] = "applied"
      BY <1>1, <1>3, <1>4 DEF AppliedOnce
    <3> QED  BY <2>1, <2>c, <2>d, <3>1
  <2>3. ASSUME NEW j \in DOMAIN applied', NEW k \in DOMAIN applied',
               applied'[j] = applied'[k]
        PROVE  j = k
    <3>1. CASE j \in DOMAIN applied /\ applied'[j] = applied[j]
      <4>1. applied'[k] \notin D
        BY <1>3, <2>3, <3>1
      <4>2. k \in DOMAIN applied /\ applied'[k] = applied[k]
        BY <2>1, <2>c, <4>1
      <4> QED  BY <2>3, <2>a, <3>1, <4>2
    <3>2. CASE \E l \in DOMAIN e : j = Len(applied) + l /\ applied'[j] = e[l]
      <4>1. PICK l \in DOMAIN e : j = Len(applied) + l /\ applied'[j] = e[l]
        BY <3>2
      <4>2. applied'[k] \in D
        BY <2>3, <2>c, <4>1
      <4>3. PICK m \in DOMAIN e : k = Len(applied) + m /\ applied'[k] = e[m]
        BY <1>3, <2>1, <4>2
      <4>4. l = m
        BY <2>3, <2>b, <4>1, <4>3
      <4> QED  BY <4>1, <4>3, <4>4
    <3> QED  BY <2>1, <3>1, <3>2
  <2>4. ASSUME NEW i \in DOMAIN status', status'[i] = "applied"
        PROVE  \E k \in DOMAIN applied' : applied'[k] = i
    <3>1. CASE i \in D
      <4>1. PICK j \in DOMAIN e : e[j] = i
        BY <2>d, <3>1
      <4> QED  BY <2>1, <4>1
    <3>2. CASE i \notin D
      <4>1. status[i] = "applied" /\ i \in DOMAIN status
        BY <1>4, <2>4, <3>2
      <4>2. PICK k \in DOMAIN applied : applied[k] = i
        BY <4>1 DEF AppliedOnce
      <4> QED  BY <2>1, <4>2
    <3> QED  BY <3>1, <3>2
  <2> QED  BY <2>2, <2>3, <2>4 DEF AppliedOnce
<1> QED  BY <1>5, <1>6 DEF Lists

(* What is applied stays older than what its cell still waits for.         *)
LEMMA AppliedStaysOlder ==
    ASSUME PoolInv, QueuesOrdered, PendingQueued, AppliedOlder, NEW s \in Stacks,
           OthersStill(s), ops' = ops, NEW D, Settles(s, D)
    PROVE  AppliedOlder'
<1> SUFFICES ASSUME NEW t \in Stacks, NEW k \in DOMAIN chain'[t],
                    NEW j \in DOMAIN chain'[t][k].entries,
                    Pends(t, k, j)', chain'[t][k].kind = "cell",
                    NEW i \in DOMAIN ops, status'[i] = "applied",
                    ops[i].kind = "set", ops[i].stack = t,
                    ops[i].version = chain'[t][k].version
             PROVE  i < chain'[t][k].entries[j]
  BY DEF AppliedOlder
<1>0. i \in DOMAIN status
  BY OpFacts DEF PoolInv
<1>1. CASE t # s
  <2>1. chain'[t] = chain[t] /\ Pends(t, k, j)
    BY <1>1, PlacesElsewhere
  <2>2. i \notin D
    BY <1>1, SettledFacts
  <2>3. status[i] = "applied"
    BY <1>0, <2>2 DEF Settles
  <2> QED  BY <2>1, <2>3 DEF AppliedOlder
<1>2. CASE t = s
  <2>1. PICK m \in DOMAIN chain[s] :
            /\ chain'[s][k].entries = chain[s][m].entries
            /\ chain'[s][k].kind = chain[s][m].kind
            /\ chain'[s][k].version = chain[s][m].version
            /\ j \in DOMAIN chain[s][m].entries /\ Pends(s, m, j)
            /\ m = 1 => ~Drops(s) /\ chain[s][1].entries[j] \notin D
    BY <1>2, PlacesAfter DEF PoolInv
  <2>2. CASE i \notin D
    <3>1. status[i] = "applied"
      BY <1>0, <2>2 DEF Settles
    <3> QED  BY <1>2, <2>1, <3>1 DEF AppliedOlder
  <2>3. CASE i \in D
    <3>1. /\ 1 \in DOMAIN chain[s] /\ chain[s][1].kind # "add"
          /\ ops[i].version = chain[s][1].version
      BY <2>3, SettledFacts
    <3>2. PICK l \in DOMAIN chain[s][1].entries :
             Pends(s, 1, l) /\ chain[s][1].entries[l] = i
      BY <2>3 DEF Settles
    <3>3. CASE m = 1
      BY <1>2, <2>1, <2>3, <3>3 DEF Settles
    <3>4. CASE m # 1
      <4>1. 1 < m
        <5>1. chain[s] \in Seq(Task)
          BY DEF PoolInv, StacksInv
        <5> QED  BY <3>4, <5>1
      <4>2. Older(chain[s][1], chain[s][m])
        BY <1>2, <2>1, <3>1, <4>1 DEF QueuesOrdered, WellQueued, Before
      <4> QED  BY <1>2, <2>1, <3>2, <4>2 DEF Older
    <3> QED  BY <3>3, <3>4
  <2> QED  BY <2>2, <2>3
<1> QED  BY <1>1, <1>2

(* The pool's own steps keep its queues.                                   *)
LEMMA PoolStepKeepsQueues ==
    ASSUME PoolInv, QueueInv, NEW s \in Stacks, PoolStep(s)
    PROVE  QueueInv' /\ \A Q : Accounted(Q) => Accounted(Q)'
<1>1. /\ OthersStill(s) /\ ops' = ops
      /\ Drops(s) \/ Starts(s) \/ Waits(s) \/ GoesOn(s)
  BY PoolStepSettles DEF QueueInv
<1>2. PICK D : Settles(s, D) /\ Lists(D)
  BY PoolStepSettles DEF QueueInv
<1>3. StacksInv /\ DOMAIN status = DOMAIN ops
  BY OpFacts DEF PoolInv, ResultsInv, ResultsKnown
<1>4. QueuesOrdered' /\ HeadClaimed'
  BY <1>1, <1>3, StepKeepsOrder DEF QueueInv
<1>5. PendingQueued'
  BY <1>1, <1>2, <1>3, PendingStays DEF QueueInv
<1>6. AppliedOnce' /\ AppliedOlder'
  BY <1>1, <1>2, AppliedStays, AppliedStaysOlder DEF QueueInv
<1>7. ASSUME NEW Q, Accounted(Q) PROVE Accounted(Q)'
  BY <1>1, <1>2, <1>3, <1>7, AccountedStays DEF QueueInv
<1> QED  BY <1>4, <1>5, <1>6, <1>7 DEF QueueInv

-----------------------------------------------------------------------------
(* Operation i is recorded behind the others.                              *)
LEMMA RecordedFacts ==
    ASSUME ResultsInv, NEW o \in Op, NEW st \in Status,
           ops' = Append(ops, o), status' = Append(status, st)
    PROVE  LET i == Len(ops) + 1 IN
           /\ i \in Nat \ {0} /\ i \notin DOMAIN ops
           /\ DOMAIN ops' = DOMAIN ops \cup {i} /\ ops'[i] = o
           /\ DOMAIN status' = DOMAIN ops' /\ DOMAIN status = DOMAIN ops
           /\ status'[i] = st
           /\ \A e \in DOMAIN ops : e < i /\ ops'[e] = ops[e] /\ status'[e] = status[e]
           /\ Extends(ops, ops', i)
<1>1. ops \in Seq(Op) /\ status \in Seq(Status) /\ Len(status) = Len(ops)
  BY DEF ResultsInv, ResultsKnown
<1>2. /\ DOMAIN ops' = DOMAIN ops \cup {Len(ops) + 1} /\ ops'[Len(ops) + 1] = o
      /\ \A e \in DOMAIN ops : ops'[e] = ops[e]
  BY <1>1, AppendFacts
<1>3. /\ DOMAIN status' = DOMAIN status \cup {Len(status) + 1}
      /\ status'[Len(status) + 1] = st
      /\ \A e \in DOMAIN status : status'[e] = status[e]
  BY <1>1, AppendFacts
<1>4. DOMAIN ops = 1 .. Len(ops) /\ DOMAIN status = 1 .. Len(ops) /\ Len(ops) \in Nat
  BY <1>1
<1> QED  BY <1>1, <1>2, <1>3, <1>4 DEF Extends

(* What enqueueing adds to a queue: operation i, in a task of its own or   *)
(* in one that is not claimed.                                             *)
Grown(q, n, i) ==
    /\ \A k \in DOMAIN q :
          /\ k \in DOMAIN n
          /\ n[k].kind = q[k].kind /\ n[k].version = q[k].version
          /\ n[k].open => q[k].open
          /\ \A j \in DOMAIN q[k].entries :
                j \in DOMAIN n[k].entries /\ n[k].entries[j] = q[k].entries[j]
    /\ \A k \in DOMAIN n : \A j \in DOMAIN n[k].entries :
          (k \in DOMAIN q /\ j \in DOMAIN q[k].entries) \/ n[k].entries[j] = i

Holding(q, n, i) ==
    \E k \in DOMAIN n : \E j \in DOMAIN n[k].entries :
        n[k].entries[j] = i /\ (k = 1 => q = <<>> \/ q[1].open)

LEMMA AppendGrows ==
    ASSUME NEW q \in Seq(Task), NEW c \in Seq(Task), NEW i, NEW u \in Task,
           u.entries = <<i>>, DOMAIN c = DOMAIN q,
           \A k \in DOMAIN q :
              /\ c[k].kind = q[k].kind /\ c[k].version = q[k].version
              /\ c[k].open => q[k].open
              /\ c[k].entries = q[k].entries
    PROVE  Grown(q, Append(c, u), i) /\ Holding(q, Append(c, u), i)
<1> DEFINE n == Append(c, u)
<1>1. /\ DOMAIN n = DOMAIN c \cup {Len(c) + 1} /\ n[Len(c) + 1] = u
      /\ \A k \in DOMAIN c : n[k] = c[k]
  BY AppendFacts
<1>2. 1 \in DOMAIN u.entries /\ \A j \in DOMAIN u.entries : u.entries[j] = i
  BY SingletonFacts
<1>3. Len(c) + 1 = 1 => q = <<>>
  <2> SUFFICES ASSUME Len(c) + 1 = 1, q # <<>> PROVE FALSE
    OBVIOUS
  <2>1. 1 \notin DOMAIN c /\ 1 \in DOMAIN q
    OBVIOUS
  <2> QED  BY <2>1
<1> HIDE DEF n
<1>4. Grown(q, n, i)
  BY <1>1, <1>2 DEF Grown
<1>5. Holding(q, n, i)
  BY <1>1, <1>2, <1>3 DEF Holding
<1> QED  BY <1>4, <1>5 DEF n

LEMMA EnqueuedQueue ==
    ASSUME PoolInv, QueuesOrdered, NEW o \in Op, o.kind \in {"set", "add"}, NEW st \in Status,
           ops' = Append(ops, o), status' = Append(status, st),
           Enqueue(Len(ops) + 1, o)
    PROVE  LET s == o.stack
               i == Len(ops) + 1 IN
           /\ \A t \in Stacks : t # s => chain'[t] = chain[t]
           /\ WellQueued(chain'[s], s, ops')
           /\ Grown(chain[s], chain'[s], i)
           /\ fatal = 0 => Holding(chain[s], chain'[s], i)
<1> DEFINE s == o.stack
           i == Len(ops) + 1
           v == o.version
           q == chain[s]
<1>1. /\ i \in Nat \ {0} /\ i \notin DOMAIN ops /\ ops'[i] = o
      /\ Extends(ops, ops', i)
  BY RecordedFacts DEF PoolInv
<1>2. s \in Stacks /\ v \in Versions
  BY DEF Op
<1>3. chain \in [Stacks -> Seq(Task)] /\ q \in Seq(Task) /\ WellQueued(q, s, ops)
  BY <1>2 DEF PoolInv, StacksInv, QueuesOrdered
<1>4. EntriesIn(q, ops)
  BY <1>2 DEF PoolInv, StacksInv, TasksKnown, EntriesIn
<1>5. \A k \in DOMAIN q : /\ q[k] \in Task /\ q[k].entries \in Seq(Nat \ {0})
                          /\ q[k].version \in Versions /\ q[k].kind \in {"cell", "add"}
  <2>1. \A k \in DOMAIN q : q[k] \in Task
    BY <1>3
  <2> QED  BY <2>1 DEF Task
<1>6. ASSUME NEW n, chain' = [chain EXCEPT ![s] = n],
             WellQueued(n, s, ops'), Grown(q, n, i), fatal = 0 => Holding(q, n, i)
      PROVE  /\ \A t \in Stacks : t # s => chain'[t] = chain[t]
             /\ WellQueued(chain'[s], s, ops')
             /\ Grown(q, chain'[s], i)
             /\ fatal = 0 => Holding(q, chain'[s], i)
  BY <1>2, <1>3, <1>6
<1>7. CASE fatal # 0
  <2>1. chain' = chain
    BY <1>7 DEF Enqueue
  <2>2. WellQueued(q, s, ops')
    BY <1>1, <1>3, <1>4, SameQueued
  <2> QED  BY <1>7, <2>1, <2>2 DEF Grown
<1> HIDE DEF i, s, v
<1>8. \A x \in {"cell", "add"}, b \in BOOLEAN :
         [kind |-> x, version |-> v, entries |-> <<i>>, open |-> b] \in Task
  <2>1. <<i>> \in Seq(Nat \ {0})
    BY <1>1
  <2> QED  BY <1>2, <2>1 DEF Task
<1>9. o.stack = s /\ o.version = v
  BY DEF s, v
<1>10. CASE fatal = 0 /\ o.kind = "add"
  <2> DEFINE c == CloseCells(q, Versions)
             x == [kind |-> "add", version |-> v, entries |-> <<i>>, open |-> FALSE]
  <2>1. chain' = [chain EXCEPT ![s] = Append(c, x)]
    BY <1>10 DEF Enqueue, EnqueueAdd, i, s, v
  <2>2. c \in Seq(Task) /\ Len(c) = Len(q) /\ WellQueued(c, s, ops)
    BY <1>3, CloseCellsKeeps, CloseQueued
  <2>3. /\ DOMAIN c = DOMAIN q
        /\ \A k \in DOMAIN q :
              /\ c[k].kind = q[k].kind /\ c[k].version = q[k].version
              /\ ~c[k].open
              /\ c[k].entries = q[k].entries
    <3>1. DOMAIN c = DOMAIN q
      BY DEF CloseCells
    <3>2. ASSUME NEW k \in DOMAIN q
          PROVE  /\ c[k].kind = q[k].kind /\ c[k].version = q[k].version
                 /\ ~c[k].open
                 /\ c[k].entries = q[k].entries
      <4>1. c[k] = [q[k] EXCEPT !.open = FALSE]
        BY <1>5 DEF CloseCells
      <4> HIDE DEF c
      <4> QED  BY <1>5, <4>1 DEF Task
    <3> QED  BY <3>1, <3>2
  <2>4. x \in Task /\ x.entries = <<i>> /\ x.kind = "add" /\ ~x.open
    BY <1>8
  <2> HIDE DEF c, x
  <2>5. EntriesIn(c, ops)
    BY <1>4, <2>3 DEF EntriesIn
  <2>6. InTask(x, s, ops')
    <3>1. \A j \in DOMAIN x.entries : x.entries[j] = i
      BY <2>4, SingletonFacts
    <3>2. Len(x.entries) = 1 /\ \A a, b \in DOMAIN x.entries : ~(a < b)
      <4>1. DOMAIN x.entries = {1} /\ Len(x.entries) = 1
        BY <2>4
      <4> QED  BY <4>1
    <3> QED  BY <1>1, <1>9, <1>10, <2>4, <3>1, <3>2 DEF InTask
  <2>7. WellQueued(Append(c, x), s, ops')
    BY <1>1, <2>2, <2>3, <2>4, <2>5, <2>6, AppendQueued
  <2>8. Grown(q, Append(c, x), i) /\ Holding(q, Append(c, x), i)
    BY <1>3, <2>2, <2>3, <2>4, AppendGrows
  <2> QED  BY <1>6, <2>1, <2>7, <2>8 DEF s, i
<1>11. CASE fatal = 0 /\ o.kind = "set" /\ Joins(s, v) = {}
  <2> DEFINE x == [kind |-> "cell", version |-> v, entries |-> <<i>>, open |-> TRUE]
  <2>1. chain' = [chain EXCEPT ![s] = Append(q, x)]
    BY <1>11 DEF Enqueue, EnqueueCell, i, s, v
  <2>2. x \in Task /\ x.entries = <<i>> /\ x.kind = "cell" /\ x.open /\ x.version = v
    BY <1>8
  <2> HIDE DEF x
  <2>3. InTask(x, s, ops')
    <3>1. \A j \in DOMAIN x.entries : x.entries[j] = i
      BY <2>2, SingletonFacts
    <3>2. Len(x.entries) = 1 /\ \A a, b \in DOMAIN x.entries : ~(a < b)
      <4>1. DOMAIN x.entries = {1} /\ Len(x.entries) = 1
        BY <2>2
      <4> QED  BY <4>1
    <3> QED  BY <1>1, <1>9, <1>11, <2>2, <3>1, <3>2 DEF InTask
  <2>4. \A k \in DOMAIN q : q[k].open => x.kind # "add" /\ x.version # q[k].version
    BY <1>11, <2>2 DEF Joins
  <2>5. WellQueued(Append(q, x), s, ops')
    BY <1>1, <1>3, <1>4, <2>2, <2>3, <2>4, AppendQueued
  <2>6. Grown(q, Append(q, x), i) /\ Holding(q, Append(q, x), i)
    <3> HIDE DEF q
    <3> QED  BY <1>3, <2>2, AppendGrows
  <2> QED  BY <1>6, <2>1, <2>5, <2>6 DEF s, i
<1>12. CASE fatal = 0 /\ o.kind = "set" /\ Joins(s, v) # {}
  <2> DEFINE n == [k \in DOMAIN q |->
                       IF k \in Joins(s, v)
                       THEN [q[k] EXCEPT !.entries = Append(q[k].entries, i)]
                       ELSE q[k]]
  <2>1. chain' = [chain EXCEPT ![s] = n]
    BY <1>12 DEF Enqueue, EnqueueCell, i, s, v
  <2>2. DOMAIN n = DOMAIN q
    OBVIOUS
  <2>3. ASSUME NEW k \in DOMAIN q
        PROVE  /\ n[k].kind = q[k].kind /\ n[k].version = q[k].version
               /\ n[k].open = q[k].open
               /\ n[k].entries = IF q[k].open /\ q[k].version = v
                                 THEN Append(q[k].entries, i) ELSE q[k].entries
    <3>1. k \in Joins(s, v) <=> q[k].open /\ q[k].version = v
      BY DEF Joins
    <3>2. CASE k \in Joins(s, v)
      <4> DEFINE e == Append(q[k].entries, i)
      <4>1. n[k] = [q[k] EXCEPT !.entries = e]
        BY <3>2
      <4> HIDE DEF n, e
      <4>2. q[k] \in Task
        BY <1>5
      <4>3. /\ n[k].kind = q[k].kind /\ n[k].version = q[k].version
            /\ n[k].open = q[k].open /\ n[k].entries = e
        BY <4>1, <4>2 DEF Task
      <4> QED  BY <3>1, <3>2, <4>3 DEF e
    <3>3. CASE k \notin Joins(s, v)
      BY <3>1, <3>3
    <3> QED  BY <3>2, <3>3
  <2> HIDE DEF n
  <2>4. WellQueued(n, s, ops')
    <3>1. ops'[i].stack = s /\ ops'[i].kind = "set" /\ ops'[i].version = v
      BY <1>1, <1>9, <1>12
    <3>2. Joined(q, n, v, i)
      BY <2>2, <2>3 DEF Joined
    <3> HIDE DEF q
    <3> QED  BY <1>1, <1>3, <1>4, <3>1, <3>2, JoinQueued
  <2>5. ASSUME NEW k \in DOMAIN q
        PROVE  /\ \A j \in DOMAIN q[k].entries :
                     j \in DOMAIN n[k].entries /\ n[k].entries[j] = q[k].entries[j]
               /\ \A j \in DOMAIN n[k].entries :
                     j \in DOMAIN q[k].entries \/ n[k].entries[j] = i
               /\ k \in Joins(s, v) => \E j \in DOMAIN n[k].entries : n[k].entries[j] = i
    <3>1. CASE n[k].entries = q[k].entries /\ k \notin Joins(s, v)
      BY <3>1
    <3>2. CASE n[k].entries = Append(q[k].entries, i)
      <4>1. i \in Nat \ {0} /\ q[k].entries \in Seq(Nat \ {0})
        BY <1>1, <1>5
      <4>2. /\ DOMAIN n[k].entries = DOMAIN q[k].entries \cup {Len(q[k].entries) + 1}
            /\ n[k].entries[Len(q[k].entries) + 1] = i
            /\ \A j \in DOMAIN q[k].entries : n[k].entries[j] = q[k].entries[j]
        BY <3>2, <4>1, AppendFacts
      <4> QED  BY <4>2
    <3> QED  BY <2>3, <3>1, <3>2 DEF Joins
  <2>6. Grown(q, n, i)
    BY <2>2, <2>3, <2>5 DEF Grown
  <2>7. Holding(q, n, i)
    <3>1. PICK k \in DOMAIN q : k \in Joins(s, v) /\ q[k].open
      BY <1>12 DEF Joins
    <3> QED  BY <2>2, <2>5, <3>1 DEF Holding
  <2> QED  BY <1>6, <2>1, <2>4, <2>6, <2>7 DEF s, i
<1>13. Joins(s, v) = {} \/ Joins(s, v) # {}
  OBVIOUS
<1>14. fatal = 0 \/ fatal # 0
  OBVIOUS
<1> QED  BY <1>7, <1>10, <1>11, <1>12, <1>13, <1>14 DEF s, i

(* An operation without an outcome takes nothing from the results.         *)
LEMMA RecordKeepsApplied ==
    ASSUME ResultsInv, AppliedOnce, NEW o \in Op, NEW st \in Status, st # "applied",
           ops' = Append(ops, o), status' = Append(status, st), applied' = applied
    PROVE  AppliedOnce'
<1> DEFINE i == Len(ops) + 1
<1>1. /\ i \notin DOMAIN ops
      /\ DOMAIN ops' = DOMAIN ops \cup {i}
      /\ DOMAIN status' = DOMAIN ops' /\ DOMAIN status = DOMAIN ops
      /\ status'[i] = st
      /\ \A e \in DOMAIN ops : status'[e] = status[e]
  BY RecordedFacts
<1>2. \A k \in DOMAIN applied : applied[k] \in DOMAIN ops
  BY DEF ResultsInv, ResultsKnown
<1> HIDE DEF i
<1> QED  BY <1>1, <1>2 DEF AppliedOnce

LEMMA EnqueueKeepsQueues ==
    ASSUME PoolInv, QueueInv, NEW o \in Op, o.kind \in {"set", "add"},
           ops' = Append(ops, o), status' = Append(status, "queued"),
           UNCHANGED tenant, Enqueue(Len(ops) + 1, o)
    PROVE  QueueInv' /\ \A Q : Accounted(Q) => Accounted(Q)'
<1> DEFINE s == o.stack
           i == Len(ops) + 1
           q == chain[s]
<1>0. "queued" \in Status /\ "queued" # "applied"
  BY DEF Status
<1>1. /\ i \in Nat \ {0} /\ i \notin DOMAIN ops /\ ops'[i] = o
      /\ DOMAIN ops' = DOMAIN ops \cup {i}
      /\ DOMAIN status' = DOMAIN ops' /\ DOMAIN status = DOMAIN ops
      /\ status'[i] = "queued"
      /\ \A e \in DOMAIN ops : e < i /\ ops'[e] = ops[e] /\ status'[e] = status[e]
      /\ Extends(ops, ops', i)
  BY <1>0, RecordedFacts DEF PoolInv
<1>2. s \in Stacks
  BY DEF Op
<1>3. /\ \A t \in Stacks : t # s => chain'[t] = chain[t]
      /\ WellQueued(chain'[s], s, ops')
      /\ Grown(q, chain'[s], i)
      /\ fatal = 0 => Holding(q, chain'[s], i)
  BY <1>0, EnqueuedQueue DEF QueueInv
<1>4. UNCHANGED <<at, step, fatal, applied>>
  BY DEF Enqueue
<1> HIDE DEF i, s
<1>5. \A t \in Stacks : \A k \in DOMAIN chain[t] : \A j \in DOMAIN chain[t][k].entries :
         chain[t][k].entries[j] \in DOMAIN ops
  BY DEF PoolInv, StacksInv, TasksKnown
<1>6. \A t \in Stacks : chain[t] \in Seq(Task)
  BY DEF PoolInv, StacksInv
<1>7. QueuesOrdered'
  <2>1. ASSUME NEW t \in Stacks, t # s PROVE WellQueued(chain'[t], t, ops')
    <3>1. EntriesIn(chain[t], ops) /\ WellQueued(chain[t], t, ops)
      BY <1>5 DEF EntriesIn, QueueInv, QueuesOrdered
    <3> QED  BY <1>1, <1>3, <1>6, <2>1, <3>1, SameQueued
  <2> QED  BY <1>3, <2>1 DEF QueuesOrdered
(* Each place of a queue is an old one or holds i.                         *)
<1>8. ASSUME NEW t \in Stacks, NEW k \in DOMAIN chain'[t],
             NEW j \in DOMAIN chain'[t][k].entries
      PROVE  \/ /\ k \in DOMAIN chain[t] /\ j \in DOMAIN chain[t][k].entries
                /\ chain'[t][k].entries[j] = chain[t][k].entries[j]
                /\ chain'[t][k].kind = chain[t][k].kind
                /\ chain'[t][k].version = chain[t][k].version
             \/ chain'[t][k].entries[j] = i
  <2>1. CASE t = s
    BY <1>3, <2>1 DEF Grown
  <2>2. CASE t # s
    BY <1>3, <2>2
  <2> QED  BY <2>1, <2>2
(* An old place pends as before.                                           *)
<1>9. ASSUME NEW t \in Stacks, NEW k \in DOMAIN chain[t],
             NEW j \in DOMAIN chain[t][k].entries
      PROVE  /\ k \in DOMAIN chain'[t] /\ j \in DOMAIN chain'[t][k].entries
             /\ chain'[t][k].entries[j] = chain[t][k].entries[j]
             /\ Pends(t, k, j)' <=> Pends(t, k, j)
  <2>1. /\ k \in DOMAIN chain'[t] /\ j \in DOMAIN chain'[t][k].entries
        /\ chain'[t][k].entries[j] = chain[t][k].entries[j]
    <3>1. CASE t = s
      BY <1>3, <3>1 DEF Grown
    <3>2. CASE t # s
      BY <1>3, <3>2
    <3> QED  BY <3>1, <3>2
  <2> QED  BY <1>4, <2>1 DEF Pends
<1>10. HeadClaimed'
  <2> SUFFICES ASSUME NEW t \in Stacks, at[t] \in InFlight
               PROVE  /\ at[t] \in {"merged", "single"} => Head1(t)'.kind = "cell"
                      /\ at[t] = "adding" => Head1(t)'.kind = "add"
                      /\ ~Head1(t)'.open
    BY <1>4 DEF HeadClaimed, InFlight
  <2>1. chain[t] # <<>> /\ 1 \in DOMAIN chain[t] /\ Head1(t) = chain[t][1]
    <3>1. chain[t] # <<>>
      BY DEF PoolInv, StacksInv, HeadRuns, InFlight
    <3> QED  BY <3>1, HeadFacts DEF PoolInv
  <2>2. chain'[t] \in Seq(Task)
    <3>1. PoolInv'
      BY <1>0, EnqueueKeeps
    <3> QED  BY <3>1 DEF PoolInv, StacksInv
  <2>3. /\ 1 \in DOMAIN chain'[t]
        /\ chain'[t][1].kind = chain[t][1].kind
        /\ chain'[t][1].open => chain[t][1].open
    <3>1. CASE t = s
      BY <1>3, <2>1, <3>1 DEF Grown
    <3>2. CASE t # s
      BY <1>3, <2>1, <3>2
    <3> QED  BY <3>1, <3>2
  <2>4. Head1(t)' = chain'[t][1]
    <3>1. chain'[t] # <<>>
      BY <2>2, <2>3
    <3> QED  BY <2>2, <3>1 DEF Head1
  <2> QED  BY <2>1, <2>3, <2>4 DEF QueueInv, HeadClaimed
<1>11. PendingQueued'
  <2> SUFFICES ASSUME NEW t \in Stacks, NEW k \in DOMAIN chain'[t],
                      NEW j \in DOMAIN chain'[t][k].entries, Pends(t, k, j)'
               PROVE  status'[chain'[t][k].entries[j]] = "queued"
    BY DEF PendingQueued
  <2>1. CASE chain'[t][k].entries[j] = i
    BY <1>1, <2>1
  <2>2. CASE /\ k \in DOMAIN chain[t] /\ j \in DOMAIN chain[t][k].entries
             /\ chain'[t][k].entries[j] = chain[t][k].entries[j]
    <3>1. status[chain[t][k].entries[j]] = "queued"
      BY <1>9, <2>2 DEF QueueInv, PendingQueued
    <3> QED  BY <1>1, <1>5, <2>2, <3>1
  <2> QED  BY <1>8, <2>1, <2>2
<1>12. AppliedOnce'
  BY <1>0, <1>4, RecordKeepsApplied DEF PoolInv, QueueInv
<1>13. AppliedOlder'
  <2> SUFFICES ASSUME NEW t \in Stacks, NEW k \in DOMAIN chain'[t],
                      NEW j \in DOMAIN chain'[t][k].entries,
                      Pends(t, k, j)', chain'[t][k].kind = "cell",
                      NEW x \in DOMAIN ops', status'[x] = "applied",
                      ops'[x].kind = "set", ops'[x].stack = t,
                      ops'[x].version = chain'[t][k].version
               PROVE  x < chain'[t][k].entries[j]
    BY DEF AppliedOlder
  <2>1. x \in DOMAIN ops /\ x < i /\ ops'[x] = ops[x] /\ status[x] = "applied"
    BY <1>1
  <2>2. CASE chain'[t][k].entries[j] = i
    BY <2>1, <2>2
  <2>3. CASE /\ k \in DOMAIN chain[t] /\ j \in DOMAIN chain[t][k].entries
             /\ chain'[t][k].entries[j] = chain[t][k].entries[j]
             /\ chain'[t][k].kind = chain[t][k].kind
             /\ chain'[t][k].version = chain[t][k].version
    BY <1>9, <2>1, <2>3 DEF QueueInv, AppliedOlder
  <2> QED  BY <1>8, <2>2, <2>3
<1>14. ASSUME NEW Q, Accounted(Q) PROVE Accounted(Q)'
  <2> SUFFICES ASSUME fatal = 0, NEW x \in DOMAIN ops' \ Q, status'[x] = "queued"
               PROVE  InQueue(x)'
    BY <1>4 DEF Accounted
  <2>1. CASE x = i
    <3>1. PICK k \in DOMAIN chain'[s] : \E j \in DOMAIN chain'[s][k].entries :
             chain'[s][k].entries[j] = i /\ (k = 1 => q = <<>> \/ q[1].open)
      BY <1>3 DEF Holding
    <3>2. PICK j \in DOMAIN chain'[s][k].entries :
             chain'[s][k].entries[j] = i /\ (k = 1 => q = <<>> \/ q[1].open)
      BY <3>1
    <3>3. ~(k = 1 /\ at[s] = "single")
      <4>1. at[s] = "single" => q # <<>> /\ ~Head1(s).open
        BY <1>2 DEF PoolInv, StacksInv, HeadRuns, QueueInv, HeadClaimed, InFlight
      <4>2. q # <<>> => Head1(s) = q[1]
        BY <1>2, HeadFacts DEF PoolInv
      <4> QED  BY <3>2, <4>1, <4>2
    <3>4. Pends(s, k, j)'
      BY <1>4, <3>2, <3>3 DEF Pends
    <3> QED  BY <1>2, <2>1, <3>2, <3>4 DEF InQueue
  <2>2. CASE x # i
    <3>1. x \in DOMAIN ops /\ status[x] = "queued"
      BY <1>1, <2>2
    <3>2. PICK t \in Stacks : \E k \in DOMAIN chain[t] :
             \E j \in DOMAIN chain[t][k].entries :
                Pends(t, k, j) /\ chain[t][k].entries[j] = x
      BY <1>14, <3>1 DEF Accounted, InQueue
    <3>3. PICK k \in DOMAIN chain[t] : \E j \in DOMAIN chain[t][k].entries :
                Pends(t, k, j) /\ chain[t][k].entries[j] = x
      BY <3>2
    <3>4. PICK j \in DOMAIN chain[t][k].entries :
                Pends(t, k, j) /\ chain[t][k].entries[j] = x
      BY <3>3
    <3> QED  BY <1>9, <3>4 DEF InQueue
  <2> QED  BY <2>1, <2>2
<1> QED  BY <1>7, <1>10, <1>11, <1>12, <1>13, <1>14 DEF QueueInv

(* An operation that is recorded without the pool.                         *)
LEMMA NoteKeepsQueues ==
    ASSUME PoolInv, QueueInv, NEW i, i = Len(ops) + 1, NEW o \in Op, NEW st \in Status, st # "applied",
           ops' = Append(ops, o), status' = Append(status, st), UNCHANGED poolVars
    PROVE  /\ QueueInv'
           /\ \A Q : Accounted(Q) => Accounted(Q \cup {i})'
           /\ st # "queued" => \A Q : Accounted(Q) => Accounted(Q)'
<1>1. /\ i \in Nat \ {0} /\ i \notin DOMAIN ops
      /\ DOMAIN ops' = DOMAIN ops \cup {i}
      /\ DOMAIN status' = DOMAIN ops' /\ DOMAIN status = DOMAIN ops
      /\ status'[i] = st
      /\ \A e \in DOMAIN ops : e < i /\ ops'[e] = ops[e] /\ status'[e] = status[e]
      /\ Extends(ops, ops', i)
  BY RecordedFacts DEF PoolInv
<1>2. UNCHANGED <<chain, at, step, fatal, applied>>
  BY DEF poolVars
<1>3. \A t \in Stacks : \A k \in DOMAIN chain[t] : \A j \in DOMAIN chain[t][k].entries :
         chain[t][k].entries[j] \in DOMAIN ops
  BY DEF PoolInv, StacksInv, TasksKnown
<1>4. QueuesOrdered'
  <2>1. ASSUME NEW t \in Stacks PROVE WellQueued(chain[t], t, ops')
    <3>1. EntriesIn(chain[t], ops) /\ WellQueued(chain[t], t, ops) /\ chain[t] \in Seq(Task)
      BY <1>3 DEF EntriesIn, QueueInv, QueuesOrdered, PoolInv, StacksInv
    <3> QED  BY <1>1, <3>1, SameQueued
  <2> QED  BY <1>2, <2>1 DEF QueuesOrdered
<1>5. HeadClaimed'
  BY <1>2 DEF QueueInv, HeadClaimed, Head1
<1>6. \A t, k, j : Pends(t, k, j)' <=> Pends(t, k, j)
  BY <1>2 DEF Pends
<1>7. PendingQueued'
  BY <1>1, <1>2, <1>3, <1>6 DEF QueueInv, PendingQueued
<1>8. AppliedOnce'
  BY <1>2, RecordKeepsApplied DEF PoolInv, QueueInv
<1>9. AppliedOlder'
  <2> SUFFICES ASSUME NEW t \in Stacks, NEW k \in DOMAIN chain[t],
                      NEW j \in DOMAIN chain[t][k].entries,
                      Pends(t, k, j), chain[t][k].kind = "cell",
                      NEW x \in DOMAIN ops', status'[x] = "applied",
                      ops'[x].kind = "set", ops'[x].stack = t,
                      ops'[x].version = chain[t][k].version
               PROVE  x < chain[t][k].entries[j]
    <3>1. chain' = chain
      BY <1>2
    <3> QED  BY <1>6, <3>1 DEF AppliedOlder
  <2>1. x \in DOMAIN ops /\ ops'[x] = ops[x] /\ status[x] = "applied"
    BY <1>1
  <2> QED  BY <2>1 DEF QueueInv, AppliedOlder
<1>10. \A x : InQueue(x) => InQueue(x)'
  BY <1>2, <1>6 DEF InQueue
<1>11. ASSUME NEW Q, Accounted(Q) PROVE Accounted(Q \cup {i})'
  BY <1>1, <1>2, <1>10, <1>11 DEF Accounted
<1>12. ASSUME st # "queued", NEW Q, Accounted(Q) PROVE Accounted(Q)'
  BY <1>1, <1>2, <1>10, <1>12 DEF Accounted
<1> QED  BY <1>4, <1>5, <1>7, <1>8, <1>9, <1>11, <1>12 DEF QueueInv

LEMMA StutterKeepsQueues ==
    ASSUME QueueInv, UNCHANGED <<ops, status, poolVars>>
    PROVE  QueueInv' /\ \A Q : Accounted(Q) => Accounted(Q)'
  BY DEF QueueInv, QueuesOrdered, HeadClaimed, Head1, PendingQueued, Pends,
         AppliedOnce, AppliedOlder, Accounted, InQueue, poolVars

LEMMA InitialQueues ==
    ASSUME PoolInit, ops = <<>>, status = <<>>
    PROVE  QueueInv /\ \A Q : Accounted(Q)
<1>1. /\ \A s \in Stacks : chain[s] = <<>> /\ at[s] = "idle"
      /\ applied = <<>>
  BY DEF PoolInit
<1>2. DOMAIN ops = {} /\ DOMAIN status = {} /\ DOMAIN applied = {}
      /\ \A s \in Stacks : DOMAIN chain[s] = {}
  BY <1>1
<1> QED  BY <1>1, <1>2 DEF QueueInv, QueuesOrdered, WellQueued, HeadClaimed,
            PendingQueued, AppliedOnce, AppliedOlder, Accounted, InFlight

=============================================================================
