---------------------------- MODULE RwLock_proofs ----------------------------
(***************************************************************************)
(* Proofs about RwLock for any finite set of callers: type correctness,    *)
(* mutual exclusion and the absence of lost wake-ups.                      *)
(***************************************************************************)
EXTENDS RwLock, FiniteSetTheorems, TLAPS

Distinct(q) == \A i, j \in 1 .. Len(q) : q[i] = q[j] => i = j

(* The counters mean what their names say ...                              *)
CountersExact ==
    /\ readers = Cardinality(InState("reading"))
    /\ writerActive <=> InState("writing") # {}
    /\ writerActive => readers = 0
    /\ \A c, d \in InState("writing") : c = d

(* ... the queues hold exactly the callers that wait, once each ...        *)
QueuesExact ==
    /\ Queued(waitingReaders) = InState("queuedRead")
    /\ Queued(waitingWriters) = InState("queuedWrite")
    /\ Distinct(waitingReaders)
    /\ Distinct(waitingWriters)

(* ... and whoever waits has somebody ahead that will hand the lock over.  *)
WaitersHaveHolder ==
    /\ waitingWriters # <<>> => writerActive \/ readers > 0
    /\ waitingReaders # <<>> => writerActive \/ waitingWriters # <<>>

IInv == TypeOK /\ CountersExact /\ QueuesExact /\ WaitersHaveHolder

-----------------------------------------------------------------------------
LEMMA QueuedAppend ==
    ASSUME NEW S, NEW q \in Seq(S), NEW c \in S, Distinct(q), c \notin Queued(q)
    PROVE  /\ Append(q, c) \in Seq(S)
           /\ Append(q, c) # <<>>
           /\ Queued(Append(q, c)) = Queued(q) \cup {c}
           /\ Distinct(Append(q, c))
<1>1. /\ Append(q, c) \in Seq(S)
      /\ Len(Append(q, c)) = Len(q) + 1
      /\ Append(q, c)[Len(q) + 1] = c
      /\ \A i \in 1 .. Len(q) : Append(q, c)[i] = q[i]
  OBVIOUS
<1>2. Queued(Append(q, c)) = Queued(q) \cup {c}
  BY <1>1 DEF Queued
<1>3. Distinct(Append(q, c))
  BY <1>1 DEF Distinct, Queued
<1> QED  BY <1>1, <1>2, <1>3

LEMMA QueuedTail ==
    ASSUME NEW S, NEW q \in Seq(S), q # <<>>, Distinct(q)
    PROVE  /\ Head(q) \in S
           /\ Head(q) \in Queued(q)
           /\ Tail(q) \in Seq(S)
           /\ Queued(Tail(q)) = Queued(q) \ {Head(q)}
           /\ Distinct(Tail(q))
<1>1. /\ Tail(q) \in Seq(S)
      /\ Len(q) \in Nat \ {0}
      /\ Len(Tail(q)) = Len(q) - 1
      /\ Head(q) = q[1]
      /\ \A i \in 1 .. Len(Tail(q)) : Tail(q)[i] = q[i + 1]
  OBVIOUS
<1>2. Queued(Tail(q)) = Queued(q) \ {Head(q)}
  <2>1. ASSUME NEW x \in Queued(Tail(q))
        PROVE  x \in Queued(q) \ {Head(q)}
    BY <1>1, <2>1 DEF Queued, Distinct
  <2>2. ASSUME NEW x \in Queued(q), x # Head(q)
        PROVE  x \in Queued(Tail(q))
    <3>1. PICK i \in 1 .. Len(q) : x = q[i]
      BY <2>2 DEF Queued
    <3>2. i - 1 \in 1 .. Len(Tail(q)) /\ Tail(q)[i - 1] = x
      BY <1>1, <2>2, <3>1
    <3> QED  BY <3>2 DEF Queued
  <2> QED  BY <2>1, <2>2
<1>3. Distinct(Tail(q))
  BY <1>1 DEF Distinct
<1>4. Head(q) \in S /\ Head(q) \in Queued(q)
  <2>1. 1 \in 1 .. Len(q)
    BY <1>1
  <2> QED  BY <1>1, <2>1 DEF Queued
<1> QED  BY <1>1, <1>2, <1>3, <1>4

LEMMA QueuedEmpty ==
    ASSUME NEW S, NEW q \in Seq(S)
    PROVE  Queued(q) = {} <=> q = <<>>
<1>1. CASE q = <<>>
  BY <1>1 DEF Queued
<1>2. CASE q # <<>>
  <2>1. 1 \in 1 .. Len(q)
    BY <1>2
  <2> QED  BY <1>2, <2>1 DEF Queued
<1> QED  BY <1>1, <1>2

LEMMA QueuedCardinality ==
    ASSUME NEW S, NEW q \in Seq(S), Distinct(q)
    PROVE  /\ IsFiniteSet(Queued(q))
           /\ Cardinality(Queued(q)) = Len(q)
<1>1. q \in Bijection(1 .. Len(q), Queued(q))
  BY DEF Bijection, Injection, Surjection, IsInjective, Distinct, Queued
<1>2. ExistsBijection(1 .. Len(q), Queued(q))
  BY <1>1 DEF ExistsBijection
<1>3. Len(q) \in Nat
  OBVIOUS
<1> QED  BY <1>2, <1>3, FS_CountingElements, FS_NatBijection

LEMMA InStateFinite == \A st : IsFiniteSet(InState(st))
<1> TAKE st
<1>1. InState(st) \in SUBSET Callers
  BY DEF InState
<1> QED  BY <1>1, CallersAssumption, FS_Subset

-----------------------------------------------------------------------------
LEMMA InitIInv == Init => IInv
<1> SUFFICES ASSUME Init PROVE IInv
  OBVIOUS
<1>1. TypeOK
  <2>1. <<>> \in Seq(Callers)
    OBVIOUS
  <2> QED  BY <2>1 DEF Init, TypeOK, CallState
<1>2. \A st \in CallState \ {"idle"} : InState(st) = {}
  BY DEF Init, InState, CallState
<1>3. CountersExact
  BY <1>2, FS_EmptySet DEF Init, CountersExact, CallState
<1>4. QueuesExact /\ WaitersHaveHolder
  BY <1>2 DEF Init, QueuesExact, WaitersHaveHolder, Queued, Distinct, CallState
<1> QED  BY <1>1, <1>3, <1>4 DEF IInv

LEMMA StepAcquireRead ==
    ASSUME IInv, NEW c \in Callers, AcquireRead(c)
    PROVE  IInv'
<1> USE DEF IInv
<1>1. CASE MayRead
  <2>1. InState("reading")' = InState("reading") \cup {c} /\ c \notin InState("reading")
    BY <1>1 DEF AcquireRead, TypeOK, InState
  <2>2. \A st \in {"writing", "queuedRead", "queuedWrite"} : InState(st)' = InState(st)
    BY <1>1 DEF AcquireRead, TypeOK, InState
  <2>3. Cardinality(InState("reading")') = Cardinality(InState("reading")) + 1
    BY <2>1, InStateFinite, FS_AddElement
  <2>4. TypeOK'
    BY <1>1 DEF AcquireRead, TypeOK, CallState
  <2>5. CountersExact'
    BY <1>1, <2>2, <2>3 DEF AcquireRead, CountersExact, MayRead, TypeOK
  <2>6. QueuesExact'
    BY <1>1, <2>2 DEF AcquireRead, QueuesExact
  <2>7. WaitersHaveHolder'
    BY <1>1 DEF AcquireRead, WaitersHaveHolder, MayRead, TypeOK
  <2> QED  BY <2>4, <2>5, <2>6, <2>7
<1>2. CASE ~MayRead
  <2>1. InState("queuedRead")' = InState("queuedRead") \cup {c} /\ c \notin InState("queuedRead")
    BY <1>2 DEF AcquireRead, TypeOK, InState
  <2>2. \A st \in {"reading", "writing", "queuedWrite"} : InState(st)' = InState(st)
    BY <1>2 DEF AcquireRead, TypeOK, InState
  <2>3. /\ waitingReaders' \in Seq(Callers)
        /\ Queued(waitingReaders') = Queued(waitingReaders) \cup {c}
        /\ Distinct(waitingReaders')
    <3>1. waitingReaders' = Append(waitingReaders, c)
      BY <1>2 DEF AcquireRead
    <3>2. waitingReaders \in Seq(Callers) /\ Distinct(waitingReaders)
      BY DEF TypeOK, QueuesExact
    <3>3. c \notin Queued(waitingReaders)
      BY <2>1 DEF QueuesExact
    <3> QED  BY <3>1, <3>2, <3>3, QueuedAppend
  <2>4. TypeOK'
    BY <1>2, <2>3 DEF AcquireRead, TypeOK, CallState
  <2>5. CountersExact'
    BY <1>2, <2>2 DEF AcquireRead, CountersExact
  <2>6. QueuesExact'
    <3>1. waitingWriters' = waitingWriters
      BY DEF AcquireRead
    <3> QED  BY <2>1, <2>2, <2>3, <3>1 DEF QueuesExact, Distinct
  <2>7. WaitersHaveHolder'
    BY <1>2 DEF AcquireRead, WaitersHaveHolder, MayRead
  <2> QED  BY <2>4, <2>5, <2>6, <2>7
<1> QED  BY <1>1, <1>2

LEMMA StepAcquireWrite ==
    ASSUME IInv, NEW c \in Callers, AcquireWrite(c)
    PROVE  IInv'
<1> USE DEF IInv
<1>1. CASE MayWrite
  <2>1. InState("writing")' = InState("writing") \cup {c} /\ InState("writing") = {}
    BY <1>1 DEF AcquireWrite, TypeOK, InState, MayWrite, CountersExact
  <2>2. \A st \in {"reading", "queuedRead", "queuedWrite"} : InState(st)' = InState(st)
    BY <1>1 DEF AcquireWrite, TypeOK, InState
  <2>3. TypeOK'
    BY <1>1 DEF AcquireWrite, TypeOK, CallState
  <2>4. CountersExact'
    <3>1. writerActive' /\ readers' = 0 /\ readers' = readers
      BY <1>1 DEF AcquireWrite, MayWrite
    <3> QED  BY <2>1, <2>2, <3>1 DEF CountersExact
  <2>5. QueuesExact'
    BY <1>1, <2>2 DEF AcquireWrite, QueuesExact
  <2>6. WaitersHaveHolder'
    BY <1>1 DEF AcquireWrite, WaitersHaveHolder
  <2> QED  BY <2>3, <2>4, <2>5, <2>6
<1>2. CASE ~MayWrite
  <2>1. InState("queuedWrite")' = InState("queuedWrite") \cup {c} /\ c \notin InState("queuedWrite")
    BY <1>2 DEF AcquireWrite, TypeOK, InState
  <2>2. \A st \in {"reading", "writing", "queuedRead"} : InState(st)' = InState(st)
    BY <1>2 DEF AcquireWrite, TypeOK, InState
  <2>3. /\ waitingWriters' \in Seq(Callers)
        /\ waitingWriters' # <<>>
        /\ Queued(waitingWriters') = Queued(waitingWriters) \cup {c}
        /\ Distinct(waitingWriters')
    <3>1. waitingWriters' = Append(waitingWriters, c)
      BY <1>2 DEF AcquireWrite
    <3>2. waitingWriters \in Seq(Callers) /\ Distinct(waitingWriters)
      BY DEF TypeOK, QueuesExact
    <3>3. c \notin Queued(waitingWriters)
      BY <2>1 DEF QueuesExact
    <3> QED  BY <3>1, <3>2, <3>3, QueuedAppend
  <2>4. TypeOK'
    BY <1>2, <2>3 DEF AcquireWrite, TypeOK, CallState
  <2>5. CountersExact'
    BY <1>2, <2>2 DEF AcquireWrite, CountersExact
  <2>6. QueuesExact'
    <3>1. waitingReaders' = waitingReaders
      BY DEF AcquireWrite
    <3> QED  BY <2>1, <2>2, <2>3, <3>1 DEF QueuesExact, Distinct
  <2>7. WaitersHaveHolder'
    BY <1>2, <2>3 DEF AcquireWrite, WaitersHaveHolder, MayWrite, TypeOK
  <2> QED  BY <2>4, <2>5, <2>6, <2>7
<1> QED  BY <1>1, <1>2

LEMMA StepReleaseRead ==
    ASSUME IInv, NEW c \in Callers, ReleaseRead(c)
    PROVE  IInv'
<1> USE DEF IInv
<1> DEFINE w == Head(waitingWriters)
<1>1. c \in InState("reading") /\ ~writerActive /\ InState("writing") = {}
  <2>1. c \in InState("reading")
    BY DEF ReleaseRead, InState
  <2>2. readers # 0
    BY <2>1, InStateFinite, FS_EmptySet DEF CountersExact
  <2> QED  BY <2>1, <2>2 DEF CountersExact
<1>2. readers' = Cardinality(InState("reading") \ {c})
  BY <1>1, InStateFinite, FS_RemoveElement DEF ReleaseRead, CountersExact
<1>3. readers' \in Nat
  BY <1>2, InStateFinite, FS_RemoveElement, FS_CardinalityType
<1>4. CASE LastReaderOut
  <2>1. /\ w \in Callers
        /\ w \in InState("queuedWrite")
        /\ waitingWriters' \in Seq(Callers)
        /\ Queued(waitingWriters') = Queued(waitingWriters) \ {w}
        /\ Distinct(waitingWriters')
    <3>1. waitingWriters' = Tail(waitingWriters) /\ waitingWriters # <<>>
      BY <1>4 DEF ReleaseRead, LastReaderOut
    <3>2. waitingWriters \in Seq(Callers) /\ Distinct(waitingWriters)
      BY DEF TypeOK, QueuesExact
    <3>3. Queued(waitingWriters) = InState("queuedWrite")
      BY DEF QueuesExact
    <3> QED  BY <3>1, <3>2, <3>3, QueuedTail
  <2>2. w # c
    BY <1>1, <2>1 DEF InState
  <2>3. /\ InState("reading")' = InState("reading") \ {c}
        /\ InState("writing")' = {w}
        /\ InState("queuedWrite")' = InState("queuedWrite") \ {w}
        /\ InState("queuedRead")' = InState("queuedRead")
    <3>1. call' = [call EXCEPT ![c] = "idle", ![w] = "writing"]
      BY <1>4 DEF ReleaseRead
    <3> QED  BY <1>1, <2>1, <2>2, <3>1 DEF TypeOK, InState
  <2>4. TypeOK'
    BY <1>3, <1>4, <2>1 DEF ReleaseRead, TypeOK, CallState
  <2>5. CountersExact'
    <3>1. writerActive' /\ readers' = 0
      BY <1>4 DEF ReleaseRead, LastReaderOut
    <3> QED  BY <1>2, <2>3, <3>1 DEF CountersExact
  <2>6. QueuesExact'
    <3>1. waitingReaders' = waitingReaders
      BY DEF ReleaseRead
    <3> QED  BY <2>1, <2>3, <3>1 DEF QueuesExact, Distinct
  <2>7. WaitersHaveHolder'
    BY <1>4 DEF ReleaseRead, WaitersHaveHolder
  <2> QED  BY <2>4, <2>5, <2>6, <2>7
<1>5. CASE ~LastReaderOut
  <2>1. InState("reading")' = InState("reading") \ {c}
    BY <1>5 DEF ReleaseRead, TypeOK, InState
  <2>2. \A st \in {"writing", "queuedRead", "queuedWrite"} : InState(st)' = InState(st)
    BY <1>5 DEF ReleaseRead, TypeOK, InState
  <2>3. TypeOK'
    BY <1>3, <1>5 DEF ReleaseRead, TypeOK, CallState
  <2>4. CountersExact'
    BY <1>1, <1>2, <1>5, <2>1, <2>2 DEF ReleaseRead, CountersExact
  <2>5. QueuesExact'
    BY <1>5, <2>2 DEF ReleaseRead, QueuesExact
  <2>6. WaitersHaveHolder'
    <3>1. waitingWriters # <<>> => readers' > 0
      BY <1>3, <1>5 DEF ReleaseRead, LastReaderOut, TypeOK
    <3> QED  BY <1>1, <1>5, <3>1 DEF ReleaseRead, WaitersHaveHolder
  <2> QED  BY <2>3, <2>4, <2>5, <2>6
<1> QED  BY <1>4, <1>5

LEMMA StepHandToWriter ==
    ASSUME IInv, NEW c \in Callers, call[c] = "writing", HandToWriter(c)
    PROVE  IInv'
<1> USE DEF IInv
<1> DEFINE w == Head(waitingWriters)
<1>1. writerActive /\ InState("writing") = {c}
  BY DEF CountersExact, InState
<1>2. /\ w \in Callers
      /\ w \in InState("queuedWrite")
      /\ waitingWriters' \in Seq(Callers)
      /\ Queued(waitingWriters') = Queued(waitingWriters) \ {w}
      /\ Distinct(waitingWriters')
  <2>1. waitingWriters' = Tail(waitingWriters) /\ waitingWriters # <<>>
    BY DEF HandToWriter
  <2>2. waitingWriters \in Seq(Callers) /\ Distinct(waitingWriters)
    BY DEF TypeOK, QueuesExact
  <2>3. Queued(waitingWriters) = InState("queuedWrite")
    BY DEF QueuesExact
  <2> QED  BY <2>1, <2>2, <2>3, QueuedTail
<1>3. w # c
  BY <1>2 DEF InState
<1>4. /\ InState("reading")' = InState("reading")
      /\ InState("writing")' = {w}
      /\ InState("queuedWrite")' = InState("queuedWrite") \ {w}
      /\ InState("queuedRead")' = InState("queuedRead")
  <2>1. call' = [call EXCEPT ![c] = "idle", ![w] = "writing"]
    BY DEF HandToWriter
  <2> QED  BY <1>1, <1>2, <1>3, <2>1 DEF TypeOK, InState
<1>5. TypeOK'
  BY <1>2 DEF HandToWriter, TypeOK, CallState
<1>6. CountersExact'
  BY <1>1, <1>4 DEF HandToWriter, CountersExact
<1>7. QueuesExact'
  <2>1. waitingReaders' = waitingReaders
    BY DEF HandToWriter
  <2> QED  BY <1>2, <1>4, <2>1 DEF QueuesExact, Distinct
<1>8. WaitersHaveHolder'
  BY DEF HandToWriter, WaitersHaveHolder
<1> QED  BY <1>5, <1>6, <1>7, <1>8

LEMMA StepHandToReaders ==
    ASSUME IInv, NEW c \in Callers, call[c] = "writing", HandToReaders(c)
    PROVE  IInv'
<1> USE DEF IInv
<1>1. writerActive /\ InState("writing") = {c} /\ readers = 0 /\ InState("reading") = {}
  BY InStateFinite, FS_EmptySet DEF CountersExact, InState
<1>2. c \notin Queued(waitingReaders)
  BY DEF QueuesExact, InState
<1>3. /\ InState("reading")' = Queued(waitingReaders)
      /\ InState("writing")' = {}
      /\ InState("queuedRead")' = {}
      /\ InState("queuedWrite")' = InState("queuedWrite")
  BY <1>1, <1>2 DEF HandToReaders, TypeOK, InState, QueuesExact
<1>4. /\ IsFiniteSet(Queued(waitingReaders))
      /\ Cardinality(Queued(waitingReaders)) = Len(waitingReaders)
      /\ Len(waitingReaders) \in Nat
  BY QueuedCardinality DEF TypeOK, QueuesExact
<1>5. TypeOK'
  <2>1. call' \in [Callers -> CallState]
    BY DEF HandToReaders, TypeOK, CallState
  <2>2. readers' \in Nat
    BY <1>1, <1>4 DEF HandToReaders
  <2>3. waitingReaders' \in Seq(Callers)
    BY DEF HandToReaders
  <2>4. waitingWriters' \in Seq(Callers) /\ writerActive' \in BOOLEAN
    BY DEF HandToReaders, TypeOK
  <2> QED  BY <2>1, <2>2, <2>3, <2>4 DEF TypeOK
<1>6. CountersExact'
  BY <1>1, <1>3, <1>4 DEF HandToReaders, CountersExact
<1>7. QueuesExact'
  <2>1. Queued(waitingReaders') = {} /\ Distinct(waitingReaders')
    BY DEF HandToReaders, Queued, Distinct
  <2>2. waitingWriters' = waitingWriters
    BY DEF HandToReaders
  <2> QED  BY <1>3, <2>1, <2>2 DEF QueuesExact, Distinct
<1>8. WaitersHaveHolder'
  BY DEF HandToReaders, WaitersHaveHolder
<1> QED  BY <1>5, <1>6, <1>7, <1>8

LEMMA StepIInv == IInv /\ [Next]_vars => IInv'
<1> SUFFICES ASSUME IInv, [Next]_vars PROVE IInv'
  OBVIOUS
<1>1. ASSUME NEW c \in Callers, AcquireRead(c) PROVE IInv'
  BY <1>1, StepAcquireRead
<1>2. ASSUME NEW c \in Callers, AcquireWrite(c) PROVE IInv'
  BY <1>2, StepAcquireWrite
<1>3. ASSUME NEW c \in Callers, ReleaseRead(c) PROVE IInv'
  BY <1>3, StepReleaseRead
<1>4. ASSUME NEW c \in Callers, ReleaseWrite(c) PROVE IInv'
  BY <1>4, StepHandToWriter, StepHandToReaders DEF ReleaseWrite
<1>5. CASE UNCHANGED vars
  BY <1>5 DEF IInv, TypeOK, CountersExact, QueuesExact, WaitersHaveHolder,
              InState, Queued, Distinct, vars
<1> QED  BY <1>1, <1>2, <1>3, <1>4, <1>5 DEF Next, Acquire, Release

-----------------------------------------------------------------------------
(* The lock's bookkeeping is always consistent: counters, queues and       *)
(* holders agree (rwlock.ts:27-95).                                        *)
THEOREM InductiveInvariant == Spec => []IInv
BY InitIInv, StepIInv, PTL DEF Spec

(* Every variable keeps its type; in particular `readers` never goes       *)
(* negative, so no release is ever unmatched (rwlock.ts:63-64).            *)
THEOREM TypeCorrectness == Spec => []TypeOK
<1>1. IInv => TypeOK
  BY DEF IInv
<1> QED  BY <1>1, InductiveInvariant, PTL

(* Two callers inside the lock are both readers, for any number of         *)
(* callers (dispatch.ts:6-7).                                              *)
THEOREM LockExcludes == Spec => []MutualExclusion
<1>1. IInv => MutualExclusion
  <2> SUFFICES ASSUME IInv, NEW c \in Callers, NEW d \in Callers,
                      call[c] = "writing", call[d] \in {"reading", "writing"}
               PROVE  c = d
    BY DEF MutualExclusion
  <2>1. InState("reading") = {}
    BY InStateFinite, FS_EmptySet DEF IInv, CountersExact, InState
  <2> QED  BY <2>1 DEF IInv, CountersExact, InState
<1> QED  BY <1>1, InductiveInvariant, PTL

(* A queued caller always waits for somebody inside: the direct hand-off   *)
(* of releaseRead and releaseWrite loses no waiter (rwlock.ts:63-95).      *)
THEOREM NoLostWakeup == Spec => []NobodyWaitsForNobody
<1>1. IInv => NobodyWaitsForNobody
  <2> SUFFICES ASSUME IInv, InState("queuedRead") \cup InState("queuedWrite") # {}
               PROVE  InState("reading") \cup InState("writing") # {}
    BY DEF NobodyWaitsForNobody
  <2>1. waitingReaders # <<>> \/ waitingWriters # <<>>
    BY QueuedEmpty DEF IInv, QueuesExact, TypeOK
  <2>2. writerActive \/ readers > 0
    BY <2>1 DEF IInv, WaitersHaveHolder
  <2>3. readers > 0 => InState("reading") # {}
    BY FS_EmptySet DEF IInv, CountersExact
  <2> QED  BY <2>2, <2>3 DEF IInv, CountersExact
<1> QED  BY <1>1, InductiveInvariant, PTL
=============================================================================
