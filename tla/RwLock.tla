------------------------------- MODULE RwLock -------------------------------
(***************************************************************************)
(* The in-house read/write lock of src/src/shared/rwlock.ts, as the MCP    *)
(* dispatcher uses it (src/src/mcp/dispatch.ts:149): every tool call runs  *)
(* its handler inside withRead or withWrite.                               *)
(*                                                                         *)
(* A caller is one tool call at a time.  Acquiring and releasing are       *)
(* synchronous in the code (no await between the test and the update), so  *)
(* each is one action.  A release hands the lock over directly: it sets    *)
(* the counters on behalf of the waiters it wakes, and they resume later   *)
(* without testing anything again.                                         *)
(***************************************************************************)
EXTENDS Naturals, Sequences, FiniteSets

CONSTANT Callers

ASSUME CallersAssumption == IsFiniteSet(Callers)

VARIABLES
    readers,         \* number of admitted readers
    writerActive,    \* a writer holds the lock
    waitingReaders,  \* callers whose acquireRead promise is pending
    waitingWriters,  \* callers whose acquireWrite promise is pending
    call             \* what each caller is doing

vars == <<readers, writerActive, waitingReaders, waitingWriters, call>>

CallState == {"idle", "queuedRead", "queuedWrite", "reading", "writing"}

InState(st) == {c \in Callers : call[c] = st}

Queued(q) == {q[i] : i \in 1 .. Len(q)}

TypeOK ==
    /\ readers \in Nat
    /\ writerActive \in BOOLEAN
    /\ waitingReaders \in Seq(Callers)
    /\ waitingWriters \in Seq(Callers)
    /\ call \in [Callers -> CallState]

Init ==
    /\ readers = 0
    /\ writerActive = FALSE
    /\ waitingReaders = <<>>
    /\ waitingWriters = <<>>
    /\ call = [c \in Callers |-> "idle"]

-----------------------------------------------------------------------------
(* Mutant: the read fast path forgets the queued writers.                  *)
MutantMayRead == ~writerActive

(* acquireRead: admitted at once unless a writer holds the lock or waits.  *)
MayRead == ~writerActive /\ waitingWriters = <<>>

AcquireRead(c) ==
    /\ call[c] = "idle"
    /\ IF MayRead
       THEN /\ readers' = readers + 1
            /\ call' = [call EXCEPT ![c] = "reading"]
            /\ UNCHANGED waitingReaders
       ELSE /\ waitingReaders' = Append(waitingReaders, c)
            /\ call' = [call EXCEPT ![c] = "queuedRead"]
            /\ UNCHANGED readers
    /\ UNCHANGED <<writerActive, waitingWriters>>

(* Mutant: the write fast path forgets the readers inside.                 *)
MutantMayWrite == ~writerActive

(* acquireWrite: admitted at once only when nobody holds the lock.         *)
MayWrite == ~writerActive /\ readers = 0

AcquireWrite(c) ==
    /\ call[c] = "idle"
    /\ IF MayWrite
       THEN /\ writerActive' = TRUE
            /\ call' = [call EXCEPT ![c] = "writing"]
            /\ UNCHANGED waitingWriters
       ELSE /\ waitingWriters' = Append(waitingWriters, c)
            /\ call' = [call EXCEPT ![c] = "queuedWrite"]
            /\ UNCHANGED writerActive
    /\ UNCHANGED <<readers, waitingReaders>>

(* Mutant: a leaving reader never hands the lock over.                     *)
MutantLastReaderOut == FALSE

(* releaseRead: the last reader hands the lock to the first queued writer. *)
LastReaderOut == readers - 1 = 0 /\ waitingWriters # <<>>

ReleaseRead(c) ==
    /\ call[c] = "reading"
    /\ readers' = readers - 1
    /\ IF LastReaderOut
       THEN /\ writerActive' = TRUE
            /\ waitingWriters' = Tail(waitingWriters)
            /\ call' = [call EXCEPT ![c] = "idle",
                                    ![Head(waitingWriters)] = "writing"]
       ELSE /\ call' = [call EXCEPT ![c] = "idle"]
            /\ UNCHANGED <<writerActive, waitingWriters>>
    /\ UNCHANGED waitingReaders

(* releaseWrite: the next queued writer first, else every queued reader.   *)
HandToWriter(c) ==
    /\ waitingWriters # <<>>
    /\ writerActive' = TRUE
    /\ waitingWriters' = Tail(waitingWriters)
    /\ call' = [call EXCEPT ![c] = "idle", ![Head(waitingWriters)] = "writing"]
    /\ UNCHANGED <<readers, waitingReaders>>

(* Mutant: the woken readers are not counted.                              *)
MutantHandToReaders(c) ==
    /\ waitingWriters = <<>>
    /\ writerActive' = FALSE
    /\ waitingReaders' = <<>>
    /\ call' = [d \in Callers |->
                  IF d = c THEN "idle"
                  ELSE IF d \in Queued(waitingReaders) THEN "reading"
                  ELSE call[d]]
    /\ UNCHANGED <<readers, waitingWriters>>

HandToReaders(c) ==
    /\ waitingWriters = <<>>
    /\ writerActive' = FALSE
    /\ readers' = readers + Len(waitingReaders)
    /\ waitingReaders' = <<>>
    /\ call' = [d \in Callers |->
                  IF d = c THEN "idle"
                  ELSE IF d \in Queued(waitingReaders) THEN "reading"
                  ELSE call[d]]
    /\ UNCHANGED waitingWriters

ReleaseWrite(c) ==
    /\ call[c] = "writing"
    /\ HandToWriter(c) \/ HandToReaders(c)

-----------------------------------------------------------------------------
Acquire(c) == AcquireRead(c) \/ AcquireWrite(c)
Release(c) == ReleaseRead(c) \/ ReleaseWrite(c)

Next == \E c \in Callers : Acquire(c) \/ Release(c)

(* Handlers end (they are bounded HTTP work wrapped in try/finally), so    *)
(* every admitted caller eventually releases.  Nothing makes a client call *)
(* a tool: acquiring carries no fairness.                                  *)
Fairness == \A c \in Callers : WF_vars(Release(c))

Spec == Init /\ [][Next]_vars
FairSpec == Spec /\ Fairness

-----------------------------------------------------------------------------
(* Writes are exclusive against everything: two callers inside the lock    *)
(* are both readers (dispatch.ts:6-7 "writes are exclusive against         *)
(* everything").                                                           *)
MutualExclusion ==
    \A c, d \in Callers :
        call[c] = "writing" /\ call[d] \in {"reading", "writing"} => c = d

(* No lost wake-up: whoever waits, waits for somebody inside.  The         *)
(* hand-off in releaseRead/releaseWrite is the only thing that ever        *)
(* resumes a queued caller, so a waiter with nobody inside waits forever.  *)
NobodyWaitsForNobody ==
    InState("queuedRead") \cup InState("queuedWrite") # {}
        => InState("reading") \cup InState("writing") # {}

(* A queued writer is not starved by a steady stream of reads              *)
(* (rwlock.ts:8-11).                                                       *)
QueuedWriterRuns ==
    \A c \in Callers : call[c] = "queuedWrite" ~> call[c] = "writing"
=============================================================================
