------------------------ MODULE McpDispatch_proofs ------------------------
(***************************************************************************)
(* The dispatcher uses the lock as the lock's own specification says, so   *)
(* what RwLock_proofs shows of the lock holds of the server: a handler     *)
(* runs only while its call is inside the lock, and write-typed handlers   *)
(* run alone.  Fairness and the leads-to property stay with TLC.           *)
(***************************************************************************)
EXTENDS McpDispatch, RwLock_proofs

(* Every step of the dispatcher is a step of the lock or leaves it alone.  *)
LEMMA StepIsLockStep == [DispatchNext]_dispatchVars => [Next]_vars
<1> SUFFICES ASSUME [DispatchNext]_dispatchVars PROVE [Next]_vars
  OBVIOUS
<1>1. CASE FetchEnds \/ FetchFails
  BY <1>1 DEF FetchEnds, FetchFails, lockVars, vars
<1>2. ASSUME NEW c \in Callers, NEW r \in Request, Receive(c, r)
      PROVE  [Next]_vars
  BY <1>2 DEF Receive, lockVars, vars
<1>3. ASSUME NEW c \in Callers, Dispatch(c) PROVE [Next]_vars
  BY <1>3 DEF Dispatch, Next, Acquire
<1>4. ASSUME NEW c \in Callers, Enter(c) \/ Gate(c) \/ HandlerEnds(c)
      PROVE  [Next]_vars
  BY <1>4 DEF Enter, Gate, HandlerEnds, lockVars, vars
<1>5. ASSUME NEW c \in Callers, Return(c) PROVE [Next]_vars
  BY <1>5 DEF Return, Next, lockVars, vars
<1>6. ASSUME NEW c \in Callers, Cancel(c) PROVE [Next]_vars
  BY <1>6 DEF Cancel, lockVars, vars
<1>7. CASE UNCHANGED dispatchVars
  BY <1>7 DEF dispatchVars, lockVars, vars
<1> QED
  BY <1>1, <1>2, <1>3, <1>4, <1>5, <1>6, <1>7 DEF DispatchNext, Advance

(* The composition implements the lock: server.ts and dispatch.ts touch it *)
(* through withRead and withWrite only.                                    *)
THEOREM ServerUsesLock == DispatchSpec => Spec
<1>1. DispatchInit => Init
  BY DEF DispatchInit
<1> QED  BY <1>1, StepIsLockStep, PTL DEF DispatchSpec, Spec

(* Two calls inside the lock are both reads, for any number of clients.    *)
THEOREM ServerExcludes == DispatchSpec => []MutualExclusion
BY ServerUsesLock, LockExcludes, PTL

-----------------------------------------------------------------------------
(* What holds between the calls and the lock.                              *)

Mode(c) == IF request[c].kind = "write" THEN "writing" ELSE "reading"

Queue(c) == IF request[c].kind = "write" THEN "queuedWrite" ELSE "queuedRead"

(* A call is inside the lock, in the mode of its tool, from the moment it  *)
(* is admitted until it returns.                                           *)
CallsPaired ==
    \A c \in Callers :
        /\ phase[c] \in {"idle", "binding", "bound"} => call[c] = "idle"
        /\ phase[c] = "locked" => call[c] \in {Queue(c), Mode(c)}
        /\ phase[c] \in {"gating", "handling"} => call[c] = Mode(c)
        /\ phase[c] = "answered" => call[c] \in {"idle", Mode(c)}

(* How far a call got and what is known of it.                             *)
CallsHonest ==
    \A c \in Callers :
        /\ started[c] => phase[c] \in {"handling", "answered"}
        /\ started[c] => (Gated(c) => request[c].allowed)
        /\ phase[c] = "handling" => started[c]
        /\ answer[c] = "ok" => started[c] /\ ~aborted[c]
        /\ answer[c] = "refused" => ~started[c]
        /\ answer[c] = "cancelled" => aborted[c]
        /\ answer[c] # "none" <=> phase[c] = "answered"

CallTypes ==
    /\ phase \in [Callers -> Phase]
    /\ request \in [Callers -> Request]
    /\ aborted \in [Callers -> BOOLEAN]
    /\ started \in [Callers -> BOOLEAN]
    /\ answer \in [Callers -> Answer]

(* A release ends the caller's stay and admits queued callers in their own *)
(* mode; it does nothing else to anybody (rwlock.ts:63-95).                *)
LEMMA ReleaseAdmits ==
    ASSUME IInv, NEW c \in Callers, Release(c)
    PROVE  /\ call \in [Callers -> CallState]
           /\ call' \in [Callers -> CallState]
           /\ call'[c] = "idle"
           /\ \A d \in Callers \ {c} :
                 \/ call'[d] = call[d]
                 \/ call[d] = "queuedRead" /\ call'[d] = "reading"
                 \/ call[d] = "queuedWrite" /\ call'[d] = "writing"
<1> USE DEF IInv, TypeOK, QueuesExact, InState, Queued, CallState
<1>1. CASE ReleaseRead(c) /\ ~LastReaderOut
  BY <1>1 DEF ReleaseRead
<1>2. ASSUME waitingWriters # <<>>
      PROVE  /\ Head(waitingWriters) \in Callers
             /\ call[Head(waitingWriters)] = "queuedWrite"
  <2>1. Len(waitingWriters) > 0 /\ Head(waitingWriters) = waitingWriters[1]
    BY <1>2
  <2>2. Head(waitingWriters) \in {waitingWriters[i] : i \in 1 .. Len(waitingWriters)}
    BY <2>1
  <2> QED  BY <2>2
<1>3. CASE ReleaseRead(c) /\ LastReaderOut
  BY <1>2, <1>3 DEF ReleaseRead, LastReaderOut
<1>4. CASE ReleaseWrite(c) /\ HandToWriter(c)
  BY <1>2, <1>4 DEF ReleaseWrite, HandToWriter
<1>5. CASE ReleaseWrite(c) /\ HandToReaders(c)
  BY <1>5 DEF ReleaseWrite, HandToReaders
<1> QED  BY <1>1, <1>3, <1>4, <1>5 DEF Release, ReleaseWrite

(* An acquisition puts its caller inside or in its mode's queue.           *)
LEMMA AcquireQueues ==
    ASSUME TypeOK, NEW c \in Callers
    PROVE  /\ AcquireRead(c) =>
                \E st \in {"reading", "queuedRead"} :
                    call' = [call EXCEPT ![c] = st]
           /\ AcquireWrite(c) =>
                \E st \in {"writing", "queuedWrite"} :
                    call' = [call EXCEPT ![c] = st]
BY DEF AcquireRead, AcquireWrite

CallInv == CallTypes /\ CallsPaired /\ CallsHonest

LEMMA InitCallInv == DispatchInit => CallInv
BY DEF DispatchInit, Init, CallInv, CallTypes, CallsPaired, CallsHonest,
       Phase, Request, NoRequest, Answer

LEMMA StepReceive ==
    ASSUME IInv, CallInv, NEW c \in Callers, NEW r \in Request, Receive(c, r)
    PROVE  CallInv'
<1> USE DEF CallInv, Receive, lockVars
<1>1. CallTypes'
  BY DEF CallTypes, Phase
<1>2. CallsPaired'
  BY DEF CallTypes, CallsPaired, Mode, Queue
<1>3. CallsHonest'
  BY DEF CallTypes, CallsHonest, Gated
<1> QED  BY <1>1, <1>2, <1>3

LEMMA StepFetch ==
    ASSUME IInv, CallInv, FetchEnds \/ FetchFails
    PROVE  CallInv'
<1> USE DEF CallInv, FetchEnds, FetchFails, Binding, lockVars
<1>1. CallTypes'
  BY DEF CallTypes, Phase, Answer
<1>2. CallsPaired'
  BY DEF CallTypes, CallsPaired, Mode, Queue
<1>3. CallsHonest'
  BY DEF CallTypes, CallsHonest, Gated
<1> QED  BY <1>1, <1>2, <1>3

LEMMA StepDispatch ==
    ASSUME IInv, CallInv, NEW c \in Callers, Dispatch(c)
    PROVE  CallInv'
<1> USE DEF CallInv, Dispatch
<1>1. CallTypes'
  BY DEF CallTypes, Phase
<1>2. PICK st \in {Mode(c), Queue(c)} : call' = [call EXCEPT ![c] = st]
  BY AcquireQueues DEF IInv, Mode, Queue
<1>3. CallsPaired'
  BY <1>2 DEF IInv, TypeOK, CallTypes, CallsPaired, Mode, Queue
<1>4. CallsHonest'
  BY DEF CallTypes, CallsHonest, Gated
<1> QED  BY <1>1, <1>3, <1>4

LEMMA StepHandler ==
    ASSUME IInv, CallInv, NEW c \in Callers,
           Enter(c) \/ Gate(c) \/ HandlerEnds(c)
    PROVE  CallInv'
<1> USE DEF CallInv, Reply, Handle, Coerced, lockVars
<1>1. CASE Enter(c)
  <2> USE <1>1 DEF Enter, Admitted
  <2>1. CallTypes'
    BY DEF CallTypes, Phase, Answer
  <2>2. CallsPaired'
    BY DEF CallTypes, CallsPaired, Mode, Queue
  <2>3. CallsHonest'
    BY DEF CallTypes, CallsHonest, Gated
  <2> QED  BY <2>1, <2>2, <2>3
<1>2. CASE Gate(c)
  <2> USE <1>2 DEF Gate
  <2>1. CallTypes'
    BY DEF CallTypes, Phase, Answer
  <2>2. CallsPaired'
    BY DEF CallTypes, CallsPaired, Mode, Queue
  <2>3. CallsHonest'
    BY DEF CallTypes, CallsHonest, Gated
  <2> QED  BY <2>1, <2>2, <2>3
<1>3. CASE HandlerEnds(c)
  <2> USE <1>3 DEF HandlerEnds
  <2>1. CallTypes'
    BY DEF CallTypes, Phase, Answer
  <2>2. CallsPaired'
    BY DEF CallTypes, CallsPaired, Mode, Queue
  <2>3. CallsHonest'
    BY DEF CallTypes, CallsHonest, Gated
  <2> QED  BY <2>1, <2>2, <2>3
<1> QED  BY <1>1, <1>2, <1>3

LEMMA StepReturn ==
    ASSUME IInv, CallInv, NEW c \in Callers, Return(c)
    PROVE  CallInv'
<1> USE DEF CallInv, Return
<1>1. CallTypes'
  BY DEF CallTypes, Phase, Request, NoRequest, Answer
<1>2. CallsHonest'
  BY DEF CallTypes, CallsHonest, Gated
<1>3. call'[c] = "idle"
  BY ReleaseAdmits DEF lockVars
<1>4. \A d \in Callers \ {c} :
         \/ call'[d] = call[d]
         \/ call[d] = "queuedRead" /\ call'[d] = "reading"
         \/ call[d] = "queuedWrite" /\ call'[d] = "writing"
  BY ReleaseAdmits DEF lockVars
<1>5. CallsPaired'
  BY <1>3, <1>4 DEF CallTypes, CallsPaired, Mode, Queue
<1> QED  BY <1>1, <1>2, <1>5

LEMMA StepCancel ==
    ASSUME IInv, CallInv, NEW c \in Callers, Cancel(c)
    PROVE  CallInv'
<1> USE DEF CallInv, Cancel, lockVars
<1>1. CallTypes'
  BY DEF CallTypes
<1>2. CallsPaired'
  BY DEF CallTypes, CallsPaired, Mode, Queue
<1>3. CallsHonest'
  BY DEF CallTypes, CallsHonest, Gated
<1> QED  BY <1>1, <1>2, <1>3

LEMMA StepCallInv == IInv /\ CallInv /\ [DispatchNext]_dispatchVars => CallInv'
<1> SUFFICES ASSUME IInv, CallInv, [DispatchNext]_dispatchVars PROVE CallInv'
  OBVIOUS
<1>1. CASE UNCHANGED dispatchVars
  BY <1>1 DEF CallInv, CallTypes, CallsPaired, CallsHonest, Mode, Queue, Gated,
              dispatchVars, lockVars, callVars
<1> QED
  BY <1>1, StepReceive, StepFetch, StepDispatch, StepHandler, StepReturn,
     StepCancel DEF DispatchNext, Advance

(* The calls and the lock agree at every moment.                           *)
THEOREM CallsAgree == DispatchSpec => [](IInv /\ CallInv)
<1>1. DispatchSpec => []IInv
  BY ServerUsesLock, InductiveInvariant, PTL
<1> QED  BY <1>1, InitCallInv, StepCallInv, PTL DEF DispatchSpec

(* The envelopes are honest, whatever the clients cancel and however the   *)
(* handlers end (dispatch.ts:16-26).                                       *)
THEOREM AnswersAreHonest == DispatchSpec => []HonestAnswers
<1>1. CallInv => HonestAnswers
  BY DEF CallInv, CallsHonest, HonestAnswers
<1> QED  BY <1>1, CallsAgree, PTL

(* The handler of a write-typed tool runs alone, for any number of clients *)
(* (dispatch.ts:11-14).                                                    *)
THEOREM WriteHandlersRunAlone == DispatchSpec => []WriteToolsExclusive
<1>1. MutualExclusion /\ CallInv => WriteToolsExclusive
  BY DEF MutualExclusion, CallInv, CallsPaired, CallTypes, Mode,
         WriteToolsExclusive
<1> QED  BY <1>1, CallsAgree, ServerExcludes, PTL

(* The variables of the server keep their types.                           *)
THEOREM DispatchTypes == DispatchSpec => []DispatchTypeOK
<1> DEFINE Context == context \in {"none", "pending", "cached"}
<1>1. DispatchInit => Context
  BY DEF DispatchInit
<1>2. Context /\ [DispatchNext]_dispatchVars => Context'
  BY DEF DispatchNext, Advance, FetchEnds, FetchFails, Receive, Dispatch, Enter, Gate,
         HandlerEnds, Return, Cancel, dispatchVars
<1>3. IInv /\ CallInv /\ Context => DispatchTypeOK
  BY DEF IInv, CallInv, CallTypes, DispatchTypeOK
<1> QED  BY <1>1, <1>2, <1>3, CallsAgree, PTL DEF DispatchSpec
=============================================================================
