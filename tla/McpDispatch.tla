---------------------------- MODULE McpDispatch ----------------------------
(***************************************************************************)
(* The MCP server's tool calls: src/src/mcp/server.ts hands each one to    *)
(* dispatchTool (src/src/mcp/dispatch.ts) once the lazily fetched context  *)
(* (src/src/mcp/auth.ts) is there, and dispatchTool runs the write gate    *)
(* and the handler inside the read/write lock of RwLock.                   *)
(*                                                                         *)
(* A caller is one client slot with at most one call pending.  An await is *)
(* a phase; what the code does between two awaits is one action.  The      *)
(* client may cancel a call at any moment until it is answered.            *)
(*                                                                         *)
(* A call is a "read" (auth read, or a read verb of a verb-discriminated   *)
(* tool), a "write" (auth write) or a "writeVerb" (a declared write verb   *)
(* of a verb-discriminated tool).  allowed is what the gate decides:       *)
(* allowWrite, and the target environment not denying the elevation.       *)
(***************************************************************************)
EXTENDS RwLock

VARIABLES
    context,  \* createMcpContextProvider: "none", "pending", "cached"
    phase,    \* how far each call is
    request,  \* what each call asks for
    aborted,  \* extra.signal.aborted
    started,  \* the handler of the call was invoked
    answer    \* the envelope of the call

lockVars == <<readers, writerActive, waitingReaders, waitingWriters, call>>
callVars == <<phase, request, aborted, started, answer>>
dispatchVars == <<lockVars, context, callVars>>

Request == [kind : {"read", "write", "writeVerb"}, allowed : BOOLEAN]

NoRequest == [kind |-> "read", allowed |-> FALSE]

Phase == {"idle", "binding", "bound", "locked", "gating", "handling",
          "answered"}

Answer == {"none", "ok", "error", "refused", "cancelled"}

DispatchTypeOK ==
    /\ TypeOK
    /\ context \in {"none", "pending", "cached"}
    /\ phase \in [Callers -> Phase]
    /\ request \in [Callers -> Request]
    /\ aborted \in [Callers -> BOOLEAN]
    /\ started \in [Callers -> BOOLEAN]
    /\ answer \in [Callers -> Answer]

DispatchInit ==
    /\ Init
    /\ context = "none"
    /\ phase = [c \in Callers |-> "idle"]
    /\ request = [c \in Callers |-> NoRequest]
    /\ aborted = [c \in Callers |-> FALSE]
    /\ started = [c \in Callers |-> FALSE]
    /\ answer = [c \in Callers |-> "none"]

-----------------------------------------------------------------------------
(* The context: cached, else shared with the fetch in flight, else a new   *)
(* fetch.                                                                  *)
Receive(c, r) ==
    /\ phase[c] = "idle"
    /\ request' = [request EXCEPT ![c] = r]
    /\ context' = IF context = "none" THEN "pending" ELSE context
    /\ phase' = [phase EXCEPT ![c] =
                    IF context = "cached" THEN "bound" ELSE "binding"]
    /\ UNCHANGED <<lockVars, aborted, started, answer>>

Binding == {c \in Callers : phase[c] = "binding"}

FetchEnds ==
    /\ context = "pending"
    /\ context' = "cached"
    /\ phase' = [c \in Callers |->
                    IF c \in Binding THEN "bound" ELSE phase[c]]
    /\ UNCHANGED <<lockVars, request, aborted, started, answer>>

(* A failed fetch is not cached: everybody who shared it fails, the next   *)
(* call fetches again.                                                     *)
FetchFails ==
    /\ context = "pending"
    /\ context' = "none"
    /\ phase' = [c \in Callers |->
                    IF c \in Binding THEN "answered" ELSE phase[c]]
    /\ answer' = [c \in Callers |->
                    IF c \in Binding THEN "error" ELSE answer[c]]
    /\ UNCHANGED <<lockVars, request, aborted, started>>

-----------------------------------------------------------------------------
(* dispatchTool.                                                           *)

(* Mutant: write-typed tools take the lock the way reads do.               *)
MutantDispatch(c) ==
    /\ phase[c] = "bound"
    /\ phase' = [phase EXCEPT ![c] = "locked"]
    /\ AcquireRead(c)
    /\ UNCHANGED <<context, request, aborted, started, answer>>

(* Only the static auth class picks the lock's mode (dispatch.ts:149).     *)
Dispatch(c) ==
    /\ phase[c] = "bound"
    /\ phase' = [phase EXCEPT ![c] = "locked"]
    /\ IF request[c].kind = "write" THEN AcquireWrite(c) ELSE AcquireRead(c)
    /\ UNCHANGED <<context, request, aborted, started, answer>>

Admitted(c) == phase[c] = "locked" /\ call[c] \in {"reading", "writing"}

Reply(c, a) ==
    /\ answer' = [answer EXCEPT ![c] = a]
    /\ phase' = [phase EXCEPT ![c] = "answered"]

Handle(c) ==
    /\ phase' = [phase EXCEPT ![c] = "handling"]
    /\ started' = [started EXCEPT ![c] = TRUE]
    /\ UNCHANGED answer

Gated(c) == request[c].kind \in {"write", "writeVerb"}

Enter(c) ==
    /\ Admitted(c)
    /\ IF aborted[c] THEN Reply(c, "cancelled") /\ UNCHANGED started
       ELSE IF Gated(c)
       THEN phase' = [phase EXCEPT ![c] = "gating"] /\ UNCHANGED <<started, answer>>
       ELSE Handle(c)
    /\ UNCHANGED <<lockVars, context, request, aborted>>

(* Whatever is thrown becomes CANCELLED once the client has cancelled.     *)
Coerced(c, a) == IF aborted[c] THEN "cancelled" ELSE a

(* enforceWriteGate; the signal is not tested again before the handler.    *)
Gate(c) ==
    /\ phase[c] = "gating"
    /\ IF request[c].allowed THEN Handle(c)
       ELSE Reply(c, Coerced(c, "refused")) /\ UNCHANGED started
    /\ UNCHANGED <<lockVars, context, request, aborted>>

(* Mutant: the result of a cancelled call is passed on.                    *)
MutantHandlerEnds(c) ==
    /\ phase[c] = "handling"
    /\ Reply(c, "ok") \/ Reply(c, "error") \/ Reply(c, Coerced(c, "error"))
    /\ UNCHANGED <<lockVars, context, request, aborted, started>>

(* The handler returns a result, returns an isError result, or throws.     *)
HandlerEnds(c) ==
    /\ phase[c] = "handling"
    /\ \/ Reply(c, Coerced(c, "ok"))
       \/ Reply(c, "error")
       \/ Reply(c, Coerced(c, "error"))
    /\ UNCHANGED <<lockVars, context, request, aborted, started>>

(* Mutant: a call that ends before its handler keeps the lock.             *)
MutantReturn(c) ==
    /\ phase[c] = "answered"
    /\ phase' = [phase EXCEPT ![c] = "idle"]
    /\ request' = [request EXCEPT ![c] = NoRequest]
    /\ aborted' = [aborted EXCEPT ![c] = FALSE]
    /\ started' = [started EXCEPT ![c] = FALSE]
    /\ answer' = [answer EXCEPT ![c] = "none"]
    /\ IF started[c] THEN Release(c) ELSE UNCHANGED lockVars
    /\ UNCHANGED context

(* withRead / withWrite release in a finally; a call that never got its    *)
(* context never took the lock.                                            *)
Return(c) ==
    /\ phase[c] = "answered"
    /\ phase' = [phase EXCEPT ![c] = "idle"]
    /\ request' = [request EXCEPT ![c] = NoRequest]
    /\ aborted' = [aborted EXCEPT ![c] = FALSE]
    /\ started' = [started EXCEPT ![c] = FALSE]
    /\ answer' = [answer EXCEPT ![c] = "none"]
    /\ IF call[c] = "idle" THEN UNCHANGED lockVars ELSE Release(c)
    /\ UNCHANGED context

(* notifications/cancelled.                                                *)
Cancel(c) ==
    /\ phase[c] \notin {"idle", "answered"}
    /\ ~aborted[c]
    /\ aborted' = [aborted EXCEPT ![c] = TRUE]
    /\ UNCHANGED <<lockVars, context, phase, request, started, answer>>

-----------------------------------------------------------------------------
Advance(c) ==
    Dispatch(c) \/ Enter(c) \/ Gate(c) \/ HandlerEnds(c) \/ Return(c)

DispatchNext ==
    \/ FetchEnds \/ FetchFails
    \/ \E c \in Callers :
          \/ \E r \in Request : Receive(c, r)
          \/ Advance(c)
          \/ Cancel(c)

(* Every await of a call ends: the keychain answers, handlers are bounded  *)
(* HTTP work.  Clients need neither call nor cancel.                       *)
DispatchFairness ==
    /\ WF_dispatchVars(FetchEnds \/ FetchFails)
    /\ \A c \in Callers : WF_dispatchVars(Advance(c))

DispatchSpec ==
    DispatchInit /\ [][DispatchNext]_dispatchVars /\ DispatchFairness

-----------------------------------------------------------------------------
(* The envelope tells the client the truth: a success is the handler's own *)
(* and of a call that was not cancelled before it returned; a refused call *)
(* had no effect; and a cancelled one had none unless its handler was let  *)
(* past the entry test (dispatch.ts:16-26).                                *)
HonestAnswers ==
    \A c \in Callers : phase[c] = "answered" =>
        /\ answer[c] = "ok" => started[c] /\ ~aborted[c]
        /\ answer[c] = "refused" => ~started[c]
        /\ answer[c] = "cancelled" => aborted[c]
        /\ Gated(c) /\ started[c] => request[c].allowed

(* While the handler of a write-typed tool runs, no other handler does:    *)
(* the lock's exclusion reaches the tenant (dispatch.ts:11-14).            *)
WriteToolsExclusive ==
    \A c, d \in Callers :
        phase[c] = "handling" /\ phase[d] = "handling"
            /\ request[c].kind = "write" => c = d

(* Every call on a write-typed tool is answered, however many reads arrive *)
(* and whoever cancels: it gets the lock, and gives it back                *)
(* (dispatch.ts:8-9).                                                      *)
WriteCallsAnswered ==
    \A c \in Callers :
        phase[c] = "bound" /\ request[c].kind = "write" ~> phase[c] = "answered"

(* "writes are exclusive against everything" (dispatch.ts:7-8): while a    *)
(* handler that mutates the tenant runs, no other handler does.            *)
WritesAreExclusive ==
    \A c, d \in Callers :
        phase[c] = "handling" /\ phase[d] = "handling" /\ Gated(c) => c = d
=============================================================================
