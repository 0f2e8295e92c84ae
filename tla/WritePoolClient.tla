-------------------------- MODULE WritePoolClient --------------------------
(***************************************************************************)
(* WritePool under its most general client: enqueue() may be called at any *)
(* moment with any write, without the settle calls the executor makes      *)
(* before it plans (RecipeExecutor adds those).  What is stated here is    *)
(* what the class comment promises by itself                               *)
(* (src/src/recipe/runtime/execute-write-pool.ts:82-114).                  *)
(*                                                                         *)
(* Every write carries its own operation number as its value.              *)
(***************************************************************************)
EXTENDS WritePool, FiniteSetsExt

ASSUME ClientAssumption == 1 .. MaxOps \subseteq Values

InitialTop(s) == IF s[2] \in Primary THEN 1 ELSE 0

Init ==
    /\ present = Items
    /\ top = [s \in Stacks |-> InitialTop(s)]
    /\ cell = [s \in Stacks |-> [v \in Versions |-> Blank]]
    /\ ops = <<>>
    /\ status = <<>>
    /\ PoolInit

(* The version a stack will have once the adds planned so far landed.      *)
PlannedTop(s) ==
    Max({InitialTop(s)} \cup
        {ops[i].version : i \in {j \in DOMAIN ops :
                                   ops[j].kind = "add" /\ ops[j].stack = s}})

Set(s, v) == [kind |-> "set", stack |-> s, version |-> v, count |-> 0,
              value |-> Len(ops) + 1, prior |-> Blank, items |-> {}]

(* planAddItemVersion: as many calls as versions are missing.              *)
AddUpTo(s, v, n) == [kind |-> "add", stack |-> s, version |-> v, count |-> n,
                     value |-> Blank, prior |-> Blank, items |-> {}]

Submit(o) ==
    /\ Len(ops) < MaxOps
    /\ ops' = Append(ops, o)
    /\ status' = Append(status, "queued")
    /\ Enqueue(Len(ops) + 1, o)
    /\ UNCHANGED tenant

SubmitSome ==
    \E s \in Stacks, v \in Versions :
        \/ Submit(Set(s, v))
        \/ \E n \in Versions :
              v = PlannedTop(s) + n /\ Submit(AddUpTo(s, v, n))

Next == SubmitSome \/ \E s \in Stacks : PoolStep(s)

Spec == Init /\ [][Next]_vars

-----------------------------------------------------------------------------
TypeOK == PoolTypeOK

(* The operations whose call is in flight on stack s.                      *)
Sent(s) ==
    IF at[s] \notin InFlight THEN {}
    ELSE IF at[s] = "merged" THEN {Head1(s).entries[k] : k \in DOMAIN Head1(s).entries}
    ELSE {Head1(s).entries[IF at[s] = "adding" THEN 1 ELSE step[s]]}

(* A field write never overtakes a version add enqueued before it on its   *)
(* stack: while a call carries write i, every earlier add of that stack    *)
(* has been answered for good (or was dropped by a doomed push).           *)
AddsLandFirst ==
    \A s \in Stacks : \A i \in Sent(s) : \A j \in 1 .. i - 1 :
        ops[j].kind = "add" /\ ops[j].stack = s
            => status[j] # "queued" \/ fatal # 0

WritesTo(s, v) ==
    {i \in DOMAIN ops : ops[i].kind = "set" /\ ops[i].stack = s
                        /\ ops[i].version = v /\ status[i] = "applied"}

(* Coalescing, isolation and concurrency are invisible in the tenant: once *)
(* the pool is drained every cell holds what the last applied write to it, *)
(* in op order, carried - what applying one call at a time would leave.    *)
SameAsSequential ==
    Drained /\ "lost" \notin Responses =>
        \A s \in Stacks, v \in Versions :
            cell[s][v] = IF WritesTo(s, v) = {} THEN Blank
                         ELSE Max(WritesTo(s, v))

(* Nothing is lost on the way: a drained pool that met no fatal failure    *)
(* has an outcome for every write that was enqueued, and the applied list  *)
(* the rollback walks holds each applied operation exactly once.           *)
EveryWriteAccounted ==
    /\ Drained /\ fatal = 0 => \A i \in DOMAIN status : status[i] # "queued"
    /\ Len(applied) = Cardinality({i \in DOMAIN status : status[i] = "applied"})
    /\ \A k \in DOMAIN applied : status[applied[k]] = "applied"

-----------------------------------------------------------------------------
(* The abstract pool this one implements: an operation is known by its     *)
(* kind and its cell, and the push is doomed once a failure is fatal.      *)
Promised ==
    INSTANCE CellWrites WITH
        ops <- [i \in DOMAIN ops |-> [kind |-> ops[i].kind,
                                      stack |-> ops[i].stack,
                                      version |-> ops[i].version]],
        doomed <- (fatal # 0)

(* The queues, the slots, the coalescing and the isolation of failed calls *)
(* implement CellWrites: however calls overlap, the tenant only ever goes  *)
(* through states in which each cell holds its newest landed write, no     *)
(* write precedes its version, and an outcome is given once                *)
(* (execute-write-pool.ts:82-107).                                         *)
ImplementsCellWrites == Promised!Spec
=============================================================================
