----------------------------- MODULE CellWrites -----------------------------
(***************************************************************************)
(* What the flush pool promises the executor, without its queues, slots    *)
(* and coalescing (src/src/recipe/runtime/execute-write-pool.ts:82-114):   *)
(* every operation gets at most one outcome; the writes of a cell land in  *)
(* operation order, possibly several in one call with the newest on top;   *)
(* and until the push is doomed a write lands only when the version adds   *)
(* planned before it on its stack are done with.                           *)
(*                                                                         *)
(* An operation is known here by its kind, its stack and its version; a    *)
(* field write's value is its own number.                                  *)
(***************************************************************************)
EXTENDS Naturals, Sequences, FiniteSetsExt

CONSTANTS
    Stacks,
    Versions,
    Values     \* what a cell may hold at the start

VARIABLES
    ops,     \* operations submitted, in op order
    status,  \* outcome of each
    top,     \* tenant: highest version of each stack
    cell,    \* tenant: value of each stack's versions
    doomed   \* a failure the push does not survive was met

vars == <<ops, status, top, cell, doomed>>

Pending(i) == i \in DOMAIN status /\ status[i] = "queued"

(* The field writes of a cell with the given outcome.                      *)
WritesOf(s, v, st) ==
    {i \in DOMAIN ops : ops[i].kind = "set" /\ ops[i].stack = s
                        /\ ops[i].version = v /\ status[i] = st}

AddsBefore(i) ==
    {j \in 1 .. i - 1 : ops[j].kind = "add" /\ ops[j].stack = ops[i].stack}

Init ==
    /\ ops = <<>>
    /\ status = <<>>
    /\ top \in [Stacks -> Nat]
    /\ cell \in [Stacks -> [Versions -> Values]]
    /\ doomed = FALSE

Submit ==
    /\ \E o \in [kind : {"set", "add"}, stack : Stacks, version : Versions] :
          ops' = Append(ops, o)
    /\ status' = Append(status, "queued")
    /\ UNCHANGED <<top, cell, doomed>>

(* Some pending writes of one cell land together: none of them is older    *)
(* than a write of that cell that landed before, and no version add they   *)
(* come after is still to be made.                                         *)
Land(s, v) ==
    \E W \in (SUBSET WritesOf(s, v, "queued")) \ {{}} :
        /\ \A i \in W, j \in WritesOf(s, v, "applied") : j < i
        /\ ~doomed => \A i \in W : \A j \in AddsBefore(i) : ~Pending(j)
        /\ cell' = [cell EXCEPT ![s] = [cell[s] EXCEPT ![v] = Max(W)]]
        /\ status' = [i \in DOMAIN status |->
                        IF i \in W THEN "applied" ELSE status[i]]
        /\ UNCHANGED <<ops, top, doomed>>

(* One more version; the add may have more of them to make.                *)
Grow(s) ==
    /\ top' = [top EXCEPT ![s] = top[s] + 1]
    /\ \E i \in DOMAIN ops :
          /\ ops[i].kind = "add" /\ ops[i].stack = s /\ Pending(i)
          /\ status' \in {status, [status EXCEPT ![i] = "applied"]}
    /\ UNCHANGED <<ops, cell, doomed>>

(* A failure leaves the tenant alone; it may doom the push.                *)
Fail(i) ==
    /\ Pending(i)
    /\ status' \in {[status EXCEPT ![i] = st] : st \in {"skip", "error"}}
    /\ doomed' \in {doomed, TRUE}
    /\ UNCHANGED <<ops, top, cell>>

Next ==
    \/ Submit
    \/ \E s \in Stacks : Grow(s) \/ \E v \in Versions : Land(s, v)
    \/ \E i \in DOMAIN status : Fail(i)

Spec == Init /\ [][Next]_vars
=============================================================================
