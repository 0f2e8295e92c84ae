----------------------------- MODULE WritePool -----------------------------
(***************************************************************************)
(* The flush pool of `recipe push --apply`                                 *)
(* (src/src/recipe/runtime/execute-write-pool.ts): a bounded number of     *)
(* updateItem / addItemVersion calls in flight, serialised per             *)
(* (item, language) version stack, coalesced per (item, language, version) *)
(* cell, with failures isolated to the entry that caused them.             *)
(*                                                                         *)
(* A promise chain is the sequence of a stack's unfinished tasks; the head *)
(* is the one that may run.  A call is sent when its task (or the next     *)
(* entry) starts and lands, with its answer, in one later Answer step, so  *)
(* everything the other stacks and the main loop do in between is covered. *)
(* The content a call carries is reduced to one value per cell.            *)
(*                                                                         *)
(* Bounds: MaxOps operations, versions 1 .. MaxVersion.                    *)
(***************************************************************************)
EXTENDS Naturals, Sequences, FiniteSets

CONSTANTS
    Items,         \* tenant items
    Langs,         \* languages, the language-less (shared) one included
    Primary,       \* languages whose failures are never tolerated (shared, en)
    Unregistered,  \* languages the environment does not have
    Limit,         \* applyConcurrency
    Tolerant,      \* onError = "continue"
    Responses,     \* what a call the tenant accepts may come back as
    Values,        \* field values
    Blank,         \* the value of a field nobody wrote
    MaxVersion,
    MaxOps

ASSUME PoolAssumption ==
    /\ IsFiniteSet(Items) /\ IsFiniteSet(Langs)
    /\ Primary \subseteq Langs
    /\ Unregistered \subseteq Langs \ Primary
    /\ Limit \in Nat \ {0}
    /\ Tolerant \in BOOLEAN
    /\ Responses \subseteq {"ok", "fail", "lost"}
    /\ Blank \in Values
    /\ MaxVersion \in Nat \ {0}
    /\ MaxOps \in Nat

VARIABLES
    present,  \* tenant: the items that exist
    top,      \* tenant: highest version of each stack
    cell,     \* tenant: value of each stack's versions
    ops,      \* operations planned so far, in op order
    status,   \* outcome of each operation
    chain,    \* per stack: its unfinished tasks, oldest first
    at,       \* per stack: what the head task is doing
    step,     \* per stack: the entry (or version add) in flight
    active,   \* semaphore: slots taken
    waiters,  \* semaphore: stacks whose acquire() is pending
    fatal,    \* the operation recorded as fatal, 0 if none
    applied   \* operations applied, in completion order

tenant == <<present, top, cell>>
poolVars == <<chain, at, step, active, waiters, fatal, applied>>
vars == <<tenant, ops, status, poolVars>>

Stacks == Items \X Langs
Versions == 1 .. MaxVersion

(* A planned operation with its mutation: a field write, a version add, or *)
(* one of the kinds the executor dispatches without the pool.  prior is    *)
(* what the plan-time snapshot says the written field held, items what a   *)
(* prune deletes.                                                          *)
Op == [kind : {"set", "add", "create", "prune"}, stack : Stacks,
       version : Versions, count : Nat, value : Values, prior : Values,
       items : SUBSET Items]

Status == {"queued", "applied", "skip", "error", "noop"}

Task == [kind : {"cell", "add"}, version : Versions, entries : Seq(Nat \ {0}),
         open : BOOLEAN]

InFlight == {"merged", "single", "adding"}

PoolTypeOK ==
    /\ present \subseteq Items
    /\ top \in [Stacks -> Nat]
    /\ cell \in [Stacks -> [Versions -> Values]]
    /\ ops \in Seq(Op)
    /\ status \in Seq(Status)
    /\ chain \in [Stacks -> Seq(Task)]
    /\ at \in [Stacks -> {"idle", "waiting", "woken"} \cup InFlight]
    /\ step \in [Stacks -> Nat]
    /\ active \in Nat
    /\ waiters \in Seq(Stacks)
    /\ fatal \in Nat
    /\ applied \in Seq(Nat \ {0})

PoolInit ==
    /\ chain = [s \in Stacks |-> <<>>]
    /\ at = [s \in Stacks |-> "idle"]
    /\ step = [s \in Stacks |-> 0]
    /\ active = 0
    /\ waiters = <<>>
    /\ fatal = 0
    /\ applied = <<>>

-----------------------------------------------------------------------------
(* enqueue: called by the main loop with operation i.                      *)

(* Mutant: a write merges into its cell's task whatever came in between.   *)
MutantJoins(s, v) == {k \in DOMAIN chain[s] : chain[s][k].version = v}

(* The queued-but-unclaimed task a write to cell (s, v) merges into.       *)
Joins(s, v) ==
    {k \in DOMAIN chain[s] : chain[s][k].open /\ chain[s][k].version = v}

CloseCells(q, vs) ==
    [k \in DOMAIN q |->
        IF q[k].version \in vs THEN [q[k] EXCEPT !.open = FALSE] ELSE q[k]]

EnqueueCell(i, s, v) ==
    chain' = [chain EXCEPT ![s] =
        IF Joins(s, v) # {}
        THEN [k \in DOMAIN chain[s] |->
                IF k \in Joins(s, v)
                THEN [chain[s][k] EXCEPT !.entries =
                                             Append(chain[s][k].entries, i)]
                ELSE chain[s][k]]
        ELSE Append(chain[s], [kind |-> "cell", version |-> v,
                               entries |-> <<i>>, open |-> TRUE])]

(* Mutant: a version add leaves its stack's pending cells open.            *)
MutantEnqueueAdd(i, s, v) ==
    chain' = [chain EXCEPT ![s] =
        Append(chain[s], [kind |-> "add", version |-> v,
                          entries |-> <<i>>, open |-> FALSE])]

EnqueueAdd(i, s, v) ==
    chain' = [chain EXCEPT ![s] =
        Append(CloseCells(chain[s], Versions),
               [kind |-> "add", version |-> v,
                entries |-> <<i>>, open |-> FALSE])]

(* A doomed push enqueues nothing more; the operation stays "queued".      *)
Enqueue(i, o) ==
    /\ IF fatal # 0 THEN UNCHANGED chain
       ELSE IF o.kind = "add" THEN EnqueueAdd(i, o.stack, o.version)
       ELSE EnqueueCell(i, o.stack, o.version)
    /\ UNCHANGED <<at, step, active, waiters, fatal, applied>>

-----------------------------------------------------------------------------
(* Starting a stack's head task: chainTask, acquire.                       *)

Head1(s) == Head(chain[s])

Ready(s) == chain[s] # <<>> /\ at[s] = "idle"

(* Mutant: the finally that releases the slot also covers the fatal test.  *)
MutantSkipDoomed(s) ==
    /\ Ready(s)
    /\ fatal # 0
    /\ chain' = [chain EXCEPT ![s] = Tail(chain[s])]
    /\ active' = active - 1
    /\ UNCHANGED <<tenant, ops, status, at, step, waiters, fatal, applied>>

(* Tasks not yet past the fatal test when the push is doomed do nothing.   *)
SkipDoomed(s) ==
    /\ Ready(s)
    /\ fatal # 0
    /\ chain' = [chain EXCEPT ![s] = Tail(chain[s])]
    /\ UNCHANGED <<tenant, ops, status, at, step, active, waiters, fatal,
                   applied>>

(* Mutant: the semaphore turns the last slot down.                         *)
MutantAwaitSlot(s) ==
    /\ Ready(s)
    /\ fatal = 0
    /\ active >= Limit - 1
    /\ waiters' = Append(waiters, s)
    /\ at' = [at EXCEPT ![s] = "waiting"]
    /\ UNCHANGED <<tenant, ops, status, chain, step, active, fatal, applied>>

AwaitSlot(s) ==
    /\ Ready(s)
    /\ fatal = 0
    /\ active >= Limit
    /\ waiters' = Append(waiters, s)
    /\ at' = [at EXCEPT ![s] = "waiting"]
    /\ UNCHANGED <<tenant, ops, status, chain, step, active, fatal, applied>>

(* Claim the cell and send the first call.  Claiming deletes the cell key  *)
(* from pendingCells, whichever queued task holds it by now.               *)
FirstCall(t) ==
    IF t.kind = "add" THEN "adding"
    ELSE IF Len(t.entries) = 1 THEN "single"
    ELSE "merged"

Begin(s) ==
    /\ active' = active + 1
    /\ chain' = [chain EXCEPT ![s] =
          IF Head1(s).kind = "cell"
          THEN CloseCells(chain[s], {Head1(s).version})
          ELSE chain[s]]
    /\ at' = [at EXCEPT ![s] = FirstCall(Head1(s))]
    /\ step' = [step EXCEPT ![s] = 1]
    /\ UNCHANGED <<tenant, ops, status, waiters, fatal, applied>>

StartNow(s) ==
    /\ Ready(s)
    /\ fatal = 0
    /\ active < Limit
    /\ Begin(s)

(* A woken waiter re-tests neither the limit nor fatal.                    *)
Resume(s) == at[s] = "woken" /\ Begin(s)

-----------------------------------------------------------------------------
(* The task is over: release() frees the slot and wakes one waiter, the    *)
(* promise resolves and the stack's next task becomes the head.            *)

(* Mutant: release does not wake anybody.                                  *)
MutantLeave(s) ==
    /\ chain' = [chain EXCEPT ![s] = Tail(chain[s])]
    /\ step' = [step EXCEPT ![s] = 0]
    /\ active' = active - 1
    /\ UNCHANGED waiters
    /\ at' = [at EXCEPT ![s] = "idle"]

Leave(s) ==
    /\ chain' = [chain EXCEPT ![s] = Tail(chain[s])]
    /\ step' = [step EXCEPT ![s] = 0]
    /\ active' = active - 1
    /\ IF waiters = <<>>
       THEN /\ at' = [at EXCEPT ![s] = "idle"]
            /\ UNCHANGED waiters
       ELSE /\ at' = [at EXCEPT ![s] = "idle", ![Head(waiters)] = "woken"]
            /\ waiters' = Tail(waiters)

Continue(s, mode, n) ==
    /\ at' = [at EXCEPT ![s] = mode]
    /\ step' = [step EXCEPT ![s] = n]
    /\ UNCHANGED <<chain, active, waiters>>

(* What the tenant may answer.  "missing" is the error that says the       *)
(* language or the version does not exist; "lost" is an error whose write  *)
(* did land.                                                               *)
Answers(s, v) ==
    IF s[1] \notin present THEN {"fail"}
    ELSE IF s[2] \in Unregistered \/ v > top[s] THEN {"missing"}
    ELSE Responses

Landed(r) == r \in {"ok", "lost"}

Write(s, v, i, r) ==
    /\ cell' = IF Landed(r)
               THEN [cell EXCEPT ![s] = [cell[s] EXCEPT ![v] = ops[i].value]]
               ELSE cell
    /\ UNCHANGED <<present, top>>

(* recordFailure and trySkipUnavailableLanguage: a missing language is a   *)
(* skip for a non-primary language, else the failure is tolerated or it is *)
(* fatal, the first one only.                                              *)
Skippable(i, r) == r = "missing" /\ ops[i].stack[2] \notin Primary

(* Mutant: the first failure is fatal whatever onError says.               *)
MutantFatalAfter(i, r) == IF Skippable(i, r) \/ fatal # 0 THEN fatal ELSE i

FatalAfter(i, r) ==
    IF Skippable(i, r) \/ Tolerant \/ fatal # 0 THEN fatal ELSE i

RecordAnswer(i, r) ==
    IF r = "ok"
    THEN /\ applied' = Append(applied, i)
         /\ status' = [status EXCEPT ![i] = "applied"]
         /\ UNCHANGED fatal
    ELSE /\ status' = [status EXCEPT ![i] =
                          IF Skippable(i, r) THEN "skip" ELSE "error"]
         /\ fatal' = FatalAfter(i, r)
         /\ UNCHANGED applied

(* Mutant: the merged fields are concatenated newest first.                *)
MutantTopmost(t) == t.entries[1]

(* The entry whose value a coalesced call leaves in the cell.              *)
Topmost(t) == t.entries[Len(t.entries)]

(* flushCell, the coalesced call: its fields land together, the last       *)
(* entry's value on top.  If it fails, the entries are retried one by one. *)
AnswerMerged(s) ==
    LET t == Head1(s) IN
    /\ at[s] = "merged"
    /\ \E r \in Answers(s, t.version) :
          /\ Write(s, t.version, Topmost(t), r)
          /\ IF r = "ok"
             THEN /\ applied' = applied \o t.entries
                  /\ status' = [i \in DOMAIN status |->
                                  IF \E k \in DOMAIN t.entries : t.entries[k] = i
                                  THEN "applied" ELSE status[i]]
                  /\ Leave(s)
             ELSE /\ IF fatal = 0 THEN Continue(s, "single", 1) ELSE Leave(s)
                  /\ UNCHANGED <<applied, status>>
    /\ UNCHANGED <<ops, fatal>>

(* Mutant: the isolation gives up at the first entry that fails.           *)
MutantMoreEntries(s, r) == step[s] < Len(Head1(s).entries) /\ r = "ok"

(* The isolation goes on unless the push is doomed by now.                 *)
MoreEntries(s, r) == step[s] < Len(Head1(s).entries) /\ fatal' = 0

(* flushCell, a single entry: the whole of a one-entry cell, or one step   *)
(* of the isolation of a failed coalesced call.                            *)
AnswerSingle(s) ==
    LET t == Head1(s)
        i == t.entries[step[s]] IN
    /\ at[s] = "single"
    /\ \E r \in Answers(s, t.version) :
          /\ Write(s, t.version, i, r)
          /\ RecordAnswer(i, r)
          /\ IF MoreEntries(s, r)
             THEN Continue(s, "single", step[s] + 1)
             ELSE Leave(s)
    /\ UNCHANGED ops

(* enqueueVersionAdd's task: one call per missing version.                 *)
AnswerAdd(s) ==
    LET i == Head1(s).entries[1] IN
    /\ at[s] = "adding"
    /\ \E r \in Answers(s, 0) :
          /\ top' = IF Landed(r) THEN [top EXCEPT ![s] = top[s] + 1] ELSE top
          /\ IF r = "ok" /\ step[s] < ops[i].count
             THEN /\ Continue(s, "adding", step[s] + 1)
                  /\ UNCHANGED <<applied, status, fatal>>
             ELSE /\ RecordAnswer(i, r)
                  /\ Leave(s)
    /\ UNCHANGED <<present, cell, ops>>

Answer(s) == AnswerMerged(s) \/ AnswerSingle(s) \/ AnswerAdd(s)

Proceed(s) == SkipDoomed(s) \/ AwaitSlot(s) \/ StartNow(s) \/ Resume(s)

PoolStep(s) == Proceed(s) \/ Answer(s)

-----------------------------------------------------------------------------
(* What the main loop awaits.                                              *)

Settled(s) == chain[s] = <<>>

SettledAdds(s) == \A k \in DOMAIN chain[s] : chain[s][k].kind # "add"

Drained == \A s \in Stacks : Settled(s)

-----------------------------------------------------------------------------
(* What holds between the pool's variables.                                *)

Busy == {s \in Stacks : at[s] \in InFlight}

Woken == {s \in Stacks : at[s] = "woken"}

Sleeps(s) == \E k \in DOMAIN waiters : waiters[k] = s

(* Tasks and results are about operations of the program.                  *)
TasksKnown ==
    \A s \in Stacks : \A k \in DOMAIN chain[s] :
        /\ chain[s][k].entries # <<>>
        /\ \A j \in DOMAIN chain[s][k].entries :
              chain[s][k].entries[j] \in DOMAIN ops

ResultsKnown ==
    /\ Len(status) = Len(ops)
    /\ \A k \in DOMAIN applied : applied[k] \in DOMAIN ops

(* Whatever a stack does, it does for its head task.                       *)
HeadRuns ==
    \A s \in Stacks :
        /\ at[s] # "idle" => chain[s] # <<>>
        /\ at[s] = "single" => step[s] \in DOMAIN Head1(s).entries

(* The semaphore counts the calls in flight and nothing else, and every    *)
(* stack that sleeps on it is in its list exactly once: no slot leaks, and *)
(* no release wakes a stack twice or one that does not sleep.              *)
SemaphoreExact ==
    /\ active = Cardinality(Busy)
    /\ \A s \in Stacks : at[s] = "waiting" <=> Sleeps(s)
    /\ \A j, k \in DOMAIN waiters : waiters[j] = waiters[k] => j = k

(* No slot idles while a stack sleeps on the semaphore: a sleeper means    *)
(* all Limit slots are taken or about to be taken by a waiter that has     *)
(* been woken.                                                             *)
NoIdleSlot == waiters # <<>> => active + Cardinality(Woken) >= Limit

=============================================================================
