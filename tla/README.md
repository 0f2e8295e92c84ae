# A TLA+ verification project for the Sitecore AI CLI

`scai` is a command-line tool (and an MCP server) that manages Sitecore AI
tenants over REST and GraphQL. Most of its verbs are one request and one
report. Logic of its own it has in four places: the *recipe engine* (recipes are
compiled to operations, diffed against the tenant, applied with bounded
concurrency, unwound when something fails, and remembered in baselines), the
*sync kinds* such as campaigns (plan, merge, a series of dependent remote
writes), the *MCP server* (concurrent tool calls over one lock), and the layer
*below every request* (keychain, tokens, retries).

This directory models these, checks the models with TLC and proves their main
invariants with TLAPS. Source references are relative to `src/src/` unless they
start with `docs/`.

## 1. Inventory

### Components with state and concurrency

| Component | State | Operations | Talks to | Correct when |
|---|---|---|---|---|
| Read/write lock, `shared/rwlock.ts` | reader count, writer flag, two queues of resolvers | `withRead`, `withWrite` | MCP dispatch | writers exclude everybody, no lost wake-up, no starved writer |
| MCP server, `mcp/dispatch.ts`, `mcp/auth.ts` | the lock, the cached context, each request's abort signal | run a tool | lock, every verb | writes run alone; envelopes tell the truth; calls are answered |
| Flush pool, `recipe/runtime/execute-write-pool.ts` | promise chain per (item, language), pending cells, semaphore, `fatal`, `applied` | `enqueue`, `settle`, `settleAdds`, `drain` | apply loop (awaits), tenant (calls) | indistinguishable from one call at a time; nothing lost; ends |
| Apply loop, `recipe/runtime/execute.ts` with `execute-dispatch.ts`, `build-action.ts`, `plan-*.ts` | captured ids, snapshot and version-stack caches, `applied`, summary | one iteration per operation: settle, plan, enqueue or dispatch; cancel; abort | pool, rollback, tenant | a finished push converges, an aborted one leaves what it found |
| Rollback, `recipe/rollback/rollback.ts` | position in `applied`, error list | `inverseOf`, the LIFO walk | tenant | every landed write is taken back, in reverse order, best effort |
| Recipe push, `recipe/tasks/push.ts` | caches shared by the recipes of a push, hash cache and baselines on disk | prefetch, walk, save | apply loop, baselines | a recipe reported clean is clean; authors' edits are not overwritten unasked |
| Recipe baselines and merge, `recipe/runtime/baseline*.ts`, `merge.ts` | one file per recipe | load, classify, capture, save | recipe push | a baseline records what the tenant holds |
| Campaign sync, `campaigns/recipe/` with `sync/` | handle labels and ids on the tenant, baseline | `readCurrent`, `plan`, `apply` | tenant, baseline store | no duplicates, no dropped change, edits survive, re-pushing converges |
| Keychain, `shared/keychain.ts` | a primary entry and chunk entries per slot | read, write, delete a secret | OS keychain, other processes | a slot holds one whole secret |
| Authentication, `auth/client-credentials.ts`, `auth/factory.ts` | cached token bundle | `getAccessToken`, `createApiAuth` | keychain, identity provider | concurrent callers end with a usable token |
| HTTP retries, `shared/graphql.ts`, `shared/rate-limit-retry.ts` | attempt counters | send, back off, send again | every client | only what may be repeated is; a call ends |
| Bounded map, `shared/concurrency.ts` | next index, first error | `mapWithConcurrency` | serialization, audits | at most N in flight; first error wins |
| Job watcher, `publishing/job-watcher.ts` | deadline, last state | poll | publishing | a job that ended in time is not reported as timed out |
| Policy, `policy/` | organisation and environment policy | decision functions | every write verb | the stricter policy wins |

### Components that are I/O or pure conversion

Recipe compiler, schema and layout (document to IR), recipe pull, serialization
(YAML to items), REST clients (agents, brand, brief, deploy, workflow,
webhooks, sites, content, authoring), hygiene and doctor (scans, and cleanup
verbs that delete item by item),
scripting (an external runtime), configuration, setup, commands, telemetry. They
keep no state between two requests (the walks of the cleanup verbs apart); `PROJECT.json` lists each with its reason.

### Behaviours that are hard

* *Interleaving*: tool calls on one lock; the apply loop with pooled calls in
  flight; two processes on one keychain slot; authors who edit while a push runs.
* *Stale state*: the snapshot cache is written before the call it stands for is
  made; caches outlive the rollback of the recipe that filled them; a hash
  cache and a baseline outlive the process.
* *Partial failure*: a coalesced call is retried entry by entry; one recipe of a
  push is unwound and the walk goes on; a campaign push is never unwound and
  must be finished by the next one.
* *Crashes* between a write and the record of it, between two entries of one
  secret, between a rotation of the refresh token and its storing.
* *Unreliable delivery*: a write lands and its answer is lost; retries must not
  repeat it.
* *Cancellation* at any operation or await.
* *Waiting*: settle, drain, the semaphore, the lock queue and retries must end.
* *Identity*: an entity is known by id, label or name, and each of them changes.

`PROJECT.json` lists them under `hazards`, each at its line with the properties
aimed at it.

## 2. Plan

Steps 1 to 10 are done.

1. `RwLock`: the lock, as the smallest complete component.
2. `WritePool`: the flush pool; `WritePoolClient` closes it with an unconstrained client.
3. `RecipeExecutor`: the apply loop and the rollback, on top of `WritePool`.
4. Proofs: `RwLock_proofs`, `WritePool_proofs`, `WritePoolClient_proofs`, `RecipeExecutor_proofs`.
5. `McpDispatch`: composes `RwLock` with cancellation, the write gate and the context fetch; `McpDispatch_proofs`.
6. `CellWrites`: the abstract specification of the pool, which `WritePoolClient` implements.
7. `RecipePush`: pushes in sequence over the stores and shared caches, with the merge and crashes; `RecipePush_proofs`.
8. `CampaignPush`: the campaign kind under the sync engine, with its identities, baselines and partial failures; `CampaignPush_proofs`.
9. `Keychain` and `ApiCall`: slots, tokens and retries of concurrent processes; `ApiCall_proofs`.
10. `CampaignPush_proofs`, and the remaining safety properties of every module; the apply loop's last, since they need the caches and the unwind.
11. Models to come: the operation kinds `RecipeExecutor` leaves out (AppendToMultiList and SetBaseTemplates settle differently), the placeholder phase of a push, the brief kinds (shaped like the campaign kind), `JobWatcher`.

How the modules use each other:

| Module | Built on |
|---|---|
| `McpDispatch` | EXTENDS `RwLock`; its `FairSpec` property is that of the lock, so it is shown to implement it |
| `WritePoolClient`, `RecipeExecutor` | EXTEND `WritePool`; the former refines `CellWrites` by INSTANCE ... WITH |
| `ApiCall` | EXTENDS `Keychain` |
| `RecipePush`, `CampaignPush` | stand alone; `RecipePush` takes an operation of `RecipeExecutor` as one step |
| `MC...` | EXTEND one of these with TLC's constants |

## 3. Modules and the code they model

### RwLock

`Callers` call `withRead` or `withWrite` and later release. `call[c]` says where a
caller is; `readers`, `writerActive`, `waitingReaders` and `waitingWriters` are the
class's fields. Acquire is one step: the fast path, or joining a queue. A
release hands the lock over in the same step, as the code does when it calls the
queued resolvers synchronously: to the next writer (`HandToWriter`), else to
every queued reader (`HandToReaders`).

### WritePool

The class `WritePool` on a tenant of `Items` with one version stack per language.

| Model | Code |
|---|---|
| `chain[s]` | the promise chain of stack `s`: its unfinished tasks, the head may run |
| `chain[s][k].open` | the task's cell is still in `pendingCells`, later writes merge into it |
| `at[s]`, `step[s]` | where the head task is: asleep in `acquire()`, woken, or with which call in flight |
| `active`, `waiters` | the semaphore |
| `fatal`, `applied` | the fields of the same names |
| `ops`, `status` | the operations handed over and `action.status` |
| `present`, `top`, `cell` | the tenant: items, highest version of a stack, field value of a version |

`Enqueue` is `enqueue()`. `SkipDoomed`, `AwaitSlot`, `StartNow` and `Resume` are the
start of a chained task: the test of `fatal`, then `acquire()`, which either takes
a slot or sleeps. A woken waiter tests neither again (`Resume`), and between the
release that wakes it and its own turn another stack may take the slot, so
`active` may exceed `Limit` for a while; the model has this as two steps.
`AnswerMerged`, `AnswerSingle` and `AnswerAdd` are the ends of calls: the call takes
effect or not, is answered or not, and `flushCell`, `recordFailure` and `release` go
on from there. The tenant refuses calls for items that do not exist, languages
that are not registered and versions that are not there; beyond that it answers
anything in `Responses`: `ok`, `fail`, or `lost` (took effect, error returned).

What is abstracted: field contents are one value per cell, the fields of one call
travel together; events and messages are left out.

### WritePoolClient

`WritePool` fed by a client that enqueues any write at any moment, without the
settle calls the executor makes. It is what the class comment promises by itself.
Every write carries its operation number as its value, which makes order visible.

### RecipeExecutor

`executeIr` in apply mode. `pc` is where the loop is:

| `pc` | Code |
|---|---|
| `loop` | the top of the `for` loop (cancel check, `settleForPlan`) |
| `plan` | `buildAction` |
| `dispatch` | `applySequential`: drain, then `dispatchMutation` |
| `failing`, `cancelling`, `ending` | the drains before an abort, a cancellation, the result |
| `rollback` | the walk of `rollback()`; `cursor` is what is left of `applied` |
| `done` | the result has been returned |

`NextOp` chooses the next operation (the program is arbitrary, within `Sensible`,
the ordering the compiler guarantees), waits for the version adds of its stack,
and looks at `fatal`. The `Plan...` actions are the outcomes of `buildAction`;
`ToPool` is the enqueue of a field write or version add in the same turn,
`ToDispatch` everything else, and everything when there is no pool. `snap` and
`vcache` are `idSnapshotCache` and `versionStackCache`, written through at plan time
(`recordPendingWrite`). `captured` and `adopted` are `capturedItemIds` and
`adoptedItemRefKeys`. The pool's steps interleave with all of these (`PoolRuns`).

A snapshot keeps what `RemoteItem` keeps that matters here: one shared and one
localized field. The generic read returns both without language or version, in
the default language; a pending write adds an entry tagged with its own language
and version. `LookupField` (drift) takes an untagged entry for any language,
`FindPriorValue` (inverse) only an entry tagged with the cell's own language and version.

Abstractions: reading the tenant is one step with planning; deleting the
children of a prune is one step whose failure leaves any prefix deleted;
recreating pruned subtrees restores all of them or, on failure, any part.
Parents and templates are not modelled: a reference that is not captured yet is
the alternative `PlanCreateUnresolved`, and one that cannot be resolved is `PlanError`.
Operation kinds left out: AppendToMultiList, SetBaseTemplates and
SetStandardValues (which settle differently), guarded layout clears, media, sites
and languages.

### McpDispatch

A caller of `RwLock` is here a client's slot for one tool call; `phase` says which
`await` the call is in.

| `phase` | Code |
|---|---|
| `binding` | `createMcpContextProvider` (`mcp/auth.ts`): the first call fetches, calls that come meanwhile share the fetch, a failed fetch is not cached |
| `bound`, `locked` | `dispatchTool` asks for the lock; only the static auth class `write` takes the write side |
| `gating` | `enforceWriteGate`, for write tools and declared write verbs |
| `handling` | the handler; `started` remembers that it was invoked |
| `answered` | the envelope is made, the `finally` of `withRead`/`withWrite` is to come |

`Enter` is the entry test of the abort signal, `Coerced` turns what is thrown, or
a success, into CANCELLED once the client has cancelled. What a handler does is
left out, and whether the gate allows a call is an input.

### CellWrites

The pool's promise without its machinery: operations get one outcome each, the
writes of a cell land in operation order, several together with the newest on
top, after the version adds that precede them, and a failure changes nothing.
What a write carries is one of `Values`, of which it knows nothing else.
`WritePoolClient!ImplementsCellWrites` maps the pool to it (`doomed` is `fatal # 0`).

### RecipePush

`runRecipePush`, push after push. A recipe is a folder that all claim, an item of
its own, and one write per field; revision n wants the value n. Operations
are planned and applied in one step, in order: how writes overlap within a recipe
is `RecipeExecutor`'s subject.

| Model | Code |
|---|---|
| `folder`, `items`, `value` | the tenant |
| `revision` | the workspace |
| `baseline`, `cache` | `.scai` baseline files and `recipe-cache.json` |
| `loaded`, `seen`, `snapshot`, `created` | `baselineIndexByHandle`, `pathSnapshotCache`, `idSnapshotCache`, `createdItemRefKeys`, shared by the recipes of one push and not undone by a rollback |
| `undo` | `applied` of the recipe at the head of `todo` |
| `entries`, `result` | what `capturableOps` finds, the recipe's outcome |
| `guarded` | history: fields edited since a baseline recorded them |

`StartPush` covers the prefetch, the hash-cache skip and the load of baselines (an
unreadable one is taken for none). `CreateFolder`, `CreateItem` and `SetField` are the
operations with every outcome of plan and call; `OpFails` rolls the recipe back and
walks on (strict), or goes on with the next operation (tolerant). `PersistCache` and
one `PersistBaseline` per recipe follow, in the code's order; `Crash` forgets all but
the tenant and the files. `RolledBack` takes back all of a recipe in one step: inverses
that fail, of which the code collects the errors and goes on (`rollback.ts:633-646`), are
`RecipeExecutor`'s.

### CampaignPush

`plan` and `apply` of the campaign kind as `syncPush` runs them, for one campaign with
one deliverable and its tasks. A tenant record has an id, a parent, a title, one
value, and whether it carries its `handle:` label; `origin`, the entity it
was created for, stands for the label's content, and for telling apart
what different entities are called. `Found` is `matchByIdentity`; `Adopted`, `ByName` and
`Read` are the three other ways the code looks something up, which differ.
`Cells` keys the tenant's values by titles, as `hashCampaignCells` does. Every remote
write is a step: the project, the deliverable, a task, the stamp that completes a
created task (`StampTask`), its dependencies (`LinkTask`), the capture. `Stop` is a call
that fails, one whose answer is lost, and a process that dies, because `apply` undoes
nothing in any of them; calls whose failure the code survives have a
disjunct of their own.

The tasks endpoint wants the task's own fields in a PUT and, as three comments
say, silently ignores a body without them (`kind.ts:884-886`, `campaigns/api/tasks.ts:99-101`,
`119-121`). Only the planned update sends them (`Put`); the adoption of a task by its
handle, the stamp and the dependencies send the recipe's fields alone (`PutPart`). What
comes of those is the server's to say, so a tenant either applies or ignores them
(`partial`, chosen from `PartialBodies` once and for all), and the runs and theorems
cover both.

### Keychain and ApiCall

A slot is a primary entry and chunk entries; a secret whose bundle is too large
for one blob is split, and the primary entry counts the chunks. Each entry is
read, set or deleted by its own call, so each is a step (`ReadChunk`, `PutChunk`,
`DropChunk`, ...), taken by the process whose `kc` says where it is. A set that is
refused ends the write (`SetRefused`); a delete that is refused leaves its entry, and
the deletion goes on (`DeleteRefused`). Parts of different secrets that are joined are
`Torn`.

`ApiCall` is a process that takes a token from its slot (`UseCached`), refreshes it
(`Refresh`, `RefreshDenied`, `RefreshLost`), mints one (`Mint`) or uses the profile's
(`UseLiteral`), stores it (`Stores`, with `Keychain`'s steps in between), and sends.
`Retryable`, `Attempts` and `Settles` are the retry rules per kind of call: a
read, a recipe write, a single-attempt mutation, a REST POST, a REST PUT. `Effects` says which
answers leave open whether the call took effect. Tokens are numbered by issue;
`expired` and `lapsed` are how far time has come. A torn string need not parse
(`Parsed`). Where it does, its access token is a mixture and any refresh token may be in
it; its age is that of the part it ends with, because `expiresIn` and `lastUpdated` end
a bundle of the CM slot. The age of an API token is decoded from the token and may be
anything. The two slots are those of the CM and of the API tokens. Delays are left out.

## 4. Properties and runs

| Run | Instance | Shows |
|---|---|---|
| `mcp_dispatch` | 3 clients' calls of every kind, allowed or not | `MutualExclusion`, `NobodyWaitsForNobody`, `HonestAnswers`, `WriteToolsExclusive`, `WriteCallsAnswered`; `FairSpec`: the server implements the lock's fair specification |
| `write_pool` | 1 item, 3 languages (one unregistered), 2 versions, 2 slots, 4 operations | `AddsLandFirst`, `SameAsSequential`, `EveryWriteAccounted`, `SemaphoreExact`, `NoIdleSlot`, `ImplementsCellWrites` |
| `recipe_push` | 3 items (one known, one to be created, one to prune), 3 languages, 2 slots, 3 operations | `DrainedBeforeRollback`, `RollbackRestores`, `SharedFieldsConverge`, `PoisonedCacheUnread`, `ResultIsFinal`, `PushEnds` |
| `recipe_push_sequential` | no pool, `onError = "continue"`, 2 versions, an unregistered language, an item that exists but is not known yet, a prune of two children | `ToleratedFailuresDontAbort`, `ToleratedFailuresStayLocal` |
| `recipe_sync` | a component and a page of 2 fields, 3 pushes under every policy, 2 revisions, 2 edits, 1 fault | `ItemsHaveFolder`, `CleanMeansApplied`, `BaselineIsHeld`, `AuthorEditsSurvive`, `SeedsAreLeftToAuthors` |
| `campaign_push` | a campaign, a deliverable, 2 tasks one of which depends on the other, 2 changes, 2 faults, partial bodies applied or ignored, pushes without end | `HandlesAreAdopted`, `NothingSilentlyDropped`, `AuthorEditsSurvive`, `DeletedStaysDeleted`, `RePushConverges` |
| `api_call` | a server and a script, 2 slots, 3 tokens, secrets of 1 to 3 entries, 1 fault | `WritesLandOnce`, `QuietSlotIsWhole`, `ChainUnbroken`, `CallsEnd` |

Each passing run also checks its module's type invariant.

*Server.* `MutualExclusion` and `NobodyWaitsForNobody` are the lock's own and are
checked where it is used. `HonestAnswers` relates an envelope to what happened: a
success is the handler's own and was not cancelled before it returned, a refused
call never reached its handler, a gated handler only ran if it was allowed.
`WriteToolsExclusive` carries the exclusion from the lock to the handlers, and
`WriteCallsAnswered` is the lock's promise to writers: however many reads keep
arriving and whoever cancels, a call on a write tool comes to its answer.

*Pool.* `SameAsSequential` is the important one: whatever was coalesced, isolated or
overlapped, a drained pool leaves in every cell what the last applied write to it
in op order carried. `EveryWriteAccounted` says no enqueued write loses its outcome
and `applied`, which the rollback walks, has each applied operation once.
`AddsLandFirst` is the reason `enqueueVersionAdd` closes cells. `SemaphoreExact` and
`NoIdleSlot` say the slot count does not drift although release and wake-up are two
turns. `ImplementsCellWrites` says the same of every state on the way, not only of
a drained pool.

*Loop.* `DrainedBeforeRollback`: no forward write is in flight during or after an
unwind. `RollbackRestores`: after an unwind whose inverses all succeeded, items and
shared fields are as they were found; this relates the snapshots taken from
a cache that runs ahead of the tenant to the order in which writes landed and
were recorded. `SharedFieldsConverge`: a push that ran to its end leaves every
shared field with the value of the last operation on it, though each was planned
while earlier ones were in flight. `PoisonedCacheUnread`: in a strict push the
cache never shows the planner a value the tenant does not have, once the stack
has settled. It leaves out items a create adopted or found live although the push
did not know them: their snapshot may be read while the create's own write is in
flight, and lags behind it. `ResultIsFinal`: nothing reported is still in flight. `PushEnds`: no
settle, drain or dispatch waits for something that never comes; it covers the
pool's `drain()` too, under every failure. `ToleratedFailuresDontAbort` and
`ToleratedFailuresStayLocal`: with `onError = "continue"` a failure neither ends the
recipe nor makes another operation's effect get lost (checked without a pool,
proved with and without one).

*Recipe sync.* `ItemsHaveFolder`: the folder one recipe created, and its rollback
deletes, is not the one another recipe's item stands in. `CleanMeansApplied`: what
the push calls clean is on the tenant, after cache hits, adoptions, rollbacks of
earlier recipes and stale snapshots; and of what it skips by the hash cache, the item
is there, so no failed or unwound recipe got into that file. `BaselineIsHeld`: a baseline takes up a value
only if the tenant holds it. `AuthorEditsSurvive`: an edit of a field the baseline
knows is there until a push that may decide about it does. `SeedsAreLeftToAuthors`:
a CreateOnly recipe never takes back what an author wrote, under any policy.

*Campaign.* `HandlesAreAdopted`: nothing is created next to a record that carries
the same handle. `NothingSilentlyDropped`: with nothing reported as skipped there is a
record of every task, and each task planned as an update has the plan's title and
value, an author's value standing only where somebody wrote meanwhile. Of a task
planned as a create that holds on tenants that apply partial bodies; on the others
it is bare until the next push updates it, which `RePushConverges` covers.
`AuthorEditsSurvive`, `DeletedStaysDeleted`: what people did is kept under the
policies that say so, over stopped and aggregate pushes. `RePushConverges`: when
people leave it alone, pushing with recipe-wins again and again brings the
campaign to the recipe and keeps it there, whatever half-done pushes left.

*Calls.* `WritesLandOnce`: whatever is answered and retried, a mutation or POST takes
effect once at most. `QuietSlotIsWhole`: a slot nobody was disturbed at holds one
whole secret and no remains of another. `ChainUnbroken`: the refresh token in it
is the one the identity provider expects. `CallsEnd`: retry budgets run out. The
two about slots hold while `calm[s]`: no fault has hit the slot and no two processes
have replaced it at a time. Otherwise they do not, and the code has no means to
make them: `half_written` shows what a crash leaves of a slot, and `stale_slot` what
becomes of the calls after a refresh token was lost.

### Bounds, and why they are enough

* Three callers are a writer and two readers, which can starve it by turns; four added nothing.
* `Limit = 2` with three languages gives more ready stacks than slots, so stacks
  sleep on the semaphore, are woken, and are overtaken.
* Four operations let one stack hold an open cell with two entries, a version add
  and a write behind it, or let a coalesced call of two fail while another stack fails.
* Two versions give a stack two cells and a version add something to add.
* In the executor three operations give two writes of one field around a third
  operation that fails or is dispatched. The items are one that is known, one
  that must be created, and one a prune deletes.
* Two values and a blank tell "prior", "planned" and "cleared" apart.
* Two recipes are enough for one to be rolled back after or before the other; three
  pushes for one that fails, one that acts on what it left, and one that is skipped
  by the hash cache; two fields for a recipe that is half withheld.
* Campaign pushes are not bounded; two changes (a revision, a rename, an edit, a
  deletion, an aggregate push) and two stops or failed calls meet at every step of a
  push, so a push that was to repair one that stopped can stop itself.
* Two processes with a call each, of which either is cut off once. The bundle of the
  login has two entries, the one that replaces it three, the next one two again, and
  one without a refresh token one: an undisturbed slot grows, shrinks and comes to one
  entry. `MaxTokens` allows a
  refresh by each.
* `MaxOps`, `MaxVersion`, `MaxPushes`, `MaxEdits`, `MaxRevision`, `Revisions`, `Titles`,
  `MaxChanges`, `MaxFaults`, `MaxCalls` and `MaxTokens` are the only bounds on what
  the environment does; they stand in guards. `MaxAttempts`, `MaxWrites`, `MaxRetries` and
  `MaxSettle` are the code's own.

`CHECK_DEADLOCK FALSE` appears in the pool, apply and call runs, where the system does
stop: a drained pool whose client is done, a push that returned, calls used up.
`recipe_sync` needs none because a recipe can always be revised, `campaign_push`
because it can always be pushed.

### Fairness

`McpDispatch`: every await of a call ends, because the keychain answers and handlers
are bounded HTTP work wrapped in `try/finally`; clients need neither call nor
cancel. That this implies the lock's fairness (whoever is inside releases) is
part of checking `FairSpec`. `RecipeExecutor`: each stack's head task makes progress,
because promise continuations run and every HTTP call is answered or times out,
and the loop continues when what it awaits is over. `CampaignPush`: a push that runs
goes on, and somebody keeps pushing with recipe-wins; strong fairness there says
that other pushes do not keep that one from ever starting. `ApiCall`: keychain and API answer
within their timeouts, the identity provider by assumption, since `requestToken`
sets no timeout. No one is made to cancel, and no fairness ranges over which answer
is given, so every call may fail.

### Disagreements between code and documentation

Each is a run whose single property states what a comment or document says and
which TLC refutes with a short trace.

| Run | The code | The text |
|---|---|---|
| `plan_error_rollback` | when `buildAction` throws, `execute.ts:490-514` rolls back without draining; writes in flight land behind the unwind | `docs/recipes.md:392` |
| `verb_writes` | only the auth class `write` takes the write side of the lock (`mcp/dispatch.ts:149`); write verbs of verb-discriminated tools run beside others | `mcp/dispatch.ts:7-8` |
| `label_dropped` | the dependencies pass sends the recipe's labels without the handle (`kind.ts:1001`); the task is created again once it is renamed | `campaigns/recipe/kind.ts:851-855` |
| `half_written` | the chunks of a new secret overwrite those the old manifest still counts (`keychain.ts:217-222`); after a crash between them the previous value is not stored any more | `shared/keychain.ts:203-205` |
| `stale_slot` | a refused refresh throws before `acquireAccessToken` is come to (`client-credentials.ts:565-583`) | `auth/client-credentials.ts:537-539` |

More was met on the way that is stated where it limits a property, and listed
as a hazard, instead of in a run:

* The inverse of a create deletes the captured id, also when the create adopted
  an item the tenant already had (`rollback.ts:283`).
* Drift of a localized write is judged against the default language's value,
  because the snapshot's entry has no language (`plan-refs.ts:42`), and its inverse
  writes the blank for the same reason (`rollback.ts:155`).
* A write joins its cell's queued call past an earlier write to another cell of
  the same stack, so "writes to the same stack always apply in op order"
  (`execute-write-pool.ts:88`) holds per cell only; `CellWrites` says so.
* Deletions made before a failing one are in no rollback list
  (`execute-dispatch.ts:283`), and neither is a write whose answer was lost (`execute.ts:387`).
* In a pooled tolerant push a failed write's value stays in the snapshot cache
  (`execute-write-pool.ts:280`): `PoisonedCacheUnread` and `RollbackRestores` are
  about strict pushes.
* Content whose template cannot be compared goes to the create mutation although it
  exists, is adopted, and then counts as created in this run (`execute.ts:382`), so its
  seeds are written over. `recipe_sync` has no such content (`Unverifiable = {}`).
* "Stamp `handle:<x>` into labels here so the task is matchable" (`kind.ts:851-855`) is done
  with a body of the kind that `kind.ts:884-886` and `tasks.ts:119-121` say is ignored. If
  they are right a new task has neither its fields nor its handle until a later push
  updates it; if it is renamed before, it is created a second time. The same goes for
  dependencies, which no later push sends in full.
* An edit made between the plan's read and the PUT of a campaign push is overwritten:
  nothing is compared again before the write. The properties leave edits under
  way (`raced`) out.
* The hash cache is only written by pushes with `--skip-unchanged-recipes`
  (`push.ts:464`). A revision pushed without the option, and taken back in the recipe, is
  found in the cache and skipped, while the tenant holds the revision. A recipe with
  withheld or conflicting fields is recorded too (`push.ts:466-467` excludes `aborted` and
  `error` alone).
* A field that `cms-wins` left to the author drops out of the baseline file
  (`push.ts:502-549`), so the next push no longer knows that an author wrote it;
  `guarded` ends there. An edit that falls between the last write of a campaign
  push and its capture becomes the baseline (`kind.ts:1026`), and a rename loses the cell.
* The aggregate `sync push` passes no baseline key (`sync/aggregate.ts:241`), finds
  the project by name only and has no merge: it overwrites edits under every policy.

The passing properties leave these cases out: `DrainedBeforeRollback`
and `RollbackRestores` exclude pushes that failed while planning,
`RollbackRestores` also adopted items and children of a failed prune;
`RollbackRestores` and `SharedFieldsConverge` are about shared fields;
`SameAsSequential` compares cells; no passing run of the executor has lost
responses or adoption; the campaign's `AuthorEditsSurvive` leaves out aggregate
pushes, edits made while a push is under way and fields with a twin; its
`NothingSilentlyDropped` the fields of tasks that were just created on a tenant that
ignores partial bodies; `CleanMeansApplied` the fields of a recipe that was skipped.

## 5. Proofs

All theorems hold for every value of the constants that satisfies the named
assumptions (`PoolAssumption`, `ClientAssumption`, `ExecutorAssumption`,
`PushAssumption`, `CampaignAssumption`, `KeychainAssumption`, `ApiCallAssumption`,
`SnapshotAssumption`), which TLC evaluates on the instances. `RwLock` assumes a finite
set of callers. Some theorems assume more, and say so:

* `PoolImplementsCellWrites` and `RollbackRestoresTenant`, that no answer is lost
  (`"lost" \notin Responses`). A lost one is reported as a failure and yet has an
  effect, which is in no list to undo.
* `FieldsConverge`, `CacheNotStale` and `RollbackRestoresTenant`, that the push is
  strict (`~Tolerant`, the default `onError`). A tolerant one goes on with a cache that
  has a failed write's value.
* `SeedsStayWithAuthors` and `EditsOutliveFailures`, that there is no content the
  engine cannot compare (`Unverifiable = {}`).

Section 4 lists each of these as a case the code gets wrong.

| Module | Theorems |
|---|---|
| `RwLock_proofs` | `TypeCorrectness`, `LockExcludes` (`MutualExclusion`), `NoLostWakeup` (`NobodyWaitsForNobody`) |
| `McpDispatch_proofs` | `ServerUsesLock` (every step is one of the lock's), `ServerExcludes` (`MutualExclusion`), `AnswersAreHonest` (`HonestAnswers`), `WriteHandlersRunAlone` (`WriteToolsExclusive`), `DispatchTypes` (`DispatchTypeOK`) |
| `WritePoolClient_proofs` | `TypeCorrectness`, `SemaphoreCounts` (`SemaphoreExact`), `NoSlotIdles` (`NoIdleSlot`), `QueueInvariant`, `PoolImplementsCellWrites` (`ImplementsCellWrites`), `AddsBeforeWrites` (`AddsLandFirst`), `CellsAsSequential` (`SameAsSequential`), `OutcomesAccounted` (`EveryWriteAccounted`) |
| `RecipeExecutor_proofs` | `TypeCorrectness`, `NothingLandsBehindRollback` (`DrainedBeforeRollback`), `NoAbortWhenTolerant` (`ToleratedFailuresDontAbort`), `ResultsAreFinal` (`ResultIsFinal`), `FailuresStayLocal` (`ToleratedFailuresStayLocal`), `FieldsConverge` (`SharedFieldsConverge`), `CacheNotStale` (`PoisonedCacheUnread`), `RollbackRestoresTenant` (`RollbackRestores`) |
| `RecipePush_proofs` | `TypeCorrectness`, `FolderOutlivesItems` (`ItemsHaveFolder`), `BaselineHoldsTruth` (`BaselineIsHeld`), `CleanIsApplied` (`CleanMeansApplied`), `SeedsStayWithAuthors` (`SeedsAreLeftToAuthors`), `EditsOutliveFailures` (`AuthorEditsSurvive`) |
| `CampaignPush_proofs` | `TypeCorrectness`, `NothingDropped` (`NothingSilentlyDropped`), `HandleIsAdopted` (`HandlesAreAdopted`), `DeletedNotRevived` (`DeletedStaysDeleted`), `EditsAreKept` (`AuthorEditsSurvive`) |
| `ApiCall_proofs` | `NoWriteLandsTwice` (`WritesLandOnce`), `TokenInvariant`, `ApiCallTypes` (`ApiTypeOK`), `SlotsAreWhole` (`QuietSlotIsWhole`), `RefreshChainUnbroken` (`ChainUnbroken`) |

*Lock.* Exclusion alone is not inductive: the counters must mean the callers inside
(`CountersExact`), the queues must be exactly the callers that wait, each once
(`QueuesExact`), and a non-empty queue must have a holder ahead of it
(`WaitersHaveHolder`). Each action disturbs one or two of these.

*Server.* Each step of the server is a step of the lock or leaves it alone, so the
lock's theorems carry over without being proved again. `CallInv` ties a call's phase
to its place in the lock: a handler runs only inside, on the side its auth
class asks for. `WriteHandlersRunAlone` combines the two, and `DispatchTypes` adds
that an envelope is there when a call is answered.

*Pool.* `WritePool_proofs` proves `PoolInv` preserved by every step of the pool and by
every `Enqueue`, so that both clients can use it. `PoolInv` adds to the types that a
stack that does anything has a head task (`HeadRuns`), that a single call has an
entry to send, that tasks and results name planned operations (`TasksKnown`,
`ResultsKnown`), and the two semaphore invariants. These need each other: the
type of `active` needs that a release is always by a busy stack, that needs `active`
to count the busy stacks, and waking the head of the list needs that exactly
the sleeping stacks are in it.

`QueueInv` is about order: what is queued in a stack keeps the program's order within
each cell and around each version add (`QueuesOrdered`, with `Before` between any
two tasks: writes to different cells may pass each other, and only the last task of
a cell is open), and the writes applied to a cell are older than those that wait
(`AppliedOlder`). Every step of the pool is one of five moves of one stack
(`Drops`, `Starts`, `Waits`, `GoesOn`, or a call's answer), and it is preserved by each.
With the writes carrying their numbers (`OrderInv`), a cell holds the maximum of the
writes applied to it, from which `CellsAsSequential` and each step of the
simulation of `CellWrites` follow: an answer is the abstract landing of the same
operations, everything else a stutter.

*Loop.* `IInv` is `PoolInv`, the loop's and the caches' types, what each `pc` has at
hand (`AtHand`: a request while planning, an operation while dispatching, a
cursor inside `applied` while unwinding), and `DrainedBeforeRollback`. The key
lemma is `DrainedIsStill`: with every chain empty no step of the pool is enabled,
so what was drained when the unwind began stays drained; a step of the loop into
`rollback` other than `PlanError` is guarded by `Drained` or follows a dispatch,
which is. `NoAbortWhenTolerant` has an invariant of its own: a tolerant push never
sets `fatal`. `ResultsAreFinal` needs the pool's `QueueInv` and that the operation the
loop sends by itself is in no queue (`EndInv`, with `OwnCall`), which no step of the
pool changes (`OutOfQueue`): then every operation without an outcome is queued or
the loop's own, and a result is returned only when both are none.

The caches run ahead of the tenant, so what is true of them is true of a later
state: `Coming(s, x)` says that stack `s` will hold `x` once the calls made for it have
landed, i.e. that `x` is the value of the newest write awaited, or, when none is, what
the cell holds. `ConvInv` says that of every snapshot in the cache (`CacheComing`) and
of the newest write the push counts on (`CountsComing`), for stacks whose writes
never failed (`Spared`). `CreateFirst`, `ReadFirst` and `NotYetMade` say in which order an
item's first operations come; without them an item could be created over
values that are cached already. When a push has ended nothing is awaited, and
`Coming` is what the tenant holds: `FieldsConverge` and `FailuresStayLocal`. While a strict
push runs without a failure no stack is unspared (`FailuresShow`), and a settled one
has nothing awaited: `CacheNotStale`.

For the unwind, the writes of a field that were made and not yet taken back, and
those whose call is still to come, form its `Line`. `Unwinds` says that each write in
it was planned with the value of the one before it as prior, the first with the
value the push found (`LineFollows`); that the tenant holds the value of the last
one made (`FieldHolds`); that the made ones are the older ones (`MadeFirst`); and that
`applied` has them in that order (`ListedInOrder`), which is where `QueueInv` comes in.
A plan puts its write at the end of the line (`RecordedUnwinds`: its prior is what is
`Coming`), a step of the pool makes some of the first ones due or, once the push is
doomed, drops some of the last (`Advances`), and an inverse takes back the last one
made (`TakeBackKeeps`). With the cursor at 0 the line is empty, so the field holds
what the push found. `ItemsInv` is the same for items: what is missing has a prune, and
what is new a create, that is still to be undone (`GoneComeBack`, `NewOnesGo`).

*Recipe push.* For the folder (`FolderInv`): a running push knows of the folder if it
exists, so one that creates it found no items, and every item made since is in
the same unwind list. For the baselines (`EntryInv`): the recipes still to be walked
are each there once and untouched (`WalkedOnce`), a cached snapshot is the tenant's
content, or a blank of an item adopted unread (`SnapshotHeld`), and what counts as
evidence is held by the tenant as long as the recipe is reported clean
(`EntryHeld`). A rollback changes only fields of the recipe it reports as aborted,
which is why walking each once matters. For `CleanIsApplied` (`CleanInv`): what has been
walked of a recipe that is clean so far is applied (`WalkedClean`), an unwind list
holds entries of the recipe being walked only (`UndoOurs`), so no rollback takes
it back, and what is seen and not aborted exists (`SeenExist`). The hash cache has its
own invariant (`HashInv`), of content that can be compared: what it records exists, and no
unwind list holds the creation of an item it records, so no rollback takes that away.
For the authors
(`AuthorInv`): what is still to be compared is as the tenant has it
(`SnapshotExact`, which is where `Unverifiable = {}` is needed), so no planned write
and no entry of an unwind list is over an author's value (`EntryOurs`).

*Campaign push.* A call adds a record or replaces one by another of the same id,
parent and origin (`Added`, `Replaced`), so what a push has found goes on to be there
(`Carries`). `TaskInv`: the deliverable the tasks go to stands under the project, and
each task is still to be written, or is as planned, edited since, or the one
whose follow-up update is next (`Right`); that gives `NothingDropped`. It is proved for
every `PartialBodies`: that a record exists, and that an update has landed, does not
depend on it, and the fields of created tasks are claimed of tenants that apply
partial bodies only. `AdoptInv` ties
the plan to the tenant: a project planned as unchanged is still found by its name,
and under cms-wins a push with a baseline only starts where something is.
`EditsAreKept` rests on the shape of the tree (`ShapeInv`): there is one campaign and one
deliverable, and they never lose their labels, because the pass that drops labels
writes tasks only. Therefore the plan's lookups and the apply's, which differ, meet
the same record, the cells at its path are its own (`CellIsOwn`), and a plan that
is neither refused nor told that recipes win carries the author's value (`EditHeld`).
A task of which there is a second record escapes this, as `label_dropped` shows,
and the property leaves it out.

*Calls.* `LandInv`: while a call that must not be repeated is under way it has not
taken effect. The answers after which one is sent again are exactly answers
without effect; every other answer ends the call. `TokenInv` describes a slot from the calls of
several processes: between calls an undisturbed slot holds one whole bundle whose
refresh token is accepted (`Holding`, `Accepted` in `CalmInv`), and while one process
replaces it, which entries are the old secret's and which the new one's is a
function of that process's place in the store or deletion (`Progress`, `PlaceInv`). At
most one process replaces an undisturbed slot, so a step of another one leaves
all of that alone.

Only model-checked: the liveness properties (`WriteCallsAnswered`, `PushEnds`,
`RePushConverges`, `CallsEnd`) and the refinements' fairness (`FairSpec`), which need
ENABLED and temporal fairness arguments. Every safety property the runs check is
also proved, under the assumptions above.

## 6. Not modelled

Everything listed as `not_modelled` in `PROJECT.json`. Of the recipe engine: plan
mode, guarded layout clears, multi-list appends, media and site operations, the
placeholder phase, the content of restored subtrees, and pull. Of the sync kinds:
pull, prune, media, stamped `sitecoreId`s, and the brief kinds. Of the
authentication: interactive logins and the deploy token's slot. Much of the
repository's volume is conversion (schemas, compilers, renderers, command
definitions) and clients of one request per verb, which keep nothing between
two steps for a property to relate.
