----------------------------- MODULE RecipePush -----------------------------
(***************************************************************************)
(* `recipe push` over a set of recipes, again and again                    *)
(* (src/src/recipe/tasks/push.ts runRecipePush): the hash cache that skips *)
(* unchanged recipes, the prefetch, the three-way merge against the        *)
(* per-recipe baseline, the walk over the recipes with caches they share,  *)
(* the rollback of one recipe while the walk goes on, and what is saved    *)
(* at the end.  Between two pushes recipes are revised and authors edit.   *)
(*                                                                         *)
(* A recipe is: a folder every recipe claims, an item of its own below it, *)
(* and one write per field of that item.  Revision n of a recipe wants the *)
(* value n in every field; an author's value is AuthorValue.  An operation *)
(* is planned and applied in one step, in operation order: the overlap of  *)
(* writes is the subject of RecipeExecutor, and authors do not edit while  *)
(* a push runs.                                                            *)
(*                                                                         *)
(* Bounds: MaxPushes pushes, MaxEdits author edits, MaxRevision revisions, *)
(* MaxFaults failed calls, failed saves and crashes.                       *)
(***************************************************************************)
EXTENDS Naturals, Sequences, FiniteSets

CONSTANTS
    Order,         \* the recipes, in the order a push walks them
    Seeded,        \* recipes whose operations are CreateOnly (content, pages)
    Unverifiable,  \* content whose template this push cannot resolve
    FieldCount,
    Policies,      \* conflict policies pushes may be run with
    MaxRevision, MaxPushes, MaxEdits, MaxFaults

Recipes == {Order[i] : i \in DOMAIN Order}

Fields == 1 .. FieldCount

ASSUME PushAssumption ==
    /\ Order \in Seq(Recipes)
    /\ \A i, j \in DOMAIN Order : Order[i] = Order[j] => i = j
    /\ "folder" \notin Recipes
    /\ FieldCount \in Nat \ {0}
    /\ MaxRevision \in Nat \ {0}
    /\ Seeded \subseteq Recipes /\ Unverifiable \subseteq Seeded
    /\ Policies \subseteq {"error", "recipe-wins", "cms-wins"}
    /\ Policies # {}
    /\ {MaxPushes, MaxEdits, MaxFaults} \subseteq Nat

Blank == 0
AuthorValue == MaxRevision + 1
Values == 0 .. AuthorValue
NoEntry == MaxRevision + 2

Options == [policy : Policies, skip : BOOLEAN, tolerant : BOOLEAN]

VARIABLES
    folder,     \* tenant: the shared folder exists
    items,      \* tenant: recipes whose item exists
    value,      \* tenant: the fields of each item
    revision,   \* workspace: current revision of each recipe
    baseline,   \* baseline file of each recipe, NoEntry where it has none
    cache,      \* recipe cache: revision recorded as applied, 0 if none
    pc,         \* what the push is doing
    options,    \* conflict policy, --skip-unchanged-recipes, tolerant mode
    todo,       \* the recipes not yet walked, when executing and when saving
    op,         \* operation of Head(todo) to be planned next
    loaded,     \* baselineIndexByHandle
    seen,       \* pathSnapshotCache: what is known to exist
    snapshot,   \* idSnapshotCache: fields of an item, <<>> if not read
    created,    \* createdItemRefKeys
    undo,       \* applied operations of the current recipe, newest first
    entries,    \* applied-state evidence of each recipe
    result,     \* outcome of each recipe in this push
    guarded,    \* history: fields edited since a baseline recorded them
    pushes, edits, faults

tenant == <<folder, items, value>>
stores == <<revision, baseline, cache>>
run == <<options, loaded>>
caches == <<seen, snapshot, created>>
outcome == <<undo, entries, result>>
bounds == <<pushes, edits, faults>>
vars == <<tenant, stores, pc, run, todo, op, caches, outcome, guarded, bounds>>

Nothing == [f \in Fields |-> NoEntry]
BlankItem == [f \in Fields |-> Blank]

Result == {"none", "cached", "clean", "conflict", "error", "aborted"}

TypeOK ==
    /\ folder \in BOOLEAN
    /\ items \subseteq Recipes
    /\ value \in [Recipes -> [Fields -> Values]]
    /\ revision \in [Recipes -> 1 .. MaxRevision]
    /\ baseline \in [Recipes -> [Fields -> Values \cup {NoEntry}]]
    /\ cache \in [Recipes -> 0 .. MaxRevision]
    /\ pc \in {"idle", "executing", "saving", "saved"}
    /\ options \in Options
    /\ todo \in Seq(Recipes)
    /\ op \in 1 .. FieldCount + 2
    /\ loaded \in [Recipes -> [Fields -> Values \cup {NoEntry}]]
    /\ seen \subseteq Recipes \cup {"folder"}
    /\ snapshot \in [Recipes -> {<<>>} \cup [Fields -> Values]]
    /\ created \subseteq Recipes
    /\ entries \in [Recipes -> [Fields -> Values \cup {NoEntry}]]
    /\ result \in [Recipes -> Result]
    /\ guarded \subseteq Recipes \X Fields

Init ==
    /\ folder = FALSE
    /\ items = {}
    /\ value = [r \in Recipes |-> BlankItem]
    /\ revision = [r \in Recipes |-> 1]
    /\ baseline = [r \in Recipes |-> Nothing]
    /\ cache = [r \in Recipes |-> 0]
    /\ pc = "idle"
    /\ options = CHOOSE o \in Options : TRUE
    /\ todo = <<>>
    /\ op = 1
    /\ loaded = baseline
    /\ seen = {}
    /\ snapshot = [r \in Recipes |-> <<>>]
    /\ created = {}
    /\ undo = <<>>
    /\ entries = baseline
    /\ result = [r \in Recipes |-> "none"]
    /\ guarded = {}
    /\ pushes = 0 /\ edits = 0 /\ faults = 0

-----------------------------------------------------------------------------
(* Between two pushes.                                                     *)

AuthorEdit(r, f) ==
    /\ pc = "idle"
    /\ r \in items
    /\ value[r][f] # AuthorValue
    /\ edits < MaxEdits
    /\ edits' = edits + 1
    /\ value' = [value EXCEPT ![r][f] = AuthorValue]
    /\ guarded' = IF baseline[r][f] = NoEntry THEN guarded
                  ELSE guarded \cup {<<r, f>>}
    /\ UNCHANGED <<folder, items, stores, pc, run, todo, op, caches, outcome,
                   pushes, faults>>

Revise(r, n) ==
    /\ pc = "idle"
    /\ n # revision[r]
    /\ revision' = [revision EXCEPT ![r] = n]
    /\ UNCHANGED <<tenant, baseline, cache, pc, run, todo, op, caches, outcome,
                   guarded, bounds>>

-----------------------------------------------------------------------------
(* The start of a push: what the cache lets it skip, the prefetch, the     *)
(* baselines.                                                              *)

CachedSkip(r, skip) == skip /\ cache[r] = revision[r]

(* Mutant: the paths several recipes share are taken for missing.          *)
MutantPrefetched == items

(* getItemsByPaths over every path the operations name.                    *)
Prefetched == items \cup (IF folder THEN {"folder"} ELSE {})

StartPush(o) ==
    /\ pc = "idle"
    /\ pushes < MaxPushes
    /\ pushes' = pushes + 1
    /\ options' = o
    /\ todo' = Order
    /\ op' = 1
    /\ \E unread \in SUBSET Recipes :
          /\ faults' = faults + Cardinality(unread)
          /\ faults' <= MaxFaults
          /\ loaded' = [r \in Recipes |->
                          IF r \in unread THEN Nothing ELSE baseline[r]]
    /\ seen' = Prefetched
    /\ snapshot' = [r \in Recipes |-> <<>>]
    /\ created' = {}
    /\ undo' = <<>>
    /\ entries' = [r \in Recipes |-> Nothing]
    /\ result' = [r \in Recipes |->
                    IF CachedSkip(r, o.skip) THEN "cached" ELSE "none"]
    /\ pc' = "executing"
    /\ UNCHANGED <<tenant, stores, guarded, edits>>

-----------------------------------------------------------------------------
(* One operation of the recipe at the head of the walk.                    *)

This == Head(todo)

Executing(k) ==
    pc = "executing" /\ todo # <<>> /\ op = k /\ result[This] # "cached"

SkipCached ==
    /\ pc = "executing" /\ todo # <<>>
    /\ result[This] = "cached"
    /\ todo' = Tail(todo)
    /\ UNCHANGED <<tenant, stores, pc, run, op, caches, outcome, guarded, bounds>>

(* The recipe is done with: its result, and on to the next one.            *)
Finish(res) ==
    /\ result' = [result EXCEPT ![This] = res]
    /\ todo' = Tail(todo)
    /\ op' = 1
    /\ undo' = <<>>

(* Mutant: the last operation decides.                                     *)
MutantWorse(res) == res

(* Conflicts and tolerated errors are remembered in the recipe's result.   *)
Worse(res) ==
    IF "error" \in {res, result[This]} THEN "error"
    ELSE IF "conflict" \in {res, result[This]} THEN "conflict"
    ELSE "clean"

LastOp == FieldCount + 2

(* Mutant: one operation too many.                                         *)
MutantAdvance(res, undoing) ==
    \/ op > LastOp /\ Finish(Worse(res))
    \/ /\ op <= LastOp
       /\ result' = [result EXCEPT ![This] = Worse(res)]
       /\ op' = op + 1
       /\ undo' = undoing \o undo
       /\ UNCHANGED todo

(* The operation's outcome is in; the loop goes on.                        *)
Advance(res, undoing) ==
    \/ op = LastOp /\ Finish(Worse(res))
    \/ /\ op < LastOp
       /\ result' = [result EXCEPT ![This] = Worse(res)]
       /\ op' = op + 1
       /\ undo' = undoing \o undo
       /\ UNCHANGED todo

Untouched == UNCHANGED <<stores, pc, run, guarded, pushes, edits>>

(* A planned skip or conflict.                                             *)
NoWrite(res) ==
    /\ Advance(res, <<>>)
    /\ UNCHANGED <<tenant, faults>>
    /\ Untouched

(* The rollback of a recipe takes back the creates and restores the fields *)
(* to what the plan had read; no cache hears of it.                        *)
RolledBack(done) ==
    LET gone == {done[i].recipe : i \in {j \in DOMAIN done : done[j].kind = "item"}}
        kept(r) == {j \in DOMAIN done : done[j].kind = "field" /\ done[j].recipe = r}
        oldest(f) == {j \in kept(This) : done[j].field = f}
    IN  /\ folder' = (folder /\ \A i \in DOMAIN done : done[i].kind # "folder")
        /\ items' = items \ gone
        /\ value' = [value EXCEPT ![This] = [f \in Fields |->
                        IF This \in gone THEN Blank
                        ELSE IF oldest(f) = {} THEN value[This][f]
                        ELSE done[CHOOSE j \in oldest(f) : TRUE].prior]]

(* A call fails: a strict push rolls the recipe back and walks on to the   *)
(* next one, a tolerant push goes on with the next operation.              *)
OpFails ==
    /\ \/ options.tolerant /\ Advance("error", <<>>) /\ UNCHANGED tenant
       \/ ~options.tolerant /\ RolledBack(undo) /\ Finish("aborted")
    /\ UNCHANGED <<seen, created, entries>>
    /\ Untouched

Fault == faults < MaxFaults /\ faults' = faults + 1

(* CreateItem of the folder every recipe claims.                           *)
CreateFolder ==
    /\ Executing(1)
    /\ \/ /\ "folder" \in seen
          /\ NoWrite("clean")
          /\ UNCHANGED <<caches, entries>>
       \/ /\ "folder" \notin seen
          /\ folder' = TRUE
          /\ seen' = seen \cup {"folder"}
          /\ Advance("clean", <<[kind |-> "folder", recipe |-> This,
                                 field |-> 0, prior |-> Blank]>>)
          /\ UNCHANGED <<items, value, snapshot, created, entries, faults>>
          /\ Untouched
       \/ "folder" \notin seen /\ Fault /\ OpFails /\ UNCHANGED snapshot

(* A content item whose template cannot be compared goes to the create     *)
(* mutation although it exists.                                            *)
PlannedAsCreate(r) == r \notin seen \/ r \in Unverifiable

(* CreateItem of the recipe's own item.  An item that exists is adopted as *)
(* it is, yet its snapshot is the synthetic one, it counts as created in   *)
(* this run, and a rollback deletes it.                                    *)
CreateItem ==
    /\ Executing(2)
    /\ \/ /\ ~PlannedAsCreate(This)
          /\ NoWrite("clean")
          /\ UNCHANGED <<caches, entries>>
       \/ /\ PlannedAsCreate(This)
          /\ folder
          /\ items' = items \cup {This}
          /\ seen' = seen \cup {This}
          /\ snapshot' = [snapshot EXCEPT ![This] = BlankItem]
          /\ created' = created \cup {This}
          /\ Advance("clean", <<[kind |-> "item", recipe |-> This,
                                 field |-> 0, prior |-> Blank]>>)
          /\ UNCHANGED <<folder, value, entries, faults>>
          /\ Untouched
       \/ PlannedAsCreate(This) /\ folder /\ Fault /\ OpFails /\ UNCHANGED snapshot
       \/ /\ PlannedAsCreate(This) /\ ~folder
          /\ OpFails
          /\ UNCHANGED <<snapshot, faults>>

-----------------------------------------------------------------------------
(* SetField.                                                               *)

(* The fields the plan compares with: the cached snapshot, else a read.    *)
Before == IF snapshot[This] = <<>> THEN value[This] ELSE snapshot[This]

(* baselineFor: an item created in this run has no history.                *)
EntryFor(r, f) == IF r \in created THEN NoEntry ELSE loaded[r][f]

(* Mutant: an edit counts only where the recipe has moved as well.         *)
MutantTenantMoved(f) ==
    /\ EntryFor(This, f) \notin {NoEntry, revision[This]}
    /\ Before[f] # EntryFor(This, f)

(* classifyThreeWay for a field that drifts: the tenant moved away from    *)
(* the baseline (cms-edit, or conflict if the recipe moved too).           *)
TenantMoved(f) ==
    /\ EntryFor(This, f) # NoEntry
    /\ Before[f] # EntryFor(This, f)

InSync(f) == Before[f] = revision[This]

(* Mutant: only what the last push wrote there is left alone.              *)
MutantSeedKept(f) == This \in Seeded /\ Before[f] = EntryFor(This, f)

(* CreateOnly: a seeded field that holds anything is the author's.         *)
SeedKept(f) == This \in Seeded /\ Before[f] # Blank

(* What becomes of a write, in planUpdateOp's order.                       *)
Status(f) ==
    CASE InSync(f) -> "in-sync"
      [] ~InSync(f) /\ SeedKept(f) -> "create-only"
      [] ~InSync(f) /\ ~SeedKept(f) /\ TenantMoved(f)
            /\ options.policy # "recipe-wins" -> options.policy
      [] OTHER -> "update"

(* Mutant: every field the recipe wants is evidence.                       *)
MutantEvidence(f, status) == [entries EXCEPT ![This][f] = revision[This]]

(* capturableOps: what was written or proven in sync.                      *)
Evidence(f, status) ==
    IF status \in {"update", "in-sync"}
    THEN [entries EXCEPT ![This][f] = revision[This]]
    ELSE entries

(* A write goes into the cached snapshot before it is made, and stays in   *)
(* it when it fails.                                                       *)
SetField(f) ==
    /\ Executing(f + 2)
    /\ This \in seen
    /\ snapshot' = [snapshot EXCEPT ![This] =
                       IF Status(f) = "update" THEN [Before EXCEPT ![f] = revision[This]]
                       ELSE Before]
    /\ \/ /\ Status(f) # "update"
          /\ entries' = Evidence(f, Status(f))
          /\ NoWrite(IF Status(f) = "error" THEN "conflict" ELSE "clean")
       \/ /\ Status(f) = "update"
          /\ value' = [value EXCEPT ![This][f] = revision[This]]
          /\ entries' = Evidence(f, Status(f))
          /\ Advance("clean", <<[kind |-> "field", recipe |-> This,
                                 field |-> f, prior |-> Before[f]]>>)
          /\ UNCHANGED <<folder, items, faults>>
          /\ Untouched
       \/ Status(f) = "update" /\ Fault /\ OpFails
    /\ UNCHANGED <<seen, created>>

(* Its item was never captured: the operation is skipped as unresolved.    *)
SetUnresolved(f) ==
    /\ Executing(f + 2)
    /\ This \notin seen
    /\ NoWrite("clean")
    /\ UNCHANGED <<caches, entries>>

-----------------------------------------------------------------------------
(* The end of a push: cache first, then one baseline after the other.      *)

PersistCache ==
    /\ pc = "executing"
    /\ todo = <<>>
    /\ pc' = "saving"
    /\ cache' = [r \in Recipes |->
                    IF options.skip /\ result[r] \in {"clean", "conflict"}
                    THEN revision[r] ELSE cache[r]]
    /\ todo' = Order
    /\ UNCHANGED <<tenant, revision, baseline, run, op, caches, outcome,
                   guarded, bounds>>

(* A whole file replaces the old one; a failed write is only warned about. *)
(* A field the push left to the author drops out of the file, and with it  *)
(* the memory that an author edited it.                                    *)
PersistBaseline ==
    /\ pc = "saving"
    /\ todo # <<>>
    /\ todo' = Tail(todo)
    /\ \/ result[This] # "clean" /\ UNCHANGED <<baseline, guarded, faults>>
       \/ /\ result[This] = "clean"
          /\ baseline' = IF entries[This] = Nothing THEN baseline
                         ELSE [baseline EXCEPT ![This] = entries[This]]
          /\ guarded' = {e \in guarded : baseline'[e[1]][e[2]] # NoEntry}
          /\ UNCHANGED faults
       \/ result[This] = "clean" /\ Fault /\ UNCHANGED <<baseline, guarded>>
    /\ UNCHANGED <<tenant, revision, cache, pc, run, op, caches, outcome,
                   pushes, edits>>

EndPush ==
    /\ pc = "saving"
    /\ todo = <<>>
    /\ pc' = "saved"
    /\ UNCHANGED <<tenant, stores, run, todo, op, caches, outcome, guarded,
                   bounds>>

(* The process's memory is gone, the tenant and the files stay.            *)
Forget ==
    /\ pc' = "idle"
    /\ todo' = <<>>
    /\ op' = 1
    /\ seen' = {}
    /\ snapshot' = [r \in Recipes |-> <<>>]
    /\ created' = {}
    /\ undo' = <<>>
    /\ loaded' = [r \in Recipes |-> Nothing]
    /\ entries' = [r \in Recipes |-> Nothing]
    /\ result' = [r \in Recipes |-> "none"]
    /\ UNCHANGED <<tenant, stores, options, guarded, pushes, edits>>

Exit == pc = "saved" /\ Forget /\ UNCHANGED faults

(* The process dies, or a save it does not guard throws.                   *)
Crash ==
    /\ pc \in {"executing", "saving"}
    /\ Fault
    /\ Forget

Execute ==
    \/ SkipCached
    \/ CreateFolder \/ CreateItem
    \/ \E f \in Fields : SetField(f) \/ SetUnresolved(f)

Next ==
    \/ \E r \in Recipes, f \in Fields : AuthorEdit(r, f)
    \/ \E r \in Recipes, n \in 1 .. MaxRevision : Revise(r, n)
    \/ \E o \in Options : StartPush(o)
    \/ Execute
    \/ PersistCache \/ PersistBaseline \/ EndPush
    \/ Exit \/ Crash

Spec == Init /\ [][Next]_vars

-----------------------------------------------------------------------------
(* Properties.                                                             *)

(* The rollback of one recipe never takes away what another one stands on: *)
(* an item's folder is there as long as the item is, whichever recipes     *)
(* failed, in whichever push, and wherever a push died (execute.ts:93-114, *)
(* push.ts:1150-1165).                                                     *)
ItemsHaveFolder == items # {} => folder

(* A recipe reported clean is on the tenant: its item is there, and every  *)
(* field holds the current revision, unless the policy or the recipe left  *)
(* it to the author (push.ts:1150-1165, execute.ts:544-549).  And one the  *)
(* hash cache has the push skip was not only failed or rolled back before: *)
(* its item is there too (push.ts:464-477), content with an unresolvable   *)
(* template left aside, whose item a rollback may have deleted since.      *)
CleanMeansApplied ==
    pc = "saved" =>
        \A r \in Recipes :
            /\ result[r] = "clean" =>
                  /\ r \in items
                  /\ \/ r \in Seeded
                     \/ options.policy = "cms-wins"
                     \/ \A f \in Fields : value[r][f] = revision[r]
            /\ result[r] = "cached" /\ r \notin Unverifiable => r \in items

(* A baseline comes to record a value only when the tenant holds it        *)
(* (baseline-capture.ts:129-131): no withheld, failed or rolled back write *)
(* gets into one.                                                          *)
BaselineIsHeld ==
    [][\A r \in Recipes, f \in Fields :
          baseline'[r][f] \notin {baseline[r][f], NoEntry}
          => value[r][f] = baseline'[r][f]]_vars

(* Author edits of a field the tool has recorded are not silently          *)
(* clobbered (docs/bidirectional-sync.md): across any number of pushes,    *)
(* failed ones, crashed ones and cached skips among them, they stay until  *)
(* a push that was told to decide about them has decided, unless one was   *)
(* told that recipes win or could not read the baseline.                   *)
AuthorEditsSurvive ==
    [][\A r \in Recipes, f \in Fields :
          <<r, f>> \in guarded /\ value[r][f] = AuthorValue /\ value'[r][f] # AuthorValue
          => options.policy = "recipe-wins" \/ loaded[r] # baseline[r]]_vars

(* Content is seeded once: what an author put into a field of a CreateOnly *)
(* recipe is there for good, under every policy and after every failure    *)
(* (policy.ts: "so a re-push never clobbers author edits").                *)
SeedsAreLeftToAuthors ==
    [][\A r \in Seeded, f \in Fields :
          value[r][f] = AuthorValue => value'[r][f] = AuthorValue]_vars

=============================================================================
