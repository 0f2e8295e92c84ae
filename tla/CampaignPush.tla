---------------------------- MODULE CampaignPush ----------------------------
(***************************************************************************)
(* `sync push` of the campaign kind (src/src/campaigns/recipe/kind.ts and  *)
(* diff.ts, baseline.ts beside it), again and again: the plan against what *)
(* the tenant holds and the baseline remembers, then project, deliverable, *)
(* tasks and dependencies, each a remote call, none of them undone when a  *)
(* later one fails.  Who an entity is, is decided by its `handle:` label,  *)
(* else by its name, and both change under way.                            *)
(*                                                                         *)
(* A recipe is one campaign with one deliverable and its tasks.  Each has  *)
(* a handle, a title that may be changed, and one field besides, in which  *)
(* revision n of the recipe wants the value n; AuthorValue is what people  *)
(* write there.  Recipes carry no stamped sitecoreId.                      *)
(*                                                                         *)
(* A call that fails, one whose answer is lost and a process that dies are *)
(* all Stop: the push is over, after as many calls as had an effect.       *)
(*                                                                         *)
(* The comments in the code say that the tasks endpoint ignores a body     *)
(* that lacks the task's own fields, and answers as if it had not; three   *)
(* of its four PUTs send such bodies.  PartialBodies are the ways a tenant *)
(* may take them; which of them it does, it does always.                   *)
(*                                                                         *)
(* Bounds: Revisions, Titles, MaxChanges revisions, renames, author edits  *)
(* and deletions and aggregate pushes, and MaxFaults stops and failed      *)
(* best-effort calls.                                                      *)
(***************************************************************************)
EXTENDS Naturals, Sequences, FiniteSets

CONSTANTS
    TaskOrder,   \* the deliverable's tasks, in recipe order
    Dependent,   \* tasks that depend on another one
    Revisions, Titles,
    PartialBodies,  \* what a tenant may do with a partial task body
    MaxChanges, MaxFaults

Tasks == {TaskOrder[i] : i \in DOMAIN TaskOrder}

ASSUME CampaignAssumption ==
    /\ TaskOrder \in Seq(Tasks)
    /\ Dependent \subseteq Tasks
    /\ \A t \in Tasks : t \notin {"campaign", "deliverable"}
    /\ Revisions \in Nat \ {0} /\ Titles \in Nat \ {0}
    /\ PartialBodies \subseteq {"applied", "ignored"}

Entities == {"campaign", "deliverable"} \cup Tasks

Blank == 0
AuthorValue == Revisions + 1
Values == 0 .. AuthorValue
Missing == Revisions + 2

(* How a push is run: `campaign sync push` knows the handle and has the    *)
(* baseline store, the aggregate `sync push` goes by name and has neither. *)
Options == [keyed : BOOLEAN, policy : {"error", "recipe-wins", "cms-wins"}]

VARIABLES
    partial,   \* what this tenant does with a partial task body
    tenant,    \* what exists: records as in Record
    lastId,
    revision,  \* recipe: the revision the workspace is at
    title,     \* recipe: title of each entity
    baseline,  \* baseline store: the project's id (0: none) and its cells
    pc,        \* what the push is doing
    options,
    plan,      \* change planned for each entity, and its merged value
    project,   \* id of the project the push works on
    parent,    \* id of the deliverable the tasks go to, 0 if unresolved
    todo,      \* tasks not yet written
    target,    \* id of the task just created, to be completed
    linking,   \* written tasks whose dependencies are to be set
    skipped,   \* changes reported as skipped
    result,    \* how the last push ended
    guarded,   \* history: records edited since a baseline captured them
    raced,     \* history: records edited since this push planned
    changes, faults

recipe == <<revision, title>>
progress == <<plan, project, parent, todo, target, linking, skipped>>
history == <<guarded, raced>>
vars == <<partial, tenant, lastId, recipe, baseline, pc, options, progress, result,
          history, changes, faults>>

Change == [kind : {"none", "create", "update"}, value : Values]

Nothing == [e \in Entities |-> [kind |-> "none", value |-> Blank]]

TypeOK ==
    /\ partial \in PartialBodies
    /\ \A x \in tenant :
          /\ x.id \in 1 .. lastId /\ x.parent \in 0 .. lastId
          /\ x.origin \in Entities
          /\ x.title \in 1 .. Titles /\ x.value \in Values
          /\ x.handle \in BOOLEAN
    /\ \A x, y \in tenant : x.id = y.id => x = y
    /\ revision \in 1 .. Revisions
    /\ title \in [Entities -> 1 .. Titles]
    /\ baseline.id \in 0 .. lastId
    /\ pc \in {"idle", "project", "deliverable", "tasks", "stamp", "link",
               "capture"}
    /\ options \in Options
    /\ plan \in [Entities -> Change]
    /\ project \in 0 .. lastId /\ parent \in 0 .. lastId
    /\ target \in 0 .. lastId
    /\ skipped \subseteq Entities
    /\ result \in {"none", "done", "stopped", "refused", "noop"}
    /\ guarded \cup raced \subseteq 1 .. lastId

Init ==
    /\ partial \in PartialBodies
    /\ tenant = {} /\ lastId = 0
    /\ revision = 1
    /\ title = [e \in Entities |-> 1]
    /\ baseline = [id |-> 0, cells |-> {}]
    /\ pc = "idle"
    /\ options = [keyed |-> TRUE, policy |-> "error"]
    /\ plan = Nothing
    /\ project = 0 /\ parent = 0 /\ target = 0
    /\ todo = <<>> /\ linking = <<>>
    /\ skipped = {} /\ result = "none"
    /\ guarded = {} /\ raced = {}
    /\ changes = 0 /\ faults = 0

-----------------------------------------------------------------------------
(* Who is who.                                                             *)

Children(p, e) == {x \in tenant : x.parent = p /\ x.origin = e}

First(S) == CHOOSE x \in S : \A y \in S : x.id <= y.id

(* The record the recipe's entity e is found to be among S, as a set of at *)
(* most one: by the handle label, else by the title.                       *)
Found(e, S) ==
    LET labelled == {x \in S : x.handle}
        named == {x \in S : x.title = title[e]}
    IN  IF labelled # {} THEN {First(labelled)}
        ELSE IF named # {} THEN {First(named)}
        ELSE {}

(* readCurrent finds the project by handle, or by its exact name only.     *)
Read(keyed) ==
    LET all == Children(0, "campaign")
    IN  IF keyed THEN Found("campaign", all)
        ELSE Found("campaign", {x \in all : x.title = title["campaign"]})

(* The live counterpart of each entity below the projects in P.            *)
Current(P, e) ==
    IF e = "campaign" THEN P
    ELSE LET D == UNION {Found("deliverable", Children(p.id, "deliverable")) :
                            p \in P}
         IN  IF e = "deliverable" THEN D
             ELSE UNION {Found(e, Children(d.id, e)) : d \in D}

-----------------------------------------------------------------------------
(* The three-way merge.  Cells are keyed by display titles: a task's by    *)
(* its deliverable's and its own.                                          *)

Path(e, own, above) ==
    <<e, IF e = "campaign" THEN 0 ELSE own, IF e \in Tasks THEN above ELSE 0>>

DesiredPath(e) == Path(e, title[e], title["deliverable"])

(* The cells of a live tree.                                               *)
Cells(P) ==
    LET above == Current(P, "deliverable")
        members == P \cup above \cup
                   {x \in tenant : \E d \in above : x.parent = d.id}
        over(x) == {d.title : d \in {y \in above : y.id = x.parent}}
    IN  {[path |-> Path(x.origin, x.title,
                        IF over(x) = {} THEN 0 ELSE CHOOSE n \in over(x) : TRUE),
          value |-> x.value, id |-> x.id] : x \in members}

(* The value cells hold at a path; the later record wins.                  *)
At(cells, path) ==
    LET here == {c \in cells : c.path = path}
    IN  IF here = {} THEN Missing
        ELSE (CHOOSE c \in here : \A d \in here : d.id <= c.id).value

(* Mutant: a cell counts as moved when the recipe has moved as well.       *)
MutantTenantMoved(e, P) ==
    /\ At(baseline.cells, DesiredPath(e)) \notin {Missing, revision}
    /\ At(Cells(P), DesiredPath(e)) # At(baseline.cells, DesiredPath(e))

(* classifyHashes: cms-edit or conflict.                                   *)
TenantMoved(e, P) ==
    /\ At(baseline.cells, DesiredPath(e)) # Missing
    /\ At(Cells(P), DesiredPath(e)) # At(baseline.cells, DesiredPath(e))

Moved(o, P) ==
    {e \in Entities : o.keyed /\ Current(P, e) # {} /\ TenantMoved(e, P)}

(* Mutant: the tenant's side is looked up by the recipe's path.             *)
MutantMerged(o, P, e) ==
    IF e \in Moved(o, P) /\ o.policy = "cms-wins"
    THEN At(Cells(P), DesiredPath(e))
    ELSE revision

(* The value the plan goes for.                                            *)
Merged(o, P, e) ==
    IF o.policy = "cms-wins" /\ e \in Moved(o, P)
    THEN (CHOOSE x \in Current(P, e) : TRUE).value
    ELSE revision

(* diffCampaign.  A task that carries a handle is never found unchanged:   *)
(* the projection has stripped the label tasksEqual looks for.             *)
Planned(o, P) ==
    [e \in Entities |->
        LET live == Current(P, e)
            same == \E x \in live :
                       x.title = title[e] /\ x.value = Merged(o, P, e)
        IN  [kind |-> IF live = {} THEN "create"
                      ELSE IF e \notin Tasks /\ same THEN "none"
                      ELSE "update",
             value |-> Merged(o, P, e)]]

-----------------------------------------------------------------------------
(* People.                                                                 *)

Changed == changes < MaxChanges /\ changes' = changes + 1

Revise ==
    /\ pc = "idle"
    /\ revision < Revisions
    /\ Changed
    /\ revision' = revision + 1
    /\ UNCHANGED <<partial, tenant, lastId, title, baseline, pc, options,
                   progress, result, history, faults>>

(* The cells of what is renamed, or below it, are lost sight of.           *)
Rename(e, n) ==
    /\ pc = "idle"
    /\ n # title[e]
    /\ Changed
    /\ title' = [title EXCEPT ![e] = n]
    /\ guarded' = {i \in guarded : \A x \in tenant :
                      x.id = i => x.origin # e /\ ~(e = "deliverable" /\ x.origin \in Tasks)}
    /\ UNCHANGED <<partial, tenant, lastId, revision, baseline, pc, options,
                   progress, result, raced, faults>>

(* Somebody edits in the product, during a push or between two.            *)
AuthorEdit(x) ==
    /\ x.value # AuthorValue
    /\ Changed
    /\ tenant' = (tenant \ {x}) \cup {[x EXCEPT !.value = AuthorValue]}
    /\ IF pc = "idle"
       THEN /\ guarded' = IF At(baseline.cells, DesiredPath(x.origin))
                                \in {Missing, AuthorValue}
                          THEN guarded ELSE guarded \cup {x.id}
            /\ UNCHANGED raced
       ELSE raced' = raced \cup {x.id} /\ guarded' = guarded \ {x.id}
    /\ UNCHANGED <<partial, lastId, recipe, baseline, pc, options, progress,
                   result, faults>>

(* Somebody deletes the campaign in the product.                           *)
AuthorDelete ==
    /\ pc = "idle"
    /\ tenant # {}
    /\ Changed
    /\ tenant' = {}
    /\ guarded' = {}
    /\ UNCHANGED <<partial, lastId, recipe, baseline, pc, options, progress,
                   result, raced, faults>>

-----------------------------------------------------------------------------
(* plan, and what apply refuses before any write.                          *)

(* Mutant: what is gone is always put back.                                *)
MutantHonoursDeletion(o) == FALSE

(* resolveMissingCurrentPlan: the tenant's deletion counts under cms-wins. *)
HonoursDeletion(o) == o.keyed /\ baseline.id # 0 /\ o.policy = "cms-wins"

Verdict(o, P) ==
    IF P = {} /\ HonoursDeletion(o) THEN "noop"
    ELSE IF o.policy = "error" /\ Moved(o, P) # {} THEN "refused"
    ELSE "none"

StartPush(o) ==
    /\ pc = "idle"
    /\ IF o.keyed THEN UNCHANGED changes ELSE Changed
    /\ options' = o
    /\ result' = Verdict(o, Read(o.keyed))
    /\ IF result' = "none"
       THEN pc' = "project" /\ plan' = Planned(o, Read(o.keyed))
       ELSE pc' = pc /\ plan' = Nothing
    /\ raced' = {}
    /\ skipped' = {}
    /\ UNCHANGED <<partial, tenant, lastId, recipe, baseline, project, parent,
                   todo, target, linking, guarded, faults>>

-----------------------------------------------------------------------------
(* apply.                                                                  *)

Fault == faults < MaxFaults /\ faults' = faults + 1

New(e, above, value, labelled) ==
    [id |-> lastId + 1, parent |-> above, origin |-> e, title |-> title[e],
     value |-> value, handle |-> labelled]

Create(x) == tenant' = tenant \cup {x} /\ lastId' = x.id

(* A full-object PUT of the recipe's side, with or without the label.      *)
Put(x, labelled) ==
    /\ tenant' = (tenant \ {x}) \cup
                 {[x EXCEPT !.title = title[x.origin],
                            !.value = plan[x.origin].value,
                            !.handle = labelled]}
    /\ UNCHANGED lastId

NoCall == UNCHANGED <<tenant, lastId>>

(* A PUT of the recipe's fields alone, the task's own left out.            *)
PutPart(x, labelled) ==
    \/ partial = "applied" /\ Put(x, labelled)
    \/ partial = "ignored" /\ NoCall

Rest == UNCHANGED <<partial, recipe, baseline, options, plan, result, history,
                    changes>>

(* Mutant: a campaign is adopted by its id only, or when it was renamed.   *)
MutantAdopted ==
    {x \in Children(0, "campaign") :
        \/ options.keyed /\ x.id = baseline.id
        \/ x.handle /\ x.title # title["campaign"]}

(* resolveProject: the baseline's id, else label or name.                  *)
Adopted ==
    LET all == Children(0, "campaign")
        byId == {x \in all : options.keyed /\ x.id = baseline.id}
    IN  IF byId # {} THEN byId
        ELSE IF plan["campaign"].kind = "none" THEN Read(FALSE)
        ELSE Found("campaign", all)

(* An adopted project is updated best-effort, and only by a planned update;*)
(* planned as a create it only gets its label.                             *)
ResolveProject ==
    /\ pc = "project"
    /\ pc' = "deliverable"
    /\ \/ /\ Adopted = {}
          /\ Create(New("campaign", 0, plan["campaign"].value, TRUE))
          /\ project' = lastId'
          /\ UNCHANGED faults
       \/ \E x \in Adopted :
             /\ project' = x.id
             /\ \/ /\ plan["campaign"].kind = "update"
                   /\ Put(x, TRUE)
                   /\ UNCHANGED faults
                \/ /\ plan["campaign"].kind = "update"
                   /\ Fault
                   /\ NoCall
                \/ /\ plan["campaign"].kind # "update"
                   /\ NoCall
                   /\ UNCHANGED faults
    /\ UNCHANGED <<parent, todo, target, linking, skipped>>
    /\ Rest

(* Mutant: only what this push wrote is indexed.                           *)
MutantByName == {}

(* The tasks' parent is looked up by the recipe's title of the deliverable.*)
ByName == {x.id : x \in {y \in Children(project, "deliverable") :
                            y.title = title["deliverable"]}}

ConvergeDeliverable ==
    LET live == Found("deliverable", Children(project, "deliverable"))
    IN
    /\ pc = "deliverable"
    /\ pc' = "tasks"
    /\ todo' = TaskOrder
    /\ \/ /\ plan["deliverable"].kind = "create" /\ live = {}
          /\ Create(New("deliverable", project, plan["deliverable"].value, TRUE))
          /\ parent' = lastId'
          /\ UNCHANGED <<skipped, faults>>
       \/ /\ plan["deliverable"].kind = "update"
          /\ \E x \in live : Put(x, TRUE) /\ parent' = x.id
          /\ UNCHANGED <<skipped, faults>>
       \/ /\ plan["deliverable"].kind = "update"
          /\ Fault
          /\ NoCall \/ \E x \in live : Put(x, TRUE)
          /\ parent' = IF ByName = {} THEN 0 ELSE CHOOSE i \in ByName : TRUE
          /\ skipped' = {"deliverable"}
       \/ /\ plan["deliverable"].kind = "none" \/ live # {}
          /\ plan["deliverable"].kind # "update"
          /\ NoCall
          /\ parent' = IF ByName = {} THEN 0 ELSE CHOOSE i \in ByName : TRUE
          /\ UNCHANGED <<skipped, faults>>
    /\ UNCHANGED <<project, target, linking>>
    /\ Rest

This == Head(todo)

Written(id) ==
    /\ todo' = Tail(todo)
    /\ linking' = IF This \in Dependent THEN Append(linking, id) ELSE linking

(* Mutant: a created task is taken to be complete.                         *)
MutantAfterCreate == "tasks"

(* createTask takes name, date and status only.                            *)
AfterCreate == "stamp"

WriteTask ==
    /\ pc = "tasks" /\ todo # <<>>
    /\ \/ /\ parent = 0
          /\ skipped' = skipped \cup {This}
          /\ todo' = Tail(todo)
          /\ NoCall
          /\ UNCHANGED <<pc, target, linking>>
       \/ /\ parent # 0 /\ plan[This].kind = "update"
          /\ \E x \in Found(This, Children(parent, This)) :
                Put(x, TRUE) /\ Written(x.id)
          /\ UNCHANGED <<pc, target, skipped>>
       \/ /\ parent # 0 /\ plan[This].kind = "create"
          /\ \E x \in {y \in Children(parent, This) : y.handle} :
                PutPart(x, TRUE) /\ Written(x.id)
          /\ UNCHANGED <<pc, target, skipped>>
       \/ /\ parent # 0 /\ plan[This].kind = "create"
          /\ \A y \in Children(parent, This) : ~y.handle
          /\ Create(New(This, parent, Blank, FALSE))
          /\ Written(lastId')
          /\ target' = lastId'
          /\ pc' = AfterCreate
          /\ UNCHANGED skipped
    /\ UNCHANGED <<project, parent, faults>>
    /\ Rest

Record(id) == CHOOSE x \in tenant : x.id = id

(* The follow-up update that completes a created task and labels it.       *)
StampTask ==
    /\ pc = "stamp"
    /\ pc' = "tasks"
    /\ PutPart(Record(target), TRUE)
    /\ UNCHANGED <<project, parent, todo, target, linking, skipped, faults>>
    /\ Rest

StartLinking ==
    /\ pc = "tasks" /\ todo = <<>>
    /\ pc' = "link"
    /\ NoCall
    /\ UNCHANGED <<project, parent, todo, target, linking, skipped, faults>>
    /\ Rest

(* The dependencies pass: a PUT with the recipe's labels, which the handle *)
(* is none of.  Its failure is only warned about.                          *)
LinkTask ==
    /\ pc = "link" /\ linking # <<>>
    /\ linking' = Tail(linking)
    /\ \/ PutPart(Record(Head(linking)), FALSE) /\ UNCHANGED faults
       \/ Fault /\ NoCall
    /\ UNCHANGED <<pc, project, parent, todo, target, skipped>>
    /\ Rest

StartCapture ==
    /\ pc = "link" /\ linking = <<>>
    /\ pc' = "capture"
    /\ NoCall
    /\ UNCHANGED <<project, parent, todo, target, linking, skipped, faults>>
    /\ Rest

Over(how) ==
    /\ pc' = "idle"
    /\ result' = how
    /\ plan' = Nothing
    /\ project' = 0 /\ parent' = 0 /\ target' = 0
    /\ todo' = <<>> /\ linking' = <<>>
    /\ skipped' = {} /\ raced' = {}
    /\ UNCHANGED <<partial, recipe, options, changes>>

(* captureCampaignBaseline reads the tenant again and keeps what it finds; *)
(* a failed write is logged.                                               *)
Capture ==
    /\ pc = "capture"
    /\ Over("done")
    /\ NoCall
    /\ \/ /\ options.keyed
          /\ baseline' = [id |-> project, cells |-> Cells(Read(TRUE))]
          /\ guarded' = {}
          /\ UNCHANGED faults
       \/ /\ options.keyed
          /\ Fault
          /\ UNCHANGED <<baseline, guarded>>
       \/ /\ ~options.keyed
          /\ UNCHANGED <<baseline, guarded, faults>>

Stop ==
    /\ pc # "idle"
    /\ Fault
    /\ Over("stopped")
    /\ NoCall
    /\ UNCHANGED <<baseline, guarded>>

Apply ==
    \/ ResolveProject \/ ConvergeDeliverable
    \/ WriteTask \/ StampTask \/ StartLinking \/ LinkTask
    \/ StartCapture \/ Capture

Next ==
    \/ Revise
    \/ \E e \in Entities, n \in 1 .. Titles : Rename(e, n)
    \/ \E x \in tenant : AuthorEdit(x)
    \/ AuthorDelete
    \/ \E o \in Options : StartPush(o)
    \/ Apply
    \/ Stop

RecipeWins == [keyed |-> TRUE, policy |-> "recipe-wins"]

(* A push goes on by itself; somebody keeps pushing with recipe-wins.      *)
Spec ==
    /\ Init /\ [][Next]_vars
    /\ WF_vars(Apply)
    /\ SF_vars(StartPush(RecipeWins))

-----------------------------------------------------------------------------
(* Properties.                                                             *)

(* Nothing is created whose handle the tenant has already: whatever was    *)
(* renamed, stopped half-way or lost, an entity that carries its handle is *)
(* adopted (kind.ts:20-26, 711-713, 835-840).                              *)
HandlesAreAdopted ==
    [][\A x \in tenant' :
          x.id > lastId =>
              ~\E y \in tenant :
                  y.parent = x.parent /\ y.origin = x.origin /\ y.handle]_vars

(* A push that reports nothing skipped has a record for every task below   *)
(* the project it resolved, and has brought those it planned to update to  *)
(* what it planned, title and field, the author's value standing only      *)
(* where somebody wrote meanwhile (kind.ts:13-18: "surfaced as `skipped`,  *)
(* never silently dropped").  The tasks it creates are brought there where *)
(* the tenant applies a partial body.                                      *)
NothingSilentlyDropped ==
    pc = "capture" /\ skipped = {} =>
        \A t \in Tasks :
            \E d \in Children(project, "deliverable"), x \in tenant :
                /\ x.parent = d.id /\ x.origin = t
                /\ plan[t].kind = "update" \/ partial = "applied" =>
                      /\ x.title = title[t]
                      /\ \/ x.value = plan[t].value
                         \/ x.id \in raced /\ x.value = AuthorValue

(* An edit made in the product after a baseline was taken is there until a *)
(* push is told that recipes win, or goes without a baseline; a push that  *)
(* only failed, or was refused, has not touched it                         *)
(* (docs/commands.md:4289).                                                *)
AuthorEditsSurvive ==
    [][\A x \in tenant :
          /\ x.id \in guarded /\ x.value = AuthorValue
          /\ Children(x.parent, x.origin) = {x}
          => \/ \A y \in tenant' : y.id = x.id => y.value = AuthorValue
             \/ options'.policy = "recipe-wins"
             \/ ~options'.keyed]_vars

(* Under cms-wins a campaign deleted in the product is not resurrected     *)
(* (missing-on-tenant.ts:4-21), whatever the baseline or an earlier push   *)
(* left behind.                                                            *)
DeletedStaysDeleted ==
    [][/\ tenant = {} /\ baseline.id # 0
       /\ options.keyed /\ options.policy = "cms-wins"
       => tenant' = {}]_vars

Converged ==
    \A t \in Tasks :
        \E x \in Current(Read(TRUE), t) : x.title = title[t] /\ x.value = revision

(* However often pushes stop half-way, people edit, rename and delete:     *)
(* once they leave it alone, pushing again and again converges, and stays  *)
(* so (kind.ts:13-26).                                                     *)
RePushConverges == []<>(pc = "idle") /\ <>[](pc = "idle" => Converged)

(* One record per task: a task labelled by a push is found again however   *)
(* its name drifts (kind.ts:853-855).  Refuted: the dependencies pass      *)
(* takes the label away.                                                   *)
OneTwinEach ==
    \A x, y \in tenant :
        x.parent = y.parent /\ x.origin = y.origin => x = y
=============================================================================
