------------------------- MODULE CampaignPush_proofs -------------------------
(***************************************************************************)
(* Proofs about CampaignPush: TypeOK, NothingSilentlyDropped,              *)
(* HandlesAreAdopted, DeletedStaysDeleted and AuthorEditsSurvive hold of   *)
(* every recipe, however many tasks it has, and of any number of pushes,   *)
(* changes and faults.                                                     *)
(*                                                                         *)
(* TypeInv is TypeOK with what keeps it going: ids are given out once, and *)
(* what a push has still to complete or link exists.  A call either adds a *)
(* record or replaces one by another of the same id, parent and origin     *)
(* (Added, Replaced), so whatever a push has found stays to be found       *)
(* (Carries); TaskInv says what it has brought about so far.  AdoptInv ties*)
(* the plan to what the tenant still holds.  ShapeInv is the tree: one     *)
(* campaign, one deliverable, both labelled for good, since only tasks     *)
(* lose their labels; so the plan and the apply, which look people up in   *)
(* different ways, find the same ones, and EditInv can say of a plan that  *)
(* it keeps every edit the baseline shows to be one.                       *)
(***************************************************************************)
EXTENDS CampaignPush, TLAPS, SequenceTheorems, WellFoundedInduction

(* Records whose ids are among the first n.                                *)
Records(n) ==
    [id : 1 .. n, parent : 0 .. n, origin : Entities, title : 1 .. Titles,
     value : Values, handle : BOOLEAN]

UniqueIds == \A x, y \in tenant : x.id = y.id => x = y

Ids(T) == {x.id : x \in T}

StoreInv ==
    /\ lastId \in Nat
    /\ tenant \subseteq Records(lastId)
    /\ UniqueIds

RecipeInv ==
    /\ revision \in 1 .. Revisions
    /\ title \in [Entities -> 1 .. Titles]
    /\ baseline.id \in 0 .. lastId

RunInv ==
    /\ pc \in {"idle", "project", "deliverable", "tasks", "stamp", "link",
               "capture"}
    /\ options \in Options
    /\ plan \in [Entities -> Change]
    /\ project \in 0 .. lastId /\ parent \in 0 .. lastId /\ target \in 0 .. lastId
    /\ todo \in Seq(Tasks)
    /\ skipped \subseteq Entities
    /\ result \in {"none", "done", "stopped", "refused", "noop"}
    /\ guarded \cup raced \subseteq 1 .. lastId

(* What is to be completed or linked exists: nothing goes during a push.   *)
Listed ==
    /\ pc = "stamp" => target \in Ids(tenant)
    /\ linking \in Seq(Ids(tenant))

TypeInv == StoreInv /\ RecipeInv /\ RunInv /\ Listed

LEMMA ConstantsTyped ==
    /\ Blank \in Values /\ AuthorValue \in Values /\ 1 \in 1 .. Revisions
    /\ 1 .. Revisions \subseteq Values /\ 1 \in 1 .. Titles
    /\ Tasks \subseteq Entities /\ {"campaign", "deliverable"} \subseteq Entities
  BY CampaignAssumption DEF Blank, AuthorValue, Values, Entities

(* Ids only grow, so what fits them goes on to fit them.                   *)
LEMMA MoreIds ==
    ASSUME NEW n \in Nat, NEW k \in Nat, n <= k
    PROVE  /\ Records(n) \subseteq Records(k)
           /\ 0 .. n \subseteq 0 .. k /\ 1 .. n \subseteq 1 .. k
  <1>1. 0 .. n \subseteq 0 .. k /\ 1 .. n \subseteq 1 .. k
    OBVIOUS
  <1>2. Records(n) \subseteq Records(k)
    BY <1>1 DEF Records
  <1> QED
    BY <1>1, <1>2

LEMMA MoreMembers ==
    ASSUME NEW S, NEW T, S \subseteq T
    PROVE  Seq(S) \subseteq Seq(T)
  <1> SUFFICES ASSUME NEW s \in Seq(S) PROVE s \in Seq(T)
    OBVIOUS
  <1>1. Len(s) \in Nat /\ s \in [1 .. Len(s) -> S]
    BY LenProperties
  <1>2. s \in [1 .. Len(s) -> T]
    BY <1>1
  <1> QED
    BY <1>1, <1>2, IsASeq

(* The record with the smallest id.                                        *)
LEMMA FirstIsOne ==
    ASSUME StoreInv, NEW S, S \subseteq tenant, S # {}
    PROVE  First(S) \in S
  <1> DEFINE ids == {x.id : x \in S}
  <1>1. ids \subseteq Nat /\ ids # {}
    BY DEF StoreInv, Records
  <1> DEFINE below == OpToRel(<, Nat)
  <1>2. IsWellFoundedOn(below, Nat)
    BY NatLessThanWellFounded
  <1>3. \A k, m \in Nat : k < m => <<k, m>> \in below
    BY DEF OpToRel
  <1> HIDE DEF below, ids
  <1>4. PICK m \in ids : \A k \in ids : <<k, m>> \notin below
    BY <1>1, <1>2, WFMin
  <1>5. ASSUME NEW k \in ids PROVE m <= k
    <2>1. k \in Nat /\ m \in Nat
      BY <1>1
    <2>2. <<k, m>> \notin below
      BY <1>4
    <2>3. ~(k < m)
      BY <2>1, <2>2, <1>3
    <2> QED
      BY <2>1, <2>3
  <1> USE DEF ids
  <1>6. PICK x \in S : x.id = m
    BY <1>4
  <1>7. \A y \in S : x.id <= y.id
    BY <1>5, <1>6
  <1> QED
    BY <1>7 DEF First

LEMMA FoundIn ==
    ASSUME StoreInv, NEW S, S \subseteq tenant, NEW e
    PROVE  /\ Found(e, S) \subseteq S
           /\ \A x \in Found(e, S) : x.handle \/ x.title = title[e]
           /\ Found(e, S) = {} =>
                 \A x \in S : ~x.handle /\ x.title # title[e]
  <1> DEFINE labelled == {x \in S : x.handle}
             named == {x \in S : x.title = title[e]}
  <1>1. CASE labelled # {}
    <2>1. First(labelled) \in labelled
      BY <1>1, FirstIsOne
    <2>2. Found(e, S) = {First(labelled)}
      BY <1>1 DEF Found
    <2> QED
      BY <2>1, <2>2
  <1>2. CASE labelled = {} /\ named # {}
    <2>1. First(named) \in named
      BY <1>2, FirstIsOne
    <2>2. Found(e, S) = {First(named)}
      BY <1>2 DEF Found
    <2> QED
      BY <2>1, <2>2
  <1>3. CASE labelled = {} /\ named = {}
    <2>1. Found(e, S) = {}
      BY <1>3 DEF Found
    <2> QED
      BY <1>3, <2>1
  <1> QED
    BY <1>1, <1>2, <1>3

LEMMA ReadIn ==
    ASSUME StoreInv, NEW keyed \in BOOLEAN
    PROVE  Read(keyed) \subseteq Children(0, "campaign") /\ Read(keyed) \subseteq tenant
  <1>1. Children(0, "campaign") \subseteq tenant
    BY DEF Children
  <1>2. {x \in Children(0, "campaign") : x.title = title["campaign"]} \subseteq tenant
    BY <1>1
  <1> QED
    BY <1>1, <1>2, FoundIn DEF Read

LEMMA CurrentIn ==
    ASSUME StoreInv, NEW P, P \subseteq tenant, NEW e \in Entities
    PROVE  Current(P, e) \subseteq tenant
  <1>1. \A p, k : Found(k, Children(p, k)) \subseteq tenant
    <2> SUFFICES ASSUME NEW p, NEW k PROVE Found(k, Children(p, k)) \subseteq tenant
      OBVIOUS
    <2>1. Children(p, k) \subseteq tenant
      BY DEF Children
    <2> QED
      BY <2>1, FoundIn
  <1> QED
    BY <1>1 DEF Current

LEMMA PlannedTyped ==
    ASSUME StoreInv, RecipeInv, NEW o \in Options
    PROVE  Planned(o, Read(o.keyed)) \in [Entities -> Change]
  <1>1. o.keyed \in BOOLEAN
    BY DEF Options
  <1>2. Read(o.keyed) \subseteq tenant
    BY <1>1, ReadIn
  <1>3. ASSUME NEW e \in Entities
        PROVE  Merged(o, Read(o.keyed), e) \in Values
    <2>1. revision \in Values
      BY ConstantsTyped DEF RecipeInv
    <2>2. \A x \in Current(Read(o.keyed), e) : x.value \in Values
      BY <1>2, CurrentIn DEF StoreInv, Records
    <2> QED
      BY <2>1, <2>2 DEF Merged, Moved
  <1> QED
    BY <1>3 DEF Planned, Change

(* Who is there remains: no call of a push removes a record.               *)
Stays == lastId <= lastId' /\ Ids(tenant) \subseteq Ids(tenant')

(* What a call does to the tenant: it adds a record, or replaces one.      *)
Added(e, above, v) ==
    \E y \in Records(lastId + 1) :
        /\ tenant' = tenant \cup {y} /\ lastId' = lastId + 1
        /\ y.id = lastId + 1 /\ y.parent = above /\ y.origin = e
        /\ y.title = title[e] /\ y.value = v

Replaced(x) ==
    \E y \in Records(lastId) :
        /\ tenant' = (tenant \ {x}) \cup {y} /\ lastId' = lastId
        /\ y.id = x.id /\ y.parent = x.parent /\ y.origin = x.origin
        /\ y.title = title[x.origin] /\ y.value = plan[x.origin].value

Creates(e, above, v) ==
    Create(New(e, above, v, TRUE)) \/ Create(New(e, above, v, FALSE))

Puts(x) == Put(x, TRUE) \/ Put(x, FALSE)

(* What becomes of a partial body.                                         *)
PutsOrNot(x) == Puts(x) \/ (partial = "ignored" /\ NoCall)

LEMMA PartPuts ==
    ASSUME NEW x, PutPart(x, TRUE) \/ PutPart(x, FALSE)
    PROVE  PutsOrNot(x)
  BY Zenon DEF PutPart, PutsOrNot, Puts

LEMMA CreateAdds ==
    ASSUME StoreInv, RecipeInv, NEW e \in Entities, NEW above \in 0 .. lastId,
           NEW v \in Values, Creates(e, above, v)
    PROVE  Added(e, above, v)
  <1>1. lastId \in Nat /\ title[e] \in 1 .. Titles
    BY DEF StoreInv, RecipeInv
  <1>2. CASE Create(New(e, above, v, TRUE))
    <2>1. PICK y : /\ y = New(e, above, v, TRUE)
                   /\ tenant' = tenant \cup {y} /\ lastId' = y.id
      BY <1>2 DEF Create
    <2>2. y = [id |-> lastId + 1, parent |-> above, origin |-> e,
               title |-> title[e], value |-> v, handle |-> TRUE]
      BY <2>1 DEF New
    <2>3. /\ y \in Records(lastId + 1) /\ y.id = lastId + 1
          /\ y.parent = above /\ y.origin = e
          /\ y.title = title[e] /\ y.value = v
      BY <1>1, <2>2 DEF Records
    <2> QED
      BY <2>1, <2>3 DEF Added
  <1>3. CASE Create(New(e, above, v, FALSE))
    <2>1. PICK y : /\ y = New(e, above, v, FALSE)
                   /\ tenant' = tenant \cup {y} /\ lastId' = y.id
      BY <1>3 DEF Create
    <2>2. y = [id |-> lastId + 1, parent |-> above, origin |-> e,
               title |-> title[e], value |-> v, handle |-> FALSE]
      BY <2>1 DEF New
    <2>3. /\ y \in Records(lastId + 1) /\ y.id = lastId + 1
          /\ y.parent = above /\ y.origin = e
          /\ y.title = title[e] /\ y.value = v
      BY <1>1, <2>2 DEF Records
    <2> QED
      BY <2>1, <2>3 DEF Added
  <1> QED
    BY <1>2, <1>3 DEF Creates

LEMMA PutReplaces ==
    ASSUME StoreInv, RecipeInv, RunInv, NEW x \in tenant, Puts(x)
    PROVE  Replaced(x)
  <1>1. x \in Records(lastId)
    BY DEF StoreInv
  <1>2. PICK t \in 1 .. Titles, v \in Values :
           t = title[x.origin] /\ v = plan[x.origin].value
    BY <1>1 DEF RecipeInv, RunInv, Records, Change
  <1>3. CASE Put(x, TRUE)
    <2>1. PICK y : /\ y = [x EXCEPT !.title = t, !.value = v, !.handle = TRUE]
                   /\ tenant' = (tenant \ {x}) \cup {y} /\ lastId' = lastId
      BY <1>2, <1>3 DEF Put
    <2>2. /\ y \in Records(lastId)
          /\ y.id = x.id /\ y.parent = x.parent /\ y.origin = x.origin
          /\ y.title = t /\ y.value = v
      BY <1>1, <2>1 DEF Records
    <2> QED
      BY <1>2, <2>1, <2>2 DEF Replaced
  <1>4. CASE Put(x, FALSE)
    <2>1. PICK y : /\ y = [x EXCEPT !.title = t, !.value = v, !.handle = FALSE]
                   /\ tenant' = (tenant \ {x}) \cup {y} /\ lastId' = lastId
      BY <1>2, <1>4 DEF Put
    <2>2. /\ y \in Records(lastId)
          /\ y.id = x.id /\ y.parent = x.parent /\ y.origin = x.origin
          /\ y.title = t /\ y.value = v
      BY <1>1, <2>1 DEF Records
    <2> QED
      BY <1>2, <2>1, <2>2 DEF Replaced
  <1> QED
    BY <1>3, <1>4 DEF Puts

LEMMA AddKeeps ==
    ASSUME StoreInv, NEW e, NEW above, NEW v, Added(e, above, v)
    PROVE  /\ lastId' = lastId + 1 /\ StoreInv' /\ Stays
           /\ lastId' \in Ids(tenant') /\ lastId' \in 1 .. lastId'
  <1>1. lastId \in Nat
    BY DEF StoreInv
  <1>2. PICK y \in Records(lastId + 1) :
           y.id = lastId + 1 /\ tenant' = tenant \cup {y} /\ lastId' = lastId + 1
    BY DEF Added
  <1>3. tenant \subseteq Records(lastId + 1)
    BY <1>1, MoreIds DEF StoreInv
  <1>4. \A x \in tenant : x.id # lastId + 1
    BY <1>1 DEF StoreInv, Records
  <1>5. UniqueIds'
    BY <1>2, <1>4 DEF StoreInv, UniqueIds
  <1>6. StoreInv'
    BY <1>1, <1>2, <1>3, <1>5 DEF StoreInv
  <1>7. Stays /\ lastId' \in Ids(tenant') /\ lastId' \in 1 .. lastId'
    BY <1>1, <1>2 DEF Stays, Ids
  <1> QED
    BY <1>2, <1>6, <1>7

LEMMA ReplaceKeeps ==
    ASSUME StoreInv, NEW x \in tenant, Replaced(x)
    PROVE  /\ lastId' = lastId /\ StoreInv' /\ Stays
           /\ x.id \in Ids(tenant) /\ x.id \in Ids(tenant') /\ x.id \in 1 .. lastId
  <1>1. x \in Records(lastId)
    BY DEF StoreInv
  <1>2. PICK y \in Records(lastId) :
           y.id = x.id /\ tenant' = (tenant \ {x}) \cup {y} /\ lastId' = lastId
    BY DEF Replaced
  <1>3. UniqueIds'
    BY <1>2 DEF StoreInv, UniqueIds
  <1>4. StoreInv'
    BY <1>2, <1>3 DEF StoreInv
  <1>5. /\ Stays /\ x.id \in 1 .. lastId
        /\ x.id \in Ids(tenant) /\ x.id \in Ids(tenant')
    BY <1>1, <1>2 DEF Stays, Ids, StoreInv, Records
  <1> QED
    BY <1>2, <1>4, <1>5

LEMMA NoCallStays ==
    ASSUME StoreInv, NoCall
    PROVE  Stays /\ StoreInv'
  BY DEF StoreInv, Stays, NoCall, UniqueIds

(* A step of a push: what it may change, and how.                          *)
Converging ==
    /\ StoreInv' /\ Stays
    /\ pc' \in {"project", "deliverable", "tasks", "stamp", "link", "capture"}
    /\ project' \in 0 .. lastId' /\ parent' \in 0 .. lastId' /\ target' \in 0 .. lastId'
    /\ todo' \in Seq(Tasks)
    /\ \/ linking' = linking
       \/ linking' = Tail(linking) /\ linking # <<>>
       \/ \E i \in Ids(tenant') : linking' = Append(linking, i)
    /\ skipped' \subseteq Entities
    /\ pc' = "stamp" => target' \in Ids(tenant')

LEMMA ConvergingTyped ==
    ASSUME TypeInv, Converging, Rest
    PROVE  TypeInv'
  <1>1. lastId \in Nat /\ lastId' \in Nat /\ lastId <= lastId'
    BY DEF TypeInv, StoreInv, Converging, Stays
  <1>2. 0 .. lastId \subseteq 0 .. lastId' /\ 1 .. lastId \subseteq 1 .. lastId'
    BY <1>1, MoreIds
  <1>3. linking \in Seq(Ids(tenant'))
    BY MoreMembers DEF TypeInv, Listed, Converging, Stays
  <1>4. linking' \in Seq(Ids(tenant'))
    <2>1. CASE linking' = linking
      BY <1>3, <2>1
    <2>2. CASE linking' = Tail(linking) /\ linking # <<>>
      BY <1>3, <2>2, HeadTailProperties
    <2>3. CASE \E i \in Ids(tenant') : linking' = Append(linking, i)
      BY <1>3, <2>3, AppendProperties
    <2> QED
      BY <2>1, <2>2, <2>3 DEF Converging
  <1>5. UNCHANGED <<revision, title, baseline, options, plan, result, guarded, raced>>
    BY DEF Rest, recipe, history
  <1>6. RecipeInv'
    BY <1>2, <1>5 DEF TypeInv, RecipeInv
  <1>7. guarded' \cup raced' \subseteq 1 .. lastId'
    BY <1>2, <1>5 DEF TypeInv, RunInv
  <1>8. RunInv'
    BY <1>5, <1>7 DEF TypeInv, RunInv, Converging
  <1>9. Listed'
    BY <1>4 DEF Converging, Listed
  <1> QED
    BY <1>6, <1>8, <1>9 DEF TypeInv, Converging

LEMMA ProjectConverges ==
    ASSUME TypeInv, ResolveProject
    PROVE  Converging
  <1>1. StoreInv /\ RecipeInv /\ RunInv
    BY DEF TypeInv
  <1>2. /\ pc' = "deliverable" /\ UNCHANGED <<parent, todo, target, linking, skipped>>
    BY DEF ResolveProject
  <1>3. Adopted \subseteq tenant
    <2>1. Children(0, "campaign") \subseteq tenant
      BY DEF Children
    <2>2. Found("campaign", Children(0, "campaign")) \subseteq tenant
      BY <1>1, <2>1, FoundIn
    <2>3. Read(FALSE) \subseteq tenant
      BY <1>1, ReadIn
    <2> QED
      BY <2>1, <2>2, <2>3 DEF Adopted
  <1>4. /\ StoreInv' /\ Stays /\ project' \in 0 .. lastId'
    <2>1. CASE /\ Creates("campaign", 0, plan["campaign"].value)
               /\ project' = lastId'
      <3>1. /\ "campaign" \in Entities /\ 0 \in 0 .. lastId
            /\ plan["campaign"].value \in Values
        BY <1>1, ConstantsTyped DEF StoreInv, RunInv, Change
      <3> QED
        BY <1>1, <2>1, <3>1, CreateAdds, AddKeeps
    <2>2. ASSUME NEW x \in Adopted, project' = x.id, Puts(x)
          PROVE  StoreInv' /\ Stays /\ project' \in 0 .. lastId'
      <3>1. x \in tenant
        BY <1>3, <2>2
      <3> QED
        BY <1>1, <2>2, <3>1, PutReplaces, ReplaceKeeps
    <2>3. ASSUME NEW x \in Adopted, project' = x.id, NoCall
          PROVE  StoreInv' /\ Stays /\ project' \in 0 .. lastId'
      <3>1. x.id \in 1 .. lastId /\ lastId' = lastId
        BY <1>1, <1>3, <2>3 DEF StoreInv, Records, NoCall
      <3> QED
        BY <1>1, <2>3, <3>1, NoCallStays
    <2> QED
      BY <2>1, <2>2, <2>3 DEF ResolveProject, Creates, Puts
  <1>5. /\ parent' \in 0 .. lastId' /\ target' \in 0 .. lastId'
    BY <1>1, <1>2, <1>4, MoreIds DEF StoreInv, RunInv, Stays
  <1> QED
    BY <1>1, <1>2, <1>4, <1>5 DEF Converging, RunInv

LEMMA ByNameIn ==
    ASSUME StoreInv, lastId' = lastId
    PROVE  (IF ByName = {} THEN 0 ELSE CHOOSE i \in ByName : TRUE) \in 0 .. lastId'
  <1>1. ByName \subseteq 1 .. lastId
    BY DEF ByName, Children, StoreInv, Records
  <1>2. ByName # {} => (CHOOSE i \in ByName : TRUE) \in ByName
    OBVIOUS
  <1>3. lastId' \in Nat /\ \A i \in 1 .. lastId : i \in 0 .. lastId'
    BY DEF StoreInv
  <1>4. CASE ByName = {}
    BY <1>3, <1>4
  <1>5. CASE ByName # {}
    <2> DEFINE i == CHOOSE j \in ByName : TRUE
    <2>1. i \in 0 .. lastId'
      BY <1>1, <1>2, <1>3, <1>5
    <2> HIDE DEF i
    <2>2. (IF ByName = {} THEN 0 ELSE i) \in 0 .. lastId'
      BY <1>5, <2>1
    <2> QED
      BY <2>2 DEF i
  <1> QED
    BY <1>4, <1>5

LEMMA DeliverableConverges ==
    ASSUME TypeInv, ConvergeDeliverable
    PROVE  Converging
  <1> DEFINE live == Found("deliverable", Children(project, "deliverable"))
             named == IF ByName = {} THEN 0 ELSE CHOOSE i \in ByName : TRUE
  <1>1. StoreInv /\ RecipeInv /\ RunInv
    BY DEF TypeInv
  <1>2. /\ pc' = "tasks" /\ todo' = TaskOrder /\ UNCHANGED <<project, target, linking>>
    BY DEF ConvergeDeliverable
  <1>3. live \subseteq tenant
    <2>1. Children(project, "deliverable") \subseteq tenant
      BY DEF Children
    <2> QED
      BY <1>1, <2>1, FoundIn
  <1>4. /\ StoreInv' /\ Stays /\ parent' \in 0 .. lastId'
        /\ skipped' = skipped \/ skipped' = {"deliverable"}
    <2>1. CASE /\ Creates("deliverable", project, plan["deliverable"].value)
               /\ parent' = lastId' /\ UNCHANGED skipped
      <3>1. /\ "deliverable" \in Entities /\ project \in 0 .. lastId
            /\ plan["deliverable"].value \in Values
        BY <1>1, ConstantsTyped DEF RunInv, Change
      <3> QED
        BY <1>1, <2>1, <3>1, CreateAdds, AddKeeps
    <2>2. ASSUME NEW x \in live, Puts(x),
                 \/ parent' = x.id /\ UNCHANGED skipped
                 \/ parent' = named /\ skipped' = {"deliverable"}
          PROVE  /\ StoreInv' /\ Stays /\ parent' \in 0 .. lastId'
                 /\ skipped' = skipped \/ skipped' = {"deliverable"}
      <3>1. x \in tenant
        BY <1>3
      <3>2. lastId' = lastId /\ StoreInv' /\ Stays /\ x.id \in 0 .. lastId'
        BY <1>1, <2>2, <3>1, PutReplaces, ReplaceKeeps
      <3>3. named \in 0 .. lastId'
        BY <1>1, <3>2, ByNameIn
      <3> HIDE DEF named
      <3> QED
        BY <2>2, <3>2, <3>3
    <2>3. CASE NoCall /\ parent' = named
               /\ (skipped' = skipped \/ skipped' = {"deliverable"})
      <3>1. named \in 0 .. lastId'
        BY <1>1, <2>3, ByNameIn DEF NoCall
      <3> QED
        BY <1>1, <2>3, <3>1, NoCallStays
    <2>4. \/ /\ Creates("deliverable", project, plan["deliverable"].value)
             /\ parent' = lastId' /\ UNCHANGED skipped
          \/ \E x \in live : Puts(x) /\ parent' = x.id /\ UNCHANGED skipped
          \/ \E x \in live : Puts(x) /\ parent' = named /\ skipped' = {"deliverable"}
          \/ /\ NoCall /\ parent' = named
             /\ skipped' = skipped \/ skipped' = {"deliverable"}
      BY Zenon DEF ConvergeDeliverable, Creates, Puts
    <2> HIDE DEF live, named
    <2>5. CASE \E x \in live : Puts(x) /\ parent' = x.id /\ UNCHANGED skipped
      <3>1. PICK x \in live : Puts(x) /\ parent' = x.id /\ UNCHANGED skipped
        BY <2>5
      <3> QED
        BY <2>2, <3>1
    <2>6. CASE \E x \in live : Puts(x) /\ parent' = named /\ skipped' = {"deliverable"}
      <3>1. PICK x \in live : Puts(x) /\ parent' = named /\ skipped' = {"deliverable"}
        BY <2>6
      <3> QED
        BY <2>2, <3>1
    <2> QED
      BY <2>1, <2>3, <2>4, <2>5, <2>6
  <1> HIDE DEF live, named
  <1>5. project' \in 0 .. lastId' /\ target' \in 0 .. lastId'
    BY <1>1, <1>2, <1>4, MoreIds DEF StoreInv, RunInv, Stays
  <1>6. skipped' \subseteq Entities /\ TaskOrder \in Seq(Tasks)
    BY <1>1, <1>4, CampaignAssumption DEF RunInv, Entities
  <1> QED
    BY <1>1, <1>2, <1>4, <1>5, <1>6 DEF Converging

LEMMA RecordIn ==
    ASSUME NEW i \in Ids(tenant)
    PROVE  Record(i) \in tenant /\ Record(i).id = i
  <1>1. \E x \in tenant : x.id = i
    BY DEF Ids
  <1> QED
    BY <1>1 DEF Record

LEMMA HeadOfTodo ==
    ASSUME RunInv, todo # <<>>
    PROVE  /\ This \in Tasks /\ This \in Entities
           /\ Tail(todo) \in Seq(Tasks)
           /\ plan[This].value \in Values
  <1>1. This \in Tasks /\ Tail(todo) \in Seq(Tasks)
    BY HeadTailProperties DEF RunInv, This
  <1>2. This \in Entities
    BY <1>1 DEF Entities
  <1> QED
    BY <1>1, <1>2 DEF RunInv, Change

(* The ways a task can be written.                                         *)
WithoutParent ==
    /\ parent = 0 /\ skipped' = skipped \cup {This} /\ todo' = Tail(todo)
    /\ NoCall /\ UNCHANGED <<pc, target, linking>>

OntoExisting ==
    /\ parent # 0
    /\ \E x \in Children(parent, This) :
          /\ x.handle \/ x.title = title[This]
          /\ Puts(x) /\ Written(x.id)
    /\ UNCHANGED <<pc, target, skipped>>

(* A task is adopted, and the tenant ignores what is sent.                 *)
AdoptedAsIs ==
    /\ parent # 0 /\ plan[This].kind = "create" /\ partial = "ignored"
    /\ \E x \in Children(parent, This) : x.handle /\ Written(x.id)
    /\ NoCall /\ UNCHANGED <<pc, target, skipped>>

AsNew ==
    /\ parent # 0 /\ plan[This].kind = "create"
    /\ \A y \in Children(parent, This) : ~y.handle
    /\ Creates(This, parent, Blank)
    /\ Written(lastId') /\ target' = lastId' /\ pc' = "stamp"
    /\ UNCHANGED skipped

LEMMA TaskCases ==
    ASSUME StoreInv, WriteTask
    PROVE  WithoutParent \/ OntoExisting \/ AdoptedAsIs \/ AsNew
  <1>1. /\ Found(This, Children(parent, This)) \subseteq Children(parent, This)
        /\ \A x \in Found(This, Children(parent, This)) :
              x.handle \/ x.title = title[This]
        /\ {y \in Children(parent, This) : y.handle} \subseteq Children(parent, This)
    <2>1. Children(parent, This) \subseteq tenant
      BY DEF Children
    <2> QED
      BY <2>1, FoundIn
  <1>2. CASE /\ parent = 0
             /\ skipped' = skipped \cup {This}
             /\ todo' = Tail(todo)
             /\ NoCall
             /\ UNCHANGED <<pc, target, linking>>
    BY <1>2 DEF WithoutParent
  <1>3. CASE /\ parent # 0
             /\ \E x \in Found(This, Children(parent, This)) :
                   Put(x, TRUE) /\ Written(x.id)
             /\ UNCHANGED <<pc, target, skipped>>
    BY <1>1, <1>3, Zenon DEF OntoExisting, Puts
  <1>4. CASE /\ parent # 0 /\ plan[This].kind = "create"
             /\ \E x \in {y \in Children(parent, This) : y.handle} :
                   PutPart(x, TRUE) /\ Written(x.id)
             /\ UNCHANGED <<pc, target, skipped>>
    <2>1. PICK x \in {y \in Children(parent, This) : y.handle} :
             PutPart(x, TRUE) /\ Written(x.id)
      BY <1>4
    <2>2. CASE Put(x, TRUE)
      BY <1>1, <1>4, <2>1, <2>2, Zenon DEF OntoExisting, Puts
    <2>3. CASE partial = "ignored" /\ NoCall
      BY <1>1, <1>4, <2>1, <2>3, Zenon DEF AdoptedAsIs
    <2> QED
      BY <2>1, <2>2, <2>3, Zenon DEF PutPart
  <1>5. CASE /\ parent # 0 /\ plan[This].kind = "create"
             /\ \A y \in Children(parent, This) : ~y.handle
             /\ Create(New(This, parent, Blank, FALSE))
             /\ Written(lastId')
             /\ target' = lastId'
             /\ pc' = AfterCreate
             /\ UNCHANGED skipped
    BY <1>5, Zenon DEF AsNew, Creates, AfterCreate
  <1> QED
    BY <1>2, <1>3, <1>4, <1>5, Zenon DEF WriteTask

LEMMA WritingConverges ==
    ASSUME TypeInv, WriteTask
    PROVE  Converging
  <1>1. StoreInv /\ RecipeInv /\ RunInv
    BY DEF TypeInv
  <1>2. pc = "tasks" /\ todo # <<>> /\ UNCHANGED <<project, parent>>
    BY DEF WriteTask
  <1>3. This \in Entities /\ Tail(todo) \in Seq(Tasks)
    BY <1>1, <1>2, HeadOfTodo
  <1>4. ASSUME StoreInv', Stays
        PROVE  project' \in 0 .. lastId' /\ parent' \in 0 .. lastId' /\ target \in 0 .. lastId'
    <2>1. 0 .. lastId \subseteq 0 .. lastId'
      BY <1>1, <1>4, MoreIds DEF StoreInv, Stays
    <2> QED
      BY <1>1, <1>2, <2>1 DEF RunInv
  <1>5. CASE WithoutParent
    <2>1. StoreInv' /\ Stays
      BY <1>1, <1>5, NoCallStays DEF WithoutParent
    <2> QED
      BY <1>1, <1>2, <1>3, <1>4, <1>5, <2>1 DEF WithoutParent, Converging, RunInv
  <1>6. CASE OntoExisting
    <2>1. PICK x \in Children(parent, This) : Puts(x) /\ Written(x.id)
      BY <1>6 DEF OntoExisting
    <2>2. x \in tenant
      BY DEF Children
    <2>3. StoreInv' /\ Stays /\ x.id \in Ids(tenant')
      BY <1>1, <2>1, <2>2, PutReplaces, ReplaceKeeps
    <2>4. /\ todo' = Tail(todo)
          /\ linking' = linking \/ linking' = Append(linking, x.id)
      BY <2>1 DEF Written
    <2> QED
      BY <1>1, <1>2, <1>3, <1>4, <1>6, <2>3, <2>4 DEF OntoExisting, Converging, RunInv
  <1>8. CASE AdoptedAsIs
    <2>1. PICK x \in Children(parent, This) : Written(x.id)
      BY <1>8 DEF AdoptedAsIs
    <2>2. StoreInv' /\ Stays /\ x.id \in Ids(tenant')
      BY <1>1, <1>8, NoCallStays DEF AdoptedAsIs, NoCall, Children, Ids
    <2>3. /\ todo' = Tail(todo)
          /\ linking' = linking \/ linking' = Append(linking, x.id)
      BY <2>1 DEF Written
    <2> QED
      BY <1>1, <1>2, <1>3, <1>4, <1>8, <2>2, <2>3 DEF AdoptedAsIs, Converging, RunInv
  <1>7. CASE AsNew
    <2>1. Blank \in Values /\ parent \in 0 .. lastId
      BY <1>1, ConstantsTyped DEF RunInv
    <2>2. Added(This, parent, Blank)
      BY <1>1, <1>3, <1>7, <2>1, CreateAdds DEF AsNew
    <2>3. StoreInv' /\ Stays /\ lastId' \in Ids(tenant') /\ lastId' \in 1 .. lastId'
      BY <1>1, <2>2, AddKeeps
    <2>4. /\ todo' = Tail(todo)
          /\ linking' = linking \/ linking' = Append(linking, lastId')
      BY <1>7 DEF AsNew, Written
    <2>5. target' \in 0 .. lastId'
      BY <1>1, <1>7, <2>3 DEF AsNew, StoreInv
    <2> QED
      BY <1>1, <1>2, <1>3, <1>4, <1>7, <2>3, <2>4, <2>5 DEF AsNew, Converging, RunInv
  <1> QED
    BY <1>1, <1>5, <1>6, <1>7, <1>8, TaskCases

LEMMA StampConverges ==
    ASSUME TypeInv, StampTask
    PROVE  Converging
  <1>1. StoreInv /\ RecipeInv /\ RunInv /\ Listed
    BY DEF TypeInv
  <1>2. /\ pc = "stamp" /\ pc' = "tasks"
        /\ UNCHANGED <<project, parent, todo, target, linking, skipped>>
    BY DEF StampTask
  <1>3. Record(target) \in tenant
    BY <1>1, <1>2, RecordIn DEF Listed
  <1>4. Puts(Record(target)) \/ NoCall
    BY PartPuts DEF StampTask, PutsOrNot
  <1>5. StoreInv' /\ Stays /\ lastId' = lastId
    BY <1>1, <1>3, <1>4, PutReplaces, ReplaceKeeps, NoCallStays DEF NoCall
  <1> QED
    BY <1>1, <1>2, <1>5 DEF Converging, RunInv

LEMMA LinkConverges ==
    ASSUME TypeInv, LinkTask
    PROVE  Converging
  <1>1. StoreInv /\ RecipeInv /\ RunInv /\ Listed
    BY DEF TypeInv
  <1>2. /\ pc = "link" /\ linking # <<>> /\ linking' = Tail(linking)
        /\ UNCHANGED <<pc, project, parent, todo, target, skipped>>
    BY DEF LinkTask
  <1>3. Head(linking) \in Ids(tenant)
    BY <1>1, <1>2, HeadTailProperties DEF Listed
  <1>4. Record(Head(linking)) \in tenant
    BY <1>3, RecordIn
  <1>5. Puts(Record(Head(linking))) \/ NoCall
    BY PartPuts DEF LinkTask, PutsOrNot
  <1>6. StoreInv' /\ Stays /\ lastId' = lastId
    BY <1>1, <1>4, <1>5, PutReplaces, ReplaceKeeps, NoCallStays DEF NoCall
  <1> QED
    BY <1>1, <1>2, <1>6 DEF Converging, RunInv

LEMMA TurnConverges ==
    ASSUME TypeInv, StartLinking \/ StartCapture
    PROVE  Converging
  <1>1. StoreInv /\ RecipeInv /\ RunInv
    BY DEF TypeInv
  <1>2. /\ pc' \in {"link", "capture"} /\ NoCall
        /\ UNCHANGED <<project, parent, todo, target, linking, skipped>>
    BY DEF StartLinking, StartCapture
  <1>3. StoreInv' /\ Stays /\ lastId' = lastId
    BY <1>1, <1>2, NoCallStays DEF NoCall
  <1> QED
    BY <1>1, <1>2, <1>3 DEF Converging, RunInv

(* What people do, and the beginning and the end of a push.                *)
LEMMA OverTyped ==
    ASSUME TypeInv, Capture \/ Stop
    PROVE  TypeInv'
  <1>1. StoreInv /\ RecipeInv /\ RunInv
    BY DEF TypeInv
  <1>2. /\ pc' = "idle" /\ plan' = Nothing /\ project' = 0 /\ parent' = 0
        /\ target' = 0 /\ todo' = <<>> /\ linking' = <<>> /\ skipped' = {}
        /\ raced' = {} /\ NoCall /\ UNCHANGED <<revision, title, options>>
        /\ result' \in {"done", "stopped"}
    BY DEF Capture, Stop, Over, recipe
  <1>3. /\ guarded' = guarded \/ guarded' = {}
        /\ baseline'.id = baseline.id \/ baseline'.id = project
    <2>1. CASE Stop
      BY <2>1 DEF Stop
    <2>2. CASE Capture
      <3> DEFINE caught == [id |-> project, cells |-> Cells(Read(TRUE))]
      <3>1. \/ baseline' = baseline /\ guarded' = guarded
            \/ baseline' = caught /\ guarded' = {}
        BY <2>2 DEF Capture
      <3>2. caught.id = project
        OBVIOUS
      <3> HIDE DEF caught
      <3> QED
        BY <3>1, <3>2
    <2> QED
      BY <2>1, <2>2
  <1>4. StoreInv' /\ lastId' = lastId
    BY <1>1, <1>2, NoCallStays DEF NoCall
  <1>5. RecipeInv'
    BY <1>1, <1>2, <1>3, <1>4 DEF RecipeInv, RunInv
  <1>6. plan' \in [Entities -> Change]
    <2>1. [kind |-> "none", value |-> Blank] \in Change
      BY ConstantsTyped DEF Change
    <2> QED
      BY <1>2, <2>1 DEF Nothing
  <1>7. /\ 0 \in 0 .. lastId /\ <<>> \in Seq(Tasks) /\ <<>> \in Seq(Ids(tenant'))
        /\ guarded' \cup raced' \subseteq 1 .. lastId
    BY <1>1, <1>2, <1>3 DEF StoreInv, RunInv
  <1>8. RunInv'
    BY <1>1, <1>2, <1>4, <1>6, <1>7 DEF RunInv
  <1>9. Listed'
    BY <1>2, <1>7 DEF Listed
  <1> QED
    BY <1>4, <1>5, <1>8, <1>9 DEF TypeInv

LEMMA StartTyped ==
    ASSUME TypeInv, NEW o \in Options, StartPush(o)
    PROVE  TypeInv'
  <1>1. StoreInv /\ RecipeInv /\ RunInv /\ Listed
    BY DEF TypeInv
  <1>2. /\ pc = "idle" /\ options' = o /\ raced' = {} /\ skipped' = {}
        /\ UNCHANGED <<tenant, lastId, revision, title, baseline, project, parent,
                       todo, target, linking, guarded>>
        /\ result' = Verdict(o, Read(o.keyed))
        /\ pc' \in {"project", "idle"}
        /\ plan' \in {Planned(o, Read(o.keyed)), Nothing}
    BY DEF StartPush, recipe
  <1>3. result' \in {"noop", "refused", "none"}
    BY <1>2 DEF Verdict
  <1>4. plan' \in [Entities -> Change]
    <2>1. [kind |-> "none", value |-> Blank] \in Change
      BY ConstantsTyped DEF Change
    <2>2. Nothing \in [Entities -> Change]
      BY <2>1 DEF Nothing
    <2>3. Planned(o, Read(o.keyed)) \in [Entities -> Change]
      BY <1>1, PlannedTyped
    <2> QED
      BY <1>2, <2>2, <2>3
  <1>5. StoreInv'
    BY <1>1, <1>2 DEF StoreInv, UniqueIds
  <1>6. RecipeInv'
    BY <1>1, <1>2 DEF RecipeInv
  <1>7. RunInv'
    BY <1>1, <1>2, <1>3, <1>4 DEF RunInv
  <1>8. Listed'
    BY <1>1, <1>2 DEF Listed
  <1> QED
    BY <1>5, <1>6, <1>7, <1>8 DEF TypeInv

LEMMA EditEffect ==
    ASSUME StoreInv, NEW x \in tenant, AuthorEdit(x)
    PROVE  \E y \in Records(lastId) :
              /\ tenant' = (tenant \ {x}) \cup {y} /\ lastId' = lastId
              /\ y.id = x.id /\ y.parent = x.parent /\ y.origin = x.origin
              /\ y.title = x.title /\ y.handle = x.handle
              /\ y.value = AuthorValue
  <1>1. x \in Records(lastId) /\ AuthorValue \in Values
    BY ConstantsTyped DEF StoreInv
  <1>2. PICK y : /\ y = [x EXCEPT !.value = AuthorValue]
                 /\ tenant' = (tenant \ {x}) \cup {y} /\ lastId' = lastId
    BY DEF AuthorEdit
  <1>3. /\ y \in Records(lastId)
        /\ y.id = x.id /\ y.parent = x.parent /\ y.origin = x.origin
        /\ y.title = x.title /\ y.handle = x.handle
        /\ y.value = AuthorValue
    BY <1>1, <1>2 DEF Records
  <1> QED
    BY <1>2, <1>3

LEMMA EditTyped ==
    ASSUME TypeInv, NEW x \in tenant, AuthorEdit(x)
    PROVE  TypeInv' /\ Ids(tenant') = Ids(tenant)
  <1>1. StoreInv /\ RecipeInv /\ RunInv /\ Listed
    BY DEF TypeInv
  <1>2. PICK y \in Records(lastId) :
           y.id = x.id /\ tenant' = (tenant \ {x}) \cup {y} /\ lastId' = lastId
    BY <1>1, EditEffect
  <1>3. UniqueIds'
    BY <1>1, <1>2 DEF StoreInv, UniqueIds
  <1>4. StoreInv' /\ Ids(tenant') = Ids(tenant)
    BY <1>1, <1>2, <1>3 DEF StoreInv, Ids
  <1>5. /\ UNCHANGED <<revision, title, baseline, pc, options, plan, project, parent,
                       todo, target, linking, skipped, result>>
        /\ x.id \in 1 .. lastId
    BY <1>1 DEF AuthorEdit, recipe, progress, StoreInv, Records
  <1>6. guarded' \cup raced' \subseteq 1 .. lastId
    <2>1. CASE pc = "idle"
      <3>1. /\ guarded' = guarded \/ guarded' = guarded \cup {x.id}
            /\ raced' = raced
        BY <2>1 DEF AuthorEdit
      <3> QED
        BY <1>1, <1>5, <3>1 DEF RunInv
    <2>2. CASE pc # "idle"
      <3>1. guarded' \subseteq guarded /\ raced' = raced \cup {x.id}
        BY <2>2 DEF AuthorEdit
      <3> QED
        BY <1>1, <1>5, <3>1 DEF RunInv
    <2> QED
      BY <2>1, <2>2
  <1>7. RecipeInv' /\ RunInv'
    BY <1>1, <1>2, <1>5, <1>6 DEF RecipeInv, RunInv
  <1>8. Listed'
    BY <1>1, <1>4, <1>5 DEF Listed
  <1> QED
    BY <1>4, <1>7, <1>8 DEF TypeInv

(* Between pushes nothing is waiting to be linked.                         *)
Idle == pc = "idle" => linking = <<>> /\ todo = <<>>

LEMMA DeleteTyped ==
    ASSUME TypeInv, Idle, AuthorDelete
    PROVE  TypeInv'
  <1>1. StoreInv /\ RecipeInv /\ RunInv /\ linking = <<>>
    BY DEF TypeInv, Idle, AuthorDelete
  <1>2. /\ tenant' = {} /\ guarded' = {} /\ pc = "idle"
        /\ UNCHANGED <<lastId, revision, title, baseline, pc, options, plan, project,
                       parent, todo, target, linking, skipped, result, raced>>
    BY DEF AuthorDelete, recipe, progress
  <1>3. StoreInv'
    BY <1>1, <1>2 DEF StoreInv, UniqueIds
  <1>4. RecipeInv' /\ RunInv'
    BY <1>1, <1>2 DEF RecipeInv, RunInv
  <1>5. Listed'
    BY <1>1, <1>2 DEF Listed
  <1> QED
    BY <1>3, <1>4, <1>5 DEF TypeInv

LEMMA ReviseTyped ==
    ASSUME TypeInv, Revise
    PROVE  TypeInv'
  <1>1. StoreInv /\ RecipeInv /\ RunInv /\ Listed
    BY DEF TypeInv
  <1>2. /\ revision < Revisions /\ revision' = revision + 1
        /\ UNCHANGED <<tenant, lastId, title, baseline, pc, options, plan, project,
                       parent, todo, target, linking, skipped, result, guarded, raced>>
    BY DEF Revise, progress, history
  <1>3. RecipeInv'
    BY <1>1, <1>2, CampaignAssumption DEF RecipeInv
  <1>4. StoreInv' /\ RunInv' /\ Listed'
    BY <1>1, <1>2 DEF StoreInv, UniqueIds, RunInv, Listed
  <1> QED
    BY <1>3, <1>4 DEF TypeInv

LEMMA RenameTyped ==
    ASSUME TypeInv, NEW e \in Entities, NEW n \in 1 .. Titles, Rename(e, n)
    PROVE  TypeInv'
  <1>1. StoreInv /\ RecipeInv /\ RunInv /\ Listed
    BY DEF TypeInv
  <1>2. /\ title' = [title EXCEPT ![e] = n] /\ guarded' \subseteq guarded
        /\ UNCHANGED <<tenant, lastId, revision, baseline, pc, options, plan, project,
                       parent, todo, target, linking, skipped, result, raced>>
    BY DEF Rename, progress
  <1>3. RecipeInv'
    BY <1>1, <1>2 DEF RecipeInv
  <1>4. StoreInv' /\ RunInv' /\ Listed'
    BY <1>1, <1>2 DEF StoreInv, UniqueIds, RunInv, Listed
  <1> QED
    BY <1>3, <1>4 DEF TypeInv

LEMMA IdleStays ==
    ASSUME TypeInv, Idle, [Next]_vars
    PROVE  Idle'
  <1>1. CASE ResolveProject \/ ConvergeDeliverable \/ WriteTask \/ StampTask
             \/ StartLinking \/ LinkTask \/ StartCapture
    BY <1>1 DEF ResolveProject, ConvergeDeliverable, WriteTask, AfterCreate, StampTask,
                StartLinking, LinkTask, StartCapture, Idle
  <1>2. CASE Capture \/ Stop
    BY <1>2 DEF Capture, Stop, Over, Idle
  <1>3. CASE \E o \in Options : StartPush(o)
    BY <1>3 DEF StartPush, Idle
  <1>4. CASE Revise \/ AuthorDelete
    BY <1>4 DEF Revise, AuthorDelete, progress, Idle
  <1>5. CASE \E e \in Entities, n \in 1 .. Titles : Rename(e, n)
    BY <1>5 DEF Rename, progress, Idle
  <1>6. CASE \E x \in tenant : AuthorEdit(x)
    BY <1>6 DEF AuthorEdit, progress, Idle
  <1>7. CASE UNCHANGED vars
    BY <1>7 DEF vars, progress, Idle
  <1> QED
    BY <1>1, <1>2, <1>3, <1>4, <1>5, <1>6, <1>7 DEF Next, Apply

LEMMA TypeStays ==
    ASSUME TypeInv, Idle, [Next]_vars
    PROVE  TypeInv'
  <1>1. CASE ResolveProject
    BY <1>1, ProjectConverges, ConvergingTyped DEF ResolveProject
  <1>2. CASE ConvergeDeliverable
    BY <1>2, DeliverableConverges, ConvergingTyped DEF ConvergeDeliverable
  <1>3. CASE WriteTask
    BY <1>3, WritingConverges, ConvergingTyped DEF WriteTask
  <1>4. CASE StampTask
    BY <1>4, StampConverges, ConvergingTyped DEF StampTask
  <1>5. CASE LinkTask
    BY <1>5, LinkConverges, ConvergingTyped DEF LinkTask
  <1>6. CASE StartLinking \/ StartCapture
    BY <1>6, TurnConverges, ConvergingTyped DEF StartLinking, StartCapture
  <1>7. CASE Capture \/ Stop
    BY <1>7, OverTyped
  <1>8. CASE \E o \in Options : StartPush(o)
    BY <1>8, StartTyped
  <1>9. CASE Revise \/ AuthorDelete
    BY <1>9, ReviseTyped, DeleteTyped
  <1>10. CASE \E e \in Entities, n \in 1 .. Titles : Rename(e, n)
    BY <1>10, RenameTyped
  <1>11. CASE \E x \in tenant : AuthorEdit(x)
    BY <1>11, EditTyped
  <1>12. CASE UNCHANGED vars
    BY <1>12 DEF vars, recipe, progress, history, TypeInv, StoreInv, UniqueIds,
                 RecipeInv, RunInv, Listed
  <1> QED
    BY <1>1, <1>2, <1>3, <1>4, <1>5, <1>6, <1>7, <1>8, <1>9, <1>10, <1>11, <1>12
       DEF Next, Apply

(* A tenant takes partial bodies in one way.                               *)
LEMMA PartialStays ==
    ASSUME [Next]_vars
    PROVE  partial' = partial
  <1>1. CASE Apply \/ Stop
    BY <1>1 DEF Apply, ResolveProject, ConvergeDeliverable, WriteTask, StampTask,
                StartLinking, LinkTask, StartCapture, Capture, Stop, Over, Rest
  <1>2. CASE \/ Revise \/ AuthorDelete
             \/ \E e \in Entities, n \in 1 .. Titles : Rename(e, n)
             \/ \E x \in tenant : AuthorEdit(x)
    BY <1>2 DEF Revise, AuthorDelete, Rename, AuthorEdit
  <1>3. CASE \E o \in Options : StartPush(o)
    BY <1>3 DEF StartPush
  <1>4. CASE UNCHANGED vars
    BY <1>4 DEF vars
  <1> QED
    BY <1>1, <1>2, <1>3, <1>4 DEF Next

LEMMA TypeInit ==
    ASSUME Init
    PROVE  TypeInv /\ Idle
  <1>1. StoreInv
    BY DEF Init, StoreInv, UniqueIds
  <1>2. RecipeInv
    BY ConstantsTyped DEF Init, RecipeInv
  <1>3. plan \in [Entities -> Change] /\ options \in Options
    <2>1. [kind |-> "none", value |-> Blank] \in Change
      BY ConstantsTyped DEF Change
    <2> QED
      BY <2>1 DEF Init, Nothing, Options
  <1>4. RunInv
    BY <1>3 DEF Init, RunInv
  <1>5. Listed /\ Idle
    BY DEF Init, Listed, Idle
  <1> QED
    BY <1>1, <1>2, <1>4, <1>5 DEF TypeInv

(* Every record of the tenant has an id given out once, belongs under one  *)
(* given out before, and carries the title and value of some recipe or     *)
(* person; what a push works on exists.                                    *)
THEOREM TypeCorrectness == Spec => []TypeOK
  <1> DEFINE Takes == partial \in PartialBodies
  <1>1. Init => TypeInv /\ Idle /\ Takes
    BY TypeInit DEF Init
  <1>2. TypeInv /\ Idle /\ Takes /\ [Next]_vars => (TypeInv /\ Idle /\ Takes)'
    BY TypeStays, IdleStays, PartialStays
  <1>3. TypeInv /\ Takes => TypeOK
    <2> SUFFICES ASSUME TypeInv, Takes PROVE TypeOK
      OBVIOUS
    <2>1. \A x \in tenant :
             /\ x.id \in 1 .. lastId /\ x.parent \in 0 .. lastId
             /\ x.origin \in Entities
             /\ x.title \in 1 .. Titles /\ x.value \in Values
             /\ x.handle \in BOOLEAN
      BY DEF TypeInv, StoreInv, Records
    <2> QED
      BY <2>1 DEF TypeInv, StoreInv, UniqueIds, RecipeInv, RunInv, TypeOK
  <1> QED
    BY <1>1, <1>2, <1>3, PTL DEF Spec

-----------------------------------------------------------------------------
(* What a push has brought about so far.                                   *)

Working == pc \in {"tasks", "stamp", "link", "capture"}

Left == {todo[i] : i \in DOMAIN todo}

Edited(x) == x.id \in raced /\ x.value = AuthorValue

(* The record x is what the plan wants of the task t, unless somebody has  *)
(* edited it, the follow-up update is still to come, or the tenant takes   *)
(* no partial bodies and the task was not planned as an update.            *)
Right(x, t) ==
    /\ x.parent = parent /\ x.origin = t
    /\ \/ x.title = title[t] /\ (x.value = plan[t].value \/ Edited(x))
       \/ pc = "stamp" /\ x.id = target /\ plan[t].kind = "create"
       \/ partial = "ignored" /\ plan[t].kind = "create"

Done(t) == \E x \in tenant : Right(x, t)

ParentThere ==
    parent = 0 \/ \E d \in tenant :
                     d.id = parent /\ d.parent = project /\ d.origin = "deliverable"

ParentHeld == Working => ParentThere

TasksDone ==
    Working /\ skipped = {} =>
        \A t \in Tasks : t \in Left \/ (parent # 0 /\ Done(t))

AllWalked == pc \in {"link", "capture"} => todo = <<>>

TaskInv == ParentHeld /\ TasksDone /\ AllWalked

(* No record is lost in a push; it keeps what it has, gets what the plan   *)
(* wants, or somebody edits it.                                            *)
Carries ==
    \A x \in tenant : \E y \in tenant' :
        /\ y.id = x.id /\ y.parent = x.parent /\ y.origin = x.origin
        /\ \/ y.title = x.title /\ y.value = x.value
           \/ y.title = title[x.origin] /\ y.value = plan[x.origin].value
           \/ y.title = x.title /\ y.id \in raced' /\ y.value = AuthorValue

LEMMA NoCallCarries ==
    ASSUME NoCall
    PROVE  Carries
  BY DEF NoCall, Carries

LEMMA AddCarries ==
    ASSUME NEW e, NEW above, NEW v, Added(e, above, v)
    PROVE  Carries
  <1>1. \A x \in tenant : x \in tenant'
    BY DEF Added
  <1> QED
    BY <1>1 DEF Carries

LEMMA ReplaceCarries ==
    ASSUME NEW x \in tenant, Replaced(x)
    PROVE  Carries
  <1>1. PICK y : /\ tenant' = (tenant \ {x}) \cup {y}
                 /\ y.id = x.id /\ y.parent = x.parent /\ y.origin = x.origin
                 /\ y.title = title[x.origin] /\ y.value = plan[x.origin].value
    BY DEF Replaced
  <1>2. \A z \in tenant : z = x \/ z \in tenant'
    BY <1>1
  <1>3. y \in tenant'
    BY <1>1
  <1> QED
    BY <1>1, <1>2, <1>3 DEF Carries

LEMMA EditCarries ==
    ASSUME StoreInv, NEW x \in tenant, AuthorEdit(x), pc # "idle"
    PROVE  Carries
  <1>1. PICK y : /\ tenant' = (tenant \ {x}) \cup {y}
                 /\ y.id = x.id /\ y.parent = x.parent /\ y.origin = x.origin
                 /\ y.title = x.title /\ y.value = AuthorValue
    BY EditEffect
  <1>2. x.id \in raced'
    BY DEF AuthorEdit
  <1>3. \A z \in tenant : z = x \/ z \in tenant'
    BY <1>1
  <1>4. y \in tenant'
    BY <1>1
  <1> QED
    BY <1>1, <1>2, <1>3, <1>4 DEF Carries

LEMMA ParentStays ==
    ASSUME Carries, UNCHANGED <<parent, project>>, ParentThere
    PROVE  ParentThere'
  <1>1. CASE parent = 0
    BY <1>1 DEF ParentThere
  <1>2. CASE parent # 0
    <2>1. PICK d \in tenant :
             d.id = parent /\ d.parent = project /\ d.origin = "deliverable"
      BY <1>2 DEF ParentThere
    <2>2. PICK y \in tenant' :
             y.id = d.id /\ y.parent = d.parent /\ y.origin = d.origin
      BY DEF Carries
    <2> QED
      BY <2>1, <2>2 DEF ParentThere
  <1> QED
    BY <1>1, <1>2

LEMMA DoneStays ==
    ASSUME Carries, UNCHANGED <<partial, title, plan, parent>>,
           raced \subseteq raced',
           pc # "stamp" \/ (pc' = pc /\ target' = target),
           NEW t, Done(t)
    PROVE  Done(t)'
  <1>1. PICK x \in tenant : Right(x, t)
    BY DEF Done
  <1>2. PICK y \in tenant' :
           /\ y.id = x.id /\ y.parent = x.parent /\ y.origin = x.origin
           /\ \/ y.title = x.title /\ y.value = x.value
              \/ y.title = title[x.origin] /\ y.value = plan[x.origin].value
              \/ y.title = x.title /\ y.id \in raced' /\ y.value = AuthorValue
    BY DEF Carries
  <1>3. AuthorValue' = AuthorValue
    BY DEF AuthorValue
  <1>4. /\ y.parent = parent' /\ y.origin = t
        /\ \/ /\ y.title = title'[t]
              /\ \/ y.value = plan'[t].value
                 \/ y.id \in raced' /\ y.value = AuthorValue
           \/ pc' = "stamp" /\ y.id = target' /\ plan'[t].kind = "create"
           \/ partial' = "ignored" /\ plan'[t].kind = "create"
    BY <1>1, <1>2 DEF Right, Edited
  <1> QED
    BY <1>3, <1>4 DEF Done, Right, Edited

(* The follow-up update completes the task that was created last.          *)
LEMMA StampDone ==
    ASSUME TypeInv, StampTask, NEW t, Done(t)
    PROVE  Done(t)'
  <1>1. StoreInv /\ RecipeInv /\ RunInv /\ Listed
    BY DEF TypeInv
  <1>2. /\ pc = "stamp" /\ UNCHANGED <<partial, title, plan, parent, raced>>
        /\ AuthorValue' = AuthorValue
    BY DEF StampTask, Rest, recipe, history, AuthorValue
  <1>3. /\ Record(target) \in tenant /\ Record(target).id = target
    BY <1>1, <1>2, RecordIn DEF Listed
  <1>4. PICK x \in tenant : Right(x, t)
    BY DEF Done
  <1>5. CASE partial = "ignored" /\ NoCall
    <2>1. x \in tenant'
      BY <1>5 DEF NoCall
    <2>2. /\ x.parent = parent' /\ x.origin = t
          /\ \/ /\ x.title = title'[t]
                /\ \/ x.value = plan'[t].value
                   \/ x.id \in raced' /\ x.value = AuthorValue
             \/ partial' = "ignored" /\ plan'[t].kind = "create"
      BY <1>2, <1>4, <1>5 DEF Right, Edited
    <2> QED
      BY <1>2, <2>1, <2>2 DEF Done, Right, Edited
  <1>6. CASE Puts(Record(target))
    <2>1. PICK z \in tenant : z.id = target /\ Puts(z)
      BY <1>3, <1>6
    <2>2. Replaced(z)
      BY <1>1, <2>1, PutReplaces
    <2>3. PICK y : /\ tenant' = (tenant \ {z}) \cup {y}
                   /\ y.id = z.id /\ y.parent = z.parent /\ y.origin = z.origin
                   /\ y.title = title[z.origin] /\ y.value = plan[z.origin].value
      BY <2>2 DEF Replaced
    <2>4. CASE x = z
      <3>1. /\ y \in tenant' /\ y.parent = parent' /\ y.origin = t
            /\ y.title = title'[t] /\ y.value = plan'[t].value
        BY <1>2, <1>4, <2>3, <2>4 DEF Right
      <3> QED
        BY <3>1 DEF Done, Right
    <2>5. CASE x # z
      <3>1. x.id # target
        BY <1>1, <2>1, <2>5 DEF StoreInv, UniqueIds
      <3>2. x \in tenant'
        BY <2>3, <2>5
      <3>3. /\ x.parent = parent' /\ x.origin = t
            /\ \/ /\ x.title = title'[t]
                  /\ \/ x.value = plan'[t].value
                     \/ x.id \in raced' /\ x.value = AuthorValue
               \/ partial' = "ignored" /\ plan'[t].kind = "create"
        BY <1>2, <1>4, <3>1 DEF Right, Edited
      <3> QED
        BY <1>2, <3>2, <3>3 DEF Done, Right, Edited
    <2> QED
      BY <2>4, <2>5
  <1> QED
    BY <1>5, <1>6, PartPuts DEF StampTask, PutsOrNot

LEMMA DeliverableKeepsTasks ==
    ASSUME TypeInv, ConvergeDeliverable
    PROVE  TaskInv'
  <1> DEFINE live == Found("deliverable", Children(project, "deliverable"))
             named == IF ByName = {} THEN 0 ELSE CHOOSE i \in ByName : TRUE
  <1>1. StoreInv /\ RecipeInv /\ RunInv
    BY DEF TypeInv
  <1>2. pc' = "tasks" /\ todo' = TaskOrder /\ UNCHANGED project
    BY DEF ConvergeDeliverable
  <1>3. live \subseteq Children(project, "deliverable")
    <2>1. Children(project, "deliverable") \subseteq tenant
      BY DEF Children
    <2> QED
      BY <1>1, <2>1, FoundIn
  <1>4. \/ /\ Creates("deliverable", project, plan["deliverable"].value)
           /\ parent' = lastId'
        \/ \E x \in live : Puts(x) /\ parent' = x.id
        \/ \E x \in live : Puts(x) /\ parent' = named
        \/ NoCall /\ parent' = named
    BY Zenon DEF ConvergeDeliverable, Creates, Puts
  <1>5. named # 0 =>
           \E d \in tenant : d.id = named /\ d.parent = project /\ d.origin = "deliverable"
    <2> SUFFICES ASSUME named # 0
                 PROVE  \E d \in tenant :
                           d.id = named /\ d.parent = project /\ d.origin = "deliverable"
      OBVIOUS
    <2>1. named \in ByName
      OBVIOUS
    <2> HIDE DEF named
    <2>2. PICK d \in Children(project, "deliverable") : d.id = named
      BY <2>1 DEF ByName
    <2> QED
      BY <2>2 DEF Children
  <1> HIDE DEF live, named
  <1>6. ASSUME Carries, parent' = named
        PROVE  ParentThere'
    <2>1. CASE named = 0
      BY <1>6, <2>1 DEF ParentThere
    <2>2. CASE named # 0
      <3>1. PICK d \in tenant :
               d.id = named /\ d.parent = project /\ d.origin = "deliverable"
        BY <1>5, <2>2
      <3>2. PICK y \in tenant' :
               y.id = d.id /\ y.parent = d.parent /\ y.origin = d.origin
        BY <1>6 DEF Carries
      <3> QED
        BY <1>2, <1>6, <3>1, <3>2 DEF ParentThere
    <2> QED
      BY <2>1, <2>2
  <1>7. ASSUME NEW x \in live, Puts(x), parent' = x.id \/ parent' = named
        PROVE  ParentThere'
    <2>1. x \in tenant /\ x.parent = project /\ x.origin = "deliverable"
      BY <1>3 DEF Children
    <2>2. Replaced(x)
      BY <1>1, <1>7, <2>1, PutReplaces
    <2>3. CASE parent' = x.id
      BY <1>2, <2>1, <2>2, <2>3 DEF Replaced, ParentThere
    <2>4. CASE parent' = named
      BY <1>6, <2>1, <2>2, <2>4, ReplaceCarries
    <2> QED
      BY <1>7, <2>3, <2>4
  <1>8. ParentThere'
    <2>1. CASE /\ Creates("deliverable", project, plan["deliverable"].value)
               /\ parent' = lastId'
      <3>1. /\ "deliverable" \in Entities /\ project \in 0 .. lastId
            /\ plan["deliverable"].value \in Values
        BY <1>1, ConstantsTyped DEF RunInv, Change
      <3>2. Added("deliverable", project, plan["deliverable"].value)
        BY <1>1, <2>1, <3>1, CreateAdds
      <3> QED
        BY <1>2, <2>1, <3>2 DEF Added, ParentThere
    <2>2. CASE \E x \in live : Puts(x) /\ parent' = x.id
      BY <1>7, <2>2
    <2>3. CASE \E x \in live : Puts(x) /\ parent' = named
      BY <1>7, <2>3
    <2>4. CASE NoCall /\ parent' = named
      BY <1>6, <2>4, NoCallCarries
    <2> QED
      BY <1>4, <2>1, <2>2, <2>3, <2>4
  <1>9. \A t \in Tasks : t \in Left'
    BY <1>2 DEF Left, Tasks
  <1> QED
    BY <1>2, <1>8, <1>9 DEF TaskInv, ParentHeld, TasksDone, AllWalked, Working

LEMMA LeftShrinks ==
    ASSUME RunInv, todo # <<>>, todo' = Tail(todo)
    PROVE  \A t \in Left : t = This \/ t \in Left'
  <1> SUFFICES ASSUME NEW i \in DOMAIN todo, todo[i] # This
               PROVE  todo[i] \in Left'
    BY DEF Left
  <1>1. /\ DOMAIN todo = 1 .. Len(todo) /\ Len(todo) \in Nat
        /\ Len(Tail(todo)) = Len(todo) - 1
        /\ \A k \in 1 .. Len(todo) - 1 : Tail(todo)[k] = todo[k + 1]
        /\ Head(todo) = todo[1]
        /\ DOMAIN Tail(todo) = 1 .. Len(Tail(todo))
    BY LenProperties, HeadTailProperties DEF RunInv
  <1>2. i # 1 /\ i \in 1 .. Len(todo)
    BY <1>1 DEF This
  <1>3. i - 1 \in 1 .. Len(todo) - 1 /\ (i - 1) + 1 = i
    BY <1>1, <1>2
  <1>4. i - 1 \in DOMAIN (todo') /\ todo'[i - 1] = todo[i]
    BY <1>1, <1>3
  <1> QED
    BY <1>4 DEF Left

LEMMA WritingKeepsTasks ==
    ASSUME TypeInv, TaskInv, WriteTask
    PROVE  TaskInv'
  <1>1. StoreInv /\ RecipeInv /\ RunInv
    BY DEF TypeInv
  <1>2. /\ pc = "tasks" /\ todo # <<>> /\ UNCHANGED <<project, parent>>
        /\ UNCHANGED <<partial, title, plan, raced>>
    BY DEF WriteTask, Rest, recipe, history
  <1>3. This \in Entities /\ plan[This].value \in Values /\ ParentThere
    BY <1>1, <1>2, HeadOfTodo DEF TaskInv, ParentHeld, Working
  <1>4. ASSUME NEW c, c = This,
               Carries, todo' = Tail(todo), pc' \in {"tasks", "stamp"},
               skipped' # {} \/ (skipped' = skipped /\ parent # 0 /\ Done(c)')
        PROVE  TaskInv'
    <2>1. ParentThere'
      BY <1>2, <1>3, <1>4, ParentStays
    <2>2. ASSUME skipped' = {}, NEW t \in Tasks
          PROVE  t \in Left' \/ (parent' # 0 /\ Done(t)')
      <3>1. t \in Left \/ (parent # 0 /\ Done(t))
        BY <1>2, <1>4, <2>2 DEF TaskInv, TasksDone, Working
      <3>2. CASE t \in Left
        BY <1>1, <1>2, <1>4, <2>2, <3>2, LeftShrinks
      <3>3. CASE parent # 0 /\ Done(t)
        BY <1>2, <1>4, <3>3, DoneStays
      <3> QED
        BY <3>1, <3>2, <3>3
    <2> QED
      BY <1>4, <2>1, <2>2 DEF TaskInv, ParentHeld, TasksDone, AllWalked
  <1>5. CASE WithoutParent
    <2>1. Carries /\ skipped' # {} /\ todo' = Tail(todo) /\ pc' = pc
      BY <1>5, NoCallCarries DEF WithoutParent
    <2> QED
      BY <1>2, <1>4, <2>1
  <1>6. CASE OntoExisting
    <2>1. PICK x \in Children(parent, This) : Puts(x) /\ Written(x.id)
      BY <1>6 DEF OntoExisting
    <2>2. x \in tenant /\ x.parent = parent /\ x.origin = This
      BY DEF Children
    <2>3. Replaced(x)
      BY <1>1, <2>1, <2>2, PutReplaces
    <2>4. PICK y : /\ y \in tenant'
                   /\ y.parent = parent' /\ y.origin = This
                   /\ y.title = title'[This] /\ y.value = plan'[This].value
      BY <1>2, <2>2, <2>3 DEF Replaced
    <2>5. PICK c : c = This
      OBVIOUS
    <2>6. Done(c)'
      BY <2>4, <2>5 DEF Done, Right
    <2>7. Carries
      BY <2>2, <2>3, ReplaceCarries
    <2>8. /\ todo' = Tail(todo) /\ pc' = pc /\ skipped' = skipped /\ parent # 0
      BY <1>6, <2>1 DEF OntoExisting, Written
    <2> QED
      BY <1>2, <1>4, <2>5, <2>6, <2>7, <2>8
  <1>8. CASE AdoptedAsIs
    <2>1. PICK x \in Children(parent, This) : Written(x.id)
      BY <1>8 DEF AdoptedAsIs
    <2>2. x \in tenant /\ x.parent = parent /\ x.origin = This
      BY DEF Children
    <2>3. x \in tenant'
      BY <1>8, <2>2 DEF AdoptedAsIs, NoCall
    <2>4. /\ x.parent = parent' /\ x.origin = This
          /\ partial' = "ignored" /\ plan'[This].kind = "create"
      BY <1>2, <1>8, <2>2 DEF AdoptedAsIs
    <2>5. PICK c : c = This
      OBVIOUS
    <2>6. Done(c)'
      BY <2>3, <2>4, <2>5 DEF Done, Right
    <2>7. Carries
      BY <1>8, NoCallCarries DEF AdoptedAsIs
    <2>8. /\ todo' = Tail(todo) /\ pc' = pc /\ skipped' = skipped /\ parent # 0
      BY <1>8, <2>1 DEF AdoptedAsIs, Written
    <2> QED
      BY <1>2, <1>4, <2>5, <2>6, <2>7, <2>8
  <1>7. CASE AsNew
    <2>1. Blank \in Values /\ parent \in 0 .. lastId
      BY <1>1, ConstantsTyped DEF RunInv
    <2>2. Added(This, parent, Blank)
      BY <1>1, <1>3, <1>7, <2>1, CreateAdds DEF AsNew
    <2>3. PICK y : /\ y \in tenant' /\ y.parent = parent' /\ y.origin = This
                   /\ y.id = target' /\ plan'[This].kind = "create"
      BY <1>2, <1>7, <2>2 DEF Added, AsNew
    <2>4. PICK c : c = This
      OBVIOUS
    <2>5. Done(c)'
      BY <1>7, <2>3, <2>4 DEF Done, Right, AsNew
    <2>6. Carries
      BY <2>2, AddCarries
    <2>7. /\ todo' = Tail(todo) /\ pc' = "stamp" /\ skipped' = skipped /\ parent # 0
      BY <1>7 DEF AsNew, Written
    <2> QED
      BY <1>4, <2>4, <2>5, <2>6, <2>7
  <1> QED
    BY <1>1, <1>5, <1>6, <1>7, <1>8, TaskCases

LEMMA StampKeepsTasks ==
    ASSUME TypeInv, TaskInv, StampTask
    PROVE  TaskInv'
  <1>1. StoreInv /\ RecipeInv /\ RunInv /\ Listed
    BY DEF TypeInv
  <1>2. /\ pc = "stamp" /\ pc' = "tasks"
        /\ UNCHANGED <<project, parent, todo, skipped>>
    BY DEF StampTask
  <1>3. Record(target) \in tenant
    BY <1>1, <1>2, RecordIn DEF Listed
  <1>4. Puts(Record(target)) \/ NoCall
    BY PartPuts DEF StampTask, PutsOrNot
  <1>5. Carries
    BY <1>1, <1>3, <1>4, PutReplaces, ReplaceCarries, NoCallCarries
  <1>6. ParentThere'
    BY <1>2, <1>5, ParentStays DEF TaskInv, ParentHeld, Working
  <1>7. ASSUME NEW t, Done(t) PROVE Done(t)'
    BY <1>7, StampDone
  <1>8. Left' = Left
    BY <1>2 DEF Left
  <1> QED
    BY <1>2, <1>6, <1>7, <1>8
       DEF TaskInv, ParentHeld, TasksDone, AllWalked, Working

(* A step that only carries on.                                            *)
LEMMA CarriedTasks ==
    ASSUME TaskInv, Carries, pc # "stamp" \/ (pc' = pc /\ target' = target),
           UNCHANGED <<partial, title, plan, project, parent, todo, skipped>>,
           raced \subseteq raced',
           pc' = pc \/ (todo = <<>> /\ Working)
    PROVE  TaskInv'
  <1>1. Working' => Working
    BY DEF Working
  <1>2. ParentHeld'
    BY <1>1, ParentStays DEF TaskInv, ParentHeld
  <1>3. ASSUME NEW t, Done(t) PROVE Done(t)'
    BY <1>3, DoneStays
  <1>4. Left' = Left
    BY DEF Left
  <1>5. TasksDone'
    BY <1>1, <1>3, <1>4 DEF TaskInv, TasksDone
  <1>6. AllWalked'
    BY DEF TaskInv, AllWalked
  <1> QED
    BY <1>2, <1>5, <1>6 DEF TaskInv

LEMMA LinkKeepsTasks ==
    ASSUME TypeInv, TaskInv, LinkTask \/ StartLinking \/ StartCapture
    PROVE  TaskInv'
  <1>1. StoreInv /\ RecipeInv /\ RunInv /\ Listed
    BY DEF TypeInv
  <1>2. /\ UNCHANGED <<partial, title, plan, project, parent, todo, skipped, raced>>
        /\ pc # "stamp"
        /\ pc' = pc \/ (todo = <<>> /\ Working)
    BY DEF LinkTask, StartLinking, StartCapture, Rest, recipe, history, Working,
           TaskInv, AllWalked
  <1>3. Carries
    <2>1. CASE NoCall
      BY <2>1, NoCallCarries
    <2>2. CASE ~NoCall
      <3>1. LinkTask
        BY <2>2 DEF StartLinking, StartCapture
      <3>2. linking # <<>>
        BY <3>1 DEF LinkTask
      <3>3. Head(linking) \in Ids(tenant)
        BY <1>1, <3>2, HeadTailProperties DEF Listed
      <3>4. Record(Head(linking)) \in tenant
        BY <3>3, RecordIn
      <3>5. Puts(Record(Head(linking)))
        BY <2>2, <3>1, PartPuts DEF LinkTask, PutsOrNot
      <3> QED
        BY <1>1, <3>4, <3>5, PutReplaces, ReplaceCarries
    <2> QED
      BY <2>1, <2>2
  <1> QED
    BY <1>2, <1>3, CarriedTasks

LEMMA TasksStay ==
    ASSUME TypeInv, TaskInv, [Next]_vars
    PROVE  TaskInv'
  <1>1. StoreInv
    BY DEF TypeInv
  <1>2. CASE ConvergeDeliverable
    BY <1>2, DeliverableKeepsTasks
  <1>3. CASE WriteTask
    BY <1>3, WritingKeepsTasks
  <1>4. CASE StampTask
    BY <1>4, StampKeepsTasks
  <1>5. CASE LinkTask \/ StartLinking \/ StartCapture
    BY <1>5, LinkKeepsTasks
  <1>6. ASSUME pc' \in {"idle", "project", "deliverable"}
        PROVE  TaskInv'
    BY <1>6 DEF TaskInv, ParentHeld, TasksDone, AllWalked, Working
  <1>7. CASE ResolveProject \/ Capture \/ Stop
    BY <1>6, <1>7 DEF ResolveProject, Capture, Stop, Over
  <1>8. CASE \E o \in Options : StartPush(o)
    BY <1>6, <1>8 DEF StartPush
  <1>9. CASE \/ Revise \/ AuthorDelete
             \/ \E e \in Entities, n \in 1 .. Titles : Rename(e, n)
    BY <1>6, <1>9 DEF Revise, AuthorDelete, Rename
  <1>10. CASE \E x \in tenant : AuthorEdit(x)
    <2>1. PICK x \in tenant : AuthorEdit(x)
      BY <1>10
    <2>2. UNCHANGED <<partial, title, plan, project, parent, todo, target, skipped, pc>>
      BY <2>1 DEF AuthorEdit, recipe, progress
    <2>3. CASE pc = "idle"
      BY <1>6, <2>2, <2>3
    <2>4. CASE pc # "idle"
      <3>1. Carries
        BY <1>1, <2>1, <2>4, EditCarries
      <3>2. raced \subseteq raced'
        BY <2>1, <2>4 DEF AuthorEdit
      <3> QED
        BY <2>2, <3>1, <3>2, CarriedTasks
    <2> QED
      BY <2>3, <2>4
  <1>11. CASE UNCHANGED vars
    <2>1. Carries
      BY <1>11 DEF vars, Carries
    <2> QED
      BY <1>11, <2>1, CarriedTasks DEF vars, recipe, progress, history
  <1> QED
    BY <1>2, <1>3, <1>4, <1>5, <1>7, <1>8, <1>9, <1>10, <1>11 DEF Next, Apply

(* A push that reports nothing skipped has a record for every task, and    *)
(* has brought to what it planned every task it updated and, of a tenant   *)
(* that applies partial bodies, every task; whatever it found of them, and *)
(* whatever was edited meanwhile.                                          *)
THEOREM NothingDropped == Spec => []NothingSilentlyDropped
  <1>1. Init => TypeInv /\ Idle /\ TaskInv
    <2>1. Init => TaskInv
      BY DEF Init, TaskInv, ParentHeld, TasksDone, AllWalked, Working
    <2> QED
      BY <2>1, TypeInit
  <1>2. TypeInv /\ Idle /\ TaskInv /\ [Next]_vars => (TypeInv /\ Idle /\ TaskInv)'
    BY TypeStays, IdleStays, TasksStay
  <1>3. TaskInv => NothingSilentlyDropped
    <2> SUFFICES ASSUME TaskInv, pc = "capture", skipped = {}, NEW t \in Tasks
                 PROVE  \E d \in Children(project, "deliverable"), x \in tenant :
                            /\ x.parent = d.id /\ x.origin = t
                            /\ plan[t].kind = "update" \/ partial = "applied" =>
                                  /\ x.title = title[t]
                                  /\ \/ x.value = plan[t].value
                                     \/ x.id \in raced /\ x.value = AuthorValue
      BY DEF NothingSilentlyDropped
    <2>1. Working /\ t \notin Left
      BY DEF Working, TaskInv, AllWalked, Left
    <2>2. parent # 0 /\ Done(t)
      BY <2>1 DEF TaskInv, TasksDone
    <2>3. PICK d \in tenant :
             d.id = parent /\ d.parent = project /\ d.origin = "deliverable"
      BY <2>1, <2>2 DEF TaskInv, ParentHeld, ParentThere
    <2>4. d \in Children(project, "deliverable")
      BY <2>3 DEF Children
    <2>5. PICK x \in tenant : Right(x, t)
      BY <2>2 DEF Done
    <2>6. /\ x.parent = d.id /\ x.origin = t
          /\ plan[t].kind = "update" \/ partial = "applied" =>
                /\ x.title = title[t]
                /\ \/ x.value = plan[t].value
                   \/ x.id \in raced /\ x.value = AuthorValue
      BY <2>3, <2>5 DEF Right, Edited
    <2> QED
      BY <2>4, <2>6
  <1> QED
    BY <1>1, <1>2, <1>3, PTL DEF Spec

-----------------------------------------------------------------------------
(* Who is adopted, and what stays deleted.                                 *)

(* A project planned as unchanged was found by its name, and still is.     *)
SameNamed ==
    pc = "project" /\ plan["campaign"].kind = "none" =>
        \E x \in tenant : x.parent = 0 /\ x.origin = "campaign" /\ x.title = title["campaign"]

(* Under cms-wins a push with a baseline starts only where something is.   *)
Honoured == pc # "idle" /\ HonoursDeletion(options) => tenant # {}

AdoptInv == SameNamed /\ Honoured

LEMMA StartAdopts ==
    ASSUME TypeInv, NEW o \in Options, StartPush(o)
    PROVE  AdoptInv'
  <1> DEFINE P == Read(o.keyed)
  <1>1. StoreInv /\ RecipeInv /\ RunInv
    BY DEF TypeInv
  <1>2. P \subseteq Children(0, "campaign") /\ P \subseteq tenant
    BY <1>1, ReadIn DEF Options
  <1>3. /\ options' = o /\ result' = Verdict(o, P)
        /\ UNCHANGED <<tenant, title, baseline>>
        /\ result' = "none" => pc' = "project" /\ plan' = Planned(o, P)
        /\ result' # "none" => pc' = "idle"
    BY DEF StartPush, recipe
  <1> HIDE DEF P
  <1>4. Honoured'
    <2>1. CASE result' = "none"
      <3>1. P # {} \/ ~HonoursDeletion(o)
        BY <1>3, <2>1 DEF Verdict
      <3> QED
        BY <1>2, <1>3, <3>1 DEF Honoured, HonoursDeletion
    <2>2. CASE result' # "none"
      BY <1>3, <2>2 DEF Honoured
    <2> QED
      BY <2>1, <2>2
  <1>5. SameNamed'
    <2> SUFFICES ASSUME pc' = "project", plan'["campaign"].kind = "none"
                 PROVE  \E x \in tenant' : /\ x.parent = 0 /\ x.origin = "campaign"
                                           /\ x.title = title'["campaign"]
      BY DEF SameNamed
    <2>1. plan' = Planned(o, P)
      BY <1>3
    <2>2. "campaign" \in Entities /\ Current(P, "campaign") = P
      BY ConstantsTyped DEF Current
    <2>3. \E x \in P : x.title = title["campaign"]
      BY <2>1, <2>2 DEF Planned
    <2> QED
      BY <1>2, <1>3, <2>3 DEF Children
  <1> QED
    BY <1>4, <1>5 DEF AdoptInv

LEMMA AdoptStays ==
    ASSUME TypeInv, AdoptInv, [Next]_vars
    PROVE  AdoptInv'
  <1>1. StoreInv /\ Honoured /\ SameNamed
    BY DEF TypeInv, AdoptInv
  <1>2. ASSUME pc' = "idle" PROVE AdoptInv'
    BY <1>2 DEF AdoptInv, SameNamed, Honoured
  <1>3. ASSUME pc # "idle", pc' # "project", Converging, UNCHANGED <<options, baseline>>
        PROVE  AdoptInv'
    <2>1. tenant # {} => tenant' # {}
      BY <1>3 DEF Converging, Stays, Ids
    <2> QED
      BY <1>1, <1>3, <2>1 DEF AdoptInv, SameNamed, Honoured, HonoursDeletion
  <1>4. CASE ResolveProject
    BY <1>3, <1>4, ProjectConverges DEF ResolveProject, Rest
  <1>5. CASE ConvergeDeliverable
    BY <1>3, <1>5, DeliverableConverges DEF ConvergeDeliverable, Rest
  <1>6. CASE WriteTask
    <2>1. pc = "tasks" /\ pc' \in {"tasks", "stamp"}
      BY <1>6 DEF WriteTask, AfterCreate
    <2>2. UNCHANGED <<options, baseline>>
      BY <1>6 DEF WriteTask, Rest
    <2> QED
      BY <1>3, <1>6, <2>1, <2>2, WritingConverges
  <1>7. CASE StampTask
    BY <1>3, <1>7, StampConverges DEF StampTask, Rest
  <1>8. CASE LinkTask
    BY <1>3, <1>8, LinkConverges DEF LinkTask, Rest
  <1>9. CASE StartLinking \/ StartCapture
    BY <1>3, <1>9, TurnConverges DEF StartLinking, StartCapture, Rest
  <1>10. CASE Capture \/ Stop
    BY <1>2, <1>10 DEF Capture, Stop, Over
  <1>11. CASE \E o \in Options : StartPush(o)
    BY <1>11, StartAdopts
  <1>12. CASE \/ Revise \/ AuthorDelete
              \/ \E e \in Entities, n \in 1 .. Titles : Rename(e, n)
    BY <1>2, <1>12 DEF Revise, AuthorDelete, Rename
  <1>13. CASE \E x \in tenant : AuthorEdit(x)
    <2>1. PICK x \in tenant : AuthorEdit(x)
      BY <1>13
    <2>2. UNCHANGED <<title, plan, options, baseline, pc>>
      BY <2>1 DEF AuthorEdit, recipe, progress
    <2>3. PICK y : /\ tenant' = (tenant \ {x}) \cup {y}
                   /\ y.parent = x.parent /\ y.origin = x.origin /\ y.title = x.title
      BY <1>1, <2>1, EditEffect
    <2>4. \A z \in tenant : z = x \/ z \in tenant'
      BY <2>3
    <2>5. y \in tenant'
      BY <2>3
    <2>6. Honoured'
      BY <1>1, <2>2, <2>5 DEF Honoured, HonoursDeletion
    <2>7. SameNamed'
      BY <1>1, <2>2, <2>3, <2>4, <2>5 DEF SameNamed
    <2> QED
      BY <2>6, <2>7 DEF AdoptInv
  <1>14. CASE UNCHANGED vars
    BY <1>1, <1>14 DEF vars, recipe, progress, AdoptInv, SameNamed, Honoured, HonoursDeletion
  <1> QED
    BY <1>4, <1>5, <1>6, <1>7, <1>8, <1>9, <1>10, <1>11, <1>12, <1>13, <1>14
       DEF Next, Apply

LEMMA AdoptAlways == Spec => [](TypeInv /\ Idle /\ AdoptInv)
  <1>1. Init => TypeInv /\ Idle /\ AdoptInv
    <2>1. Init => AdoptInv
      BY DEF Init, AdoptInv, SameNamed, Honoured
    <2> QED
      BY <2>1, TypeInit
  <1>2. TypeInv /\ Idle /\ AdoptInv /\ [Next]_vars => (TypeInv /\ Idle /\ AdoptInv)'
    BY TypeStays, IdleStays, AdoptStays
  <1> QED
    BY <1>1, <1>2, PTL DEF Spec

(* Under cms-wins nothing comes back of a campaign that was deleted.       *)
THEOREM DeletedNotRevived == Spec => DeletedStaysDeleted
  <1>1. TypeInv /\ Idle /\ AdoptInv /\ [Next]_vars =>
           (/\ tenant = {} /\ baseline.id # 0
            /\ options.keyed /\ options.policy = "cms-wins"
            => tenant' = {})
    <2> SUFFICES ASSUME TypeInv, AdoptInv, [Next]_vars,
                        tenant = {}, baseline.id # 0,
                        options.keyed, options.policy = "cms-wins"
                 PROVE  tenant' = {}
      OBVIOUS
    <2>1. HonoursDeletion(options)
      BY DEF HonoursDeletion
    <2>2. pc = "idle"
      BY <2>1 DEF AdoptInv, Honoured
    <2>3. ~Apply /\ ~Stop
      BY <2>2 DEF Apply, ResolveProject, ConvergeDeliverable, WriteTask, StampTask,
                  StartLinking, LinkTask, StartCapture, Capture, Stop
    <2>4. CASE \E o \in Options : StartPush(o)
      BY <2>4 DEF StartPush
    <2>5. CASE \/ Revise \/ AuthorDelete
               \/ \E e \in Entities, n \in 1 .. Titles : Rename(e, n)
      BY <2>5 DEF Revise, AuthorDelete, Rename
    <2>6. CASE UNCHANGED vars
      BY <2>6 DEF vars
    <2> QED
      BY <2>3, <2>4, <2>5, <2>6 DEF Next
  <1> QED
    BY <1>1, AdoptAlways, PTL DEF Spec, DeletedStaysDeleted

(* Whatever is created, nothing that carries its handle was there.         *)
NoneWithHandle ==
    \A x \in tenant' :
        x.id > lastId =>
            ~\E y \in tenant :
                y.parent = x.parent /\ y.origin = x.origin /\ y.handle

LEMMA NoneNew ==
    ASSUME StoreInv', lastId' = lastId
    PROVE  NoneWithHandle
  <1>1. \A x \in tenant' : x.id \in 1 .. lastId
    BY DEF StoreInv, Records
  <1>2. lastId \in Nat
    BY DEF StoreInv
  <1>3. \A x \in tenant' : ~(x.id > lastId)
    BY <1>1, <1>2
  <1> QED
    BY <1>3 DEF NoneWithHandle

LEMMA NewIsFirst ==
    ASSUME StoreInv, NEW e, NEW above, NEW v, Added(e, above, v),
           \A y \in Children(above, e) : ~y.handle
    PROVE  NoneWithHandle
  <1>1. PICK z : /\ tenant' = tenant \cup {z}
                 /\ z.parent = above /\ z.origin = e
    BY DEF Added
  <1>2. lastId \in Nat /\ \A x \in tenant : x.id \in 1 .. lastId
    BY DEF StoreInv, Records
  <1>3. \A x \in tenant : ~(x.id > lastId)
    BY <1>2
  <1>4. ~\E y \in tenant : y.parent = above /\ y.origin = e /\ y.handle
    BY DEF Children
  <1> QED
    BY <1>1, <1>3, <1>4 DEF NoneWithHandle

LEMMA AdoptedIn ==
    ASSUME StoreInv
    PROVE  Adopted \subseteq Children(0, "campaign") /\ Adopted \subseteq tenant
  <1> DEFINE all == Children(0, "campaign")
  <1>1. all \subseteq tenant
    BY DEF Children
  <1>2. Found("campaign", all) \subseteq all
    BY <1>1, FoundIn
  <1>3. Read(FALSE) \subseteq all
    BY ReadIn
  <1> QED
    BY <1>1, <1>2, <1>3 DEF Adopted

LEMMA NoneAdopted ==
    ASSUME TypeInv, AdoptInv, pc = "project", Adopted = {}
    PROVE  \A y \in Children(0, "campaign") : ~y.handle
  <1> DEFINE all == Children(0, "campaign")
  <1>1. StoreInv /\ SameNamed /\ all \subseteq tenant
    BY DEF TypeInv, AdoptInv, Children
  <1>2. CASE plan["campaign"].kind = "none"
    <2> DEFINE titled == {x \in all : x.title = title["campaign"]}
    <2>1. titled # {}
      BY <1>1, <1>2 DEF SameNamed, Children
    <2>2. titled \subseteq tenant
      BY <1>1
    <2> HIDE DEF titled
    <2>3. Found("campaign", titled) = {}
      <3>1. Read(FALSE) = Found("campaign", titled)
        BY DEF Read, titled
      <3> QED
        BY <1>2, <3>1 DEF Adopted
    <2>4. \A x \in titled : x.title # title["campaign"]
      BY <1>1, <2>2, <2>3, FoundIn
    <2> QED
      BY <2>1, <2>4 DEF titled
  <1>3. CASE plan["campaign"].kind # "none"
    <2>1. Found("campaign", all) = {}
      BY <1>3 DEF Adopted
    <2> QED
      BY <1>1, <2>1, FoundIn
  <1> QED
    BY <1>2, <1>3

LEMMA ProjectAdopts ==
    ASSUME TypeInv, AdoptInv, ResolveProject
    PROVE  NoneWithHandle
  <1>1. StoreInv /\ RecipeInv /\ RunInv /\ pc = "project"
    BY DEF TypeInv, ResolveProject
  <1>2. Adopted \subseteq tenant
    BY <1>1, AdoptedIn
  <1>3. \/ /\ Adopted = {}
           /\ Creates("campaign", 0, plan["campaign"].value)
        \/ \E x \in Adopted : Puts(x)
        \/ NoCall
    BY Zenon DEF ResolveProject, Creates, Puts
  <1>4. CASE Adopted = {} /\ Creates("campaign", 0, plan["campaign"].value)
    <2>1. /\ "campaign" \in Entities /\ 0 \in 0 .. lastId
          /\ plan["campaign"].value \in Values
      BY <1>1, ConstantsTyped DEF StoreInv, RunInv, Change
    <2>2. Added("campaign", 0, plan["campaign"].value)
      BY <1>1, <1>4, <2>1, CreateAdds
    <2> QED
      BY <1>1, <1>4, <2>2, NoneAdopted, NewIsFirst
  <1>5. CASE \E x \in Adopted : Puts(x)
    <2>1. PICK x \in tenant : Puts(x)
      BY <1>2, <1>5
    <2> QED
      BY <1>1, <2>1, PutReplaces, ReplaceKeeps, NoneNew
  <1>6. CASE NoCall
    BY <1>1, <1>6, NoCallStays, NoneNew DEF NoCall
  <1> QED
    BY <1>3, <1>4, <1>5, <1>6

LEMMA DeliverableAdopts ==
    ASSUME TypeInv, ConvergeDeliverable
    PROVE  NoneWithHandle
  <1> DEFINE all == Children(project, "deliverable")
             live == Found("deliverable", all)
  <1>1. StoreInv /\ RecipeInv /\ RunInv
    BY DEF TypeInv
  <1>2. all \subseteq tenant
    BY DEF Children
  <1>3. live \subseteq tenant /\ (live = {} => \A y \in all : ~y.handle)
    BY <1>1, <1>2, FoundIn
  <1>4. \/ live = {} /\ Creates("deliverable", project, plan["deliverable"].value)
        \/ \E x \in live : Puts(x)
        \/ NoCall
    BY Zenon DEF ConvergeDeliverable, Creates, Puts
  <1> HIDE DEF live
  <1>5. CASE live = {} /\ Creates("deliverable", project, plan["deliverable"].value)
    <2>1. /\ "deliverable" \in Entities /\ project \in 0 .. lastId
          /\ plan["deliverable"].value \in Values
      BY <1>1, ConstantsTyped DEF RunInv, Change
    <2>2. Added("deliverable", project, plan["deliverable"].value)
      BY <1>1, <1>5, <2>1, CreateAdds
    <2> QED
      BY <1>1, <1>3, <1>5, <2>2, NewIsFirst
  <1>6. CASE \E x \in live : Puts(x)
    <2>1. PICK x \in tenant : Puts(x)
      BY <1>3, <1>6
    <2> QED
      BY <1>1, <2>1, PutReplaces, ReplaceKeeps, NoneNew
  <1>7. CASE NoCall
    BY <1>1, <1>7, NoCallStays, NoneNew DEF NoCall
  <1> QED
    BY <1>4, <1>5, <1>6, <1>7

LEMMA WritingAdopts ==
    ASSUME TypeInv, WriteTask
    PROVE  NoneWithHandle
  <1>1. StoreInv /\ RecipeInv /\ RunInv /\ todo # <<>>
    BY DEF TypeInv, WriteTask
  <1>2. CASE WithoutParent \/ AdoptedAsIs
    BY <1>1, <1>2, NoCallStays, NoneNew DEF WithoutParent, AdoptedAsIs, NoCall
  <1>3. CASE OntoExisting
    <2>1. PICK x \in tenant : Puts(x)
      BY <1>3 DEF OntoExisting, Children
    <2> QED
      BY <1>1, <2>1, PutReplaces, ReplaceKeeps, NoneNew
  <1>4. CASE AsNew
    <2>1. Blank \in Values /\ parent \in 0 .. lastId /\ This \in Entities
      BY <1>1, ConstantsTyped, HeadOfTodo DEF RunInv
    <2>2. Added(This, parent, Blank)
      BY <1>1, <1>4, <2>1, CreateAdds DEF AsNew
    <2> QED
      BY <1>1, <1>4, <2>2, NewIsFirst DEF AsNew
  <1> QED
    BY <1>1, <1>2, <1>3, <1>4, TaskCases

LEMMA StepsAdopt ==
    ASSUME TypeInv, Idle, AdoptInv, [Next]_vars
    PROVE  NoneWithHandle
  <1>1. StoreInv /\ RecipeInv /\ RunInv /\ Listed
    BY DEF TypeInv
  <1>2. StoreInv'
    BY TypeStays DEF TypeInv
  <1>3. CASE ResolveProject
    BY <1>3, ProjectAdopts
  <1>4. CASE ConvergeDeliverable
    BY <1>4, DeliverableAdopts
  <1>5. CASE WriteTask
    BY <1>5, WritingAdopts
  <1>6. CASE StampTask \/ LinkTask
    <2>1. lastId' = lastId
      BY <1>6 DEF StampTask, LinkTask, PutPart, Put, NoCall
    <2> QED
      BY <1>2, <2>1, NoneNew
  <1>7. CASE StartLinking \/ StartCapture \/ Capture \/ Stop
    BY <1>2, <1>7, NoneNew DEF StartLinking, StartCapture, Capture, Stop, NoCall
  <1>8. CASE \E o \in Options : StartPush(o)
    BY <1>2, <1>8, NoneNew DEF StartPush
  <1>9. CASE \/ Revise \/ AuthorDelete
             \/ \E e \in Entities, n \in 1 .. Titles : Rename(e, n)
    BY <1>2, <1>9, NoneNew DEF Revise, AuthorDelete, Rename
  <1>10. CASE \E x \in tenant : AuthorEdit(x)
    BY <1>2, <1>10, NoneNew DEF AuthorEdit
  <1>11. CASE UNCHANGED vars
    BY <1>2, <1>11, NoneNew DEF vars
  <1> QED
    BY <1>3, <1>4, <1>5, <1>6, <1>7, <1>8, <1>9, <1>10, <1>11 DEF Next, Apply

(* Nothing is created whose handle the tenant has already.                 *)
THEOREM HandleIsAdopted == Spec => HandlesAreAdopted
  <1>1. TypeInv /\ Idle /\ AdoptInv /\ [Next]_vars =>
           (\A x \in tenant' :
               x.id > lastId =>
                   ~\E y \in tenant :
                       y.parent = x.parent /\ y.origin = x.origin /\ y.handle)
    BY StepsAdopt DEF NoneWithHandle
  <1> QED
    BY <1>1, AdoptAlways, PTL DEF Spec, HandlesAreAdopted

-----------------------------------------------------------------------------
(* The tree a tenant holds, and what waits to be linked.                   *)

Waiting == {linking[i] : i \in DOMAIN linking}

OneEach ==
    \A x, y \in tenant : x.origin = y.origin /\ x.origin \notin Tasks => x = y

AllLabelled == \A x \in tenant : x.origin \notin Tasks => x.handle

Under(x, e) == \E c \in tenant : c.id = x.parent /\ c.origin = e

Rooted(x) ==
    /\ x.origin = "campaign" <=> x.parent = 0
    /\ x.origin = "deliverable" => Under(x, "campaign")
    /\ x.origin \in Tasks => Under(x, "deliverable")

Tree == \A x \in tenant : Rooted(x)

ProjectThere ==
    pc \notin {"idle", "project"} =>
        \E c \in tenant : c.id = project /\ c.origin = "campaign"

(* A record the recipe knows for one of its own.                           *)
Known(x) == x.handle \/ x.title = title[x.origin]

LinkingNamed ==
    \A x \in tenant :
        x.id \in Waiting \/ (pc = "stamp" /\ x.id = target)
        => x.origin \in Tasks /\ Known(x)

Shape == OneEach /\ AllLabelled /\ Tree

ShapeInv == Shape /\ ProjectThere /\ LinkingNamed

LEMMA SwapShape ==
    ASSUME Shape, NEW x \in tenant, NEW y, tenant' = (tenant \ {x}) \cup {y},
           y.id = x.id, y.parent = x.parent, y.origin = x.origin,
           x.origin \in Tasks \/ y.handle
    PROVE  Shape'
  <1>1. \A z \in tenant' : z = y \/ (z \in tenant /\ z # x)
    OBVIOUS
  <1>2. y \in tenant' /\ \A z \in tenant : z = x \/ z \in tenant'
    OBVIOUS
  <1>3. OneEach'
    BY <1>1 DEF Shape, OneEach
  <1>4. AllLabelled'
    BY <1>1 DEF Shape, AllLabelled
  <1>5. ASSUME NEW z, NEW e, Under(z, e)
        PROVE  Under(z, e)'
    <2>1. PICK c \in tenant : c.id = z.parent /\ c.origin = e
      BY <1>5 DEF Under
    <2>2. CASE c = x
      BY <1>2, <2>1, <2>2 DEF Under
    <2>3. CASE c # x
      BY <1>2, <2>1, <2>3 DEF Under
    <2> QED
      BY <2>2, <2>3
  <1>6. ASSUME NEW z \in tenant' PROVE Rooted(z)'
    <2>1. CASE z = y
      <3>1. Rooted(x)
        BY DEF Shape, Tree
      <3>2. \A e : Under(x, e) => Under(y, e)
        BY DEF Under
      <3>3. Rooted(y)
        BY <3>1, <3>2 DEF Rooted
      <3> QED
        BY <1>5, <2>1, <3>3 DEF Rooted
    <2>2. CASE z # y
      <3>1. Rooted(z)
        BY <1>1, <2>2 DEF Shape, Tree
      <3> QED
        BY <1>5, <3>1 DEF Rooted
    <2> QED
      BY <2>1, <2>2
  <1>7. Tree'
    BY <1>6 DEF Tree
  <1> QED
    BY <1>3, <1>4, <1>7 DEF Shape

LEMMA AddShape ==
    ASSUME Shape, NEW y, tenant' = tenant \cup {y},
           Rooted(y),
           y.origin \in Tasks \/ (y.handle /\ \A x \in tenant : x.origin # y.origin)
    PROVE  Shape'
  <1>1. \A z \in tenant' : z = y \/ z \in tenant
    OBVIOUS
  <1>2. OneEach'
    BY <1>1 DEF Shape, OneEach
  <1>3. AllLabelled'
    BY <1>1 DEF Shape, AllLabelled
  <1>4. ASSUME NEW z, NEW e, Under(z, e)
        PROVE  Under(z, e)'
    BY <1>4 DEF Under
  <1>5. ASSUME NEW z \in tenant' PROVE Rooted(z)'
    <2>1. Rooted(z)
      BY <1>1 DEF Shape, Tree
    <2> QED
      BY <1>4, <2>1 DEF Rooted
  <1>6. Tree'
    BY <1>5 DEF Tree
  <1> QED
    BY <1>2, <1>3, <1>6 DEF Shape

(* The label a call leaves.                                                *)
Labels(x) == Put(x, TRUE)
CreatesLabelled(e, above, v) == Create(New(e, above, v, TRUE))

LEMMA PutLabels ==
    ASSUME StoreInv, RecipeInv, RunInv, NEW x \in tenant, Labels(x)
    PROVE  \E y : /\ tenant' = (tenant \ {x}) \cup {y} /\ lastId' = lastId
                  /\ y.id = x.id /\ y.parent = x.parent /\ y.origin = x.origin
                  /\ y.title = title[x.origin] /\ y.value = plan[x.origin].value
                  /\ y.handle
  <1>1. x \in Records(lastId)
    BY DEF StoreInv
  <1>2. PICK t \in 1 .. Titles, v \in Values :
           t = title[x.origin] /\ v = plan[x.origin].value
    BY <1>1 DEF RecipeInv, RunInv, Records, Change
  <1>3. PICK y : /\ y = [x EXCEPT !.title = t, !.value = v, !.handle = TRUE]
                 /\ tenant' = (tenant \ {x}) \cup {y} /\ lastId' = lastId
    BY <1>2 DEF Labels, Put
  <1>4. /\ y.id = x.id /\ y.parent = x.parent /\ y.origin = x.origin
        /\ y.title = t /\ y.value = v /\ y.handle
    BY <1>1, <1>3 DEF Records
  <1> QED
    BY <1>2, <1>3, <1>4

LEMMA CreateLabels ==
    ASSUME StoreInv, RecipeInv, NEW e \in Entities, NEW above \in 0 .. lastId,
           NEW v \in Values, CreatesLabelled(e, above, v)
    PROVE  \E y : /\ tenant' = tenant \cup {y} /\ lastId' = lastId + 1
                  /\ y.id = lastId + 1 /\ y.parent = above /\ y.origin = e
                  /\ y.handle
  <1>1. PICK y : /\ y = New(e, above, v, TRUE)
                 /\ tenant' = tenant \cup {y} /\ lastId' = y.id
    BY DEF CreatesLabelled, Create
  <1>2. y = [id |-> lastId + 1, parent |-> above, origin |-> e,
             title |-> title[e], value |-> v, handle |-> TRUE]
    BY <1>1 DEF New
  <1>3. /\ y.id = lastId + 1 /\ y.parent = above /\ y.origin = e
        /\ y.handle
    BY <1>2
  <1> QED
    BY <1>1, <1>3

(* Where the record of an id comes from; it is found by the same id later. *)
LEMMA NamedStays ==
    ASSUME TypeInv, LinkingNamed, UNCHANGED title, Waiting' \subseteq Waiting,
           pc' # "stamp" \/ (pc' = pc /\ target' = target),
           \A z \in tenant' :
              \/ z.id = lastId + 1
              \/ \E x \in tenant :
                    /\ x.id = z.id /\ x.origin = z.origin
                    /\ \/ z.title = title[x.origin]
                       \/ z.title = x.title /\ z.handle = x.handle
    PROVE  LinkingNamed'
  <1>1. /\ Waiting \subseteq 1 .. lastId /\ lastId \in Nat
        /\ pc = "stamp" => target \in 1 .. lastId
    <2>1. Ids(tenant) \subseteq 1 .. lastId /\ lastId \in Nat
      BY DEF TypeInv, StoreInv, Records, Ids
    <2>2. Waiting \subseteq Ids(tenant)
      <3>1. linking \in Seq(Ids(tenant))
        BY DEF TypeInv, Listed
      <3>2. DOMAIN linking = 1 .. Len(linking)
            /\ \A i \in 1 .. Len(linking) : linking[i] \in Ids(tenant)
        BY <3>1, ElementOfSeq, LenProperties
      <3> QED
        BY <3>2 DEF Waiting
    <2> QED
      BY <2>1, <2>2 DEF TypeInv, Listed
  <1> SUFFICES ASSUME NEW z \in tenant',
                      z.id \in Waiting' \/ (pc' = "stamp" /\ z.id = target')
               PROVE  z.origin \in Tasks /\ (z.handle \/ z.title = title'[z.origin])
    BY DEF LinkingNamed, Known
  <1>2. z.id \in Waiting \/ (pc = "stamp" /\ z.id = target)
    OBVIOUS
  <1>3. z.id # lastId + 1
    BY <1>1, <1>2
  <1>4. PICK x \in tenant :
           /\ x.id = z.id /\ x.origin = z.origin
           /\ \/ z.title = title[x.origin]
              \/ z.title = x.title /\ z.handle = x.handle
    BY <1>3
  <1>5. x.origin \in Tasks /\ (x.handle \/ x.title = title[x.origin])
    BY <1>2, <1>4 DEF LinkingNamed, Known
  <1> QED
    BY <1>4, <1>5

LEMMA ProjectStays ==
    ASSUME ProjectThere, Carries, UNCHANGED project,
           pc' \in {"idle", "project"} \/ pc \notin {"idle", "project"}
    PROVE  ProjectThere'
  <1> SUFFICES ASSUME pc \notin {"idle", "project"}
               PROVE  \E c \in tenant' : c.id = project' /\ c.origin = "campaign"
    BY DEF ProjectThere
  <1>1. PICK c \in tenant : c.id = project /\ c.origin = "campaign"
    BY DEF ProjectThere
  <1>2. PICK y \in tenant' : y.id = c.id /\ y.origin = c.origin
    BY DEF Carries
  <1> QED
    BY <1>1, <1>2

(* What a call does, seen from what it leaves.                             *)
ComesFrom ==
    \A z \in tenant' :
        \/ z.id = lastId + 1
        \/ \E x \in tenant :
              /\ x.id = z.id /\ x.origin = z.origin
              /\ \/ z.title = title[x.origin]
                 \/ z.title = x.title /\ z.handle = x.handle

LEMMA SwapComes ==
    ASSUME NEW x \in tenant, NEW y, tenant' = (tenant \ {x}) \cup {y},
           y.id = x.id, y.origin = x.origin,
           y.title = title[x.origin] \/ (y.title = x.title /\ y.handle = x.handle)
    PROVE  ComesFrom
  <1>1. \A z \in tenant' : z = y \/ z \in tenant
    OBVIOUS
  <1> QED
    BY <1>1 DEF ComesFrom

LEMMA AddComes ==
    ASSUME NEW y, tenant' = tenant \cup {y}, y.id = lastId + 1
    PROVE  ComesFrom
  <1>1. \A z \in tenant' : z = y \/ z \in tenant
    OBVIOUS
  <1> QED
    BY <1>1 DEF ComesFrom

LEMMA SameComes ==
    ASSUME NoCall
    PROVE  ComesFrom /\ (Shape => Shape')
  BY DEF NoCall, ComesFrom, Shape, OneEach, AllLabelled, Tree, Rooted, Under

LEMMA ProjectKeepsShape ==
    ASSUME TypeInv, ShapeInv, AdoptInv, ResolveProject
    PROVE  ShapeInv'
  <1>1. StoreInv /\ RecipeInv /\ RunInv /\ Shape /\ LinkingNamed
    BY DEF TypeInv, ShapeInv
  <1>2. /\ pc = "project" /\ pc' = "deliverable" /\ UNCHANGED <<title, linking>>
    BY DEF ResolveProject, Rest, recipe
  <1>3. /\ Adopted \subseteq tenant
        /\ \A x \in Adopted : x.parent = 0 /\ x.origin = "campaign"
    BY <1>1, AdoptedIn DEF Children
  <1>4. \/ /\ Adopted = {} /\ project' = lastId'
           /\ CreatesLabelled("campaign", 0, plan["campaign"].value)
        \/ \E x \in Adopted : project' = x.id /\ Labels(x)
        \/ \E x \in Adopted : project' = x.id /\ NoCall
    BY Zenon DEF ResolveProject, CreatesLabelled, Labels
  <1>5. "campaign" \notin Tasks
    BY CampaignAssumption
  <1>6. Shape' /\ ComesFrom /\ \E c \in tenant' : c.id = project' /\ c.origin = "campaign"
    <2>1. CASE /\ Adopted = {} /\ project' = lastId'
               /\ CreatesLabelled("campaign", 0, plan["campaign"].value)
      <3>1. /\ "campaign" \in Entities /\ 0 \in 0 .. lastId
            /\ plan["campaign"].value \in Values
        BY <1>1, ConstantsTyped DEF StoreInv, RunInv, Change
      <3>2. PICK y : /\ tenant' = tenant \cup {y} /\ lastId' = lastId + 1
                     /\ y.id = lastId + 1 /\ y.parent = 0 /\ y.origin = "campaign"
                     /\ y.handle
        BY <1>1, <2>1, <3>1, CreateLabels
      <3>3. \A x \in tenant : x.origin # "campaign"
        <4> SUFFICES ASSUME NEW x \in tenant, x.origin = "campaign" PROVE FALSE
          OBVIOUS
        <4>1. x.parent = 0 /\ x.handle
          BY <1>1, <1>5 DEF Shape, Tree, Rooted, AllLabelled
        <4>2. \A z \in Children(0, "campaign") : ~z.handle
          BY <1>2, <2>1, NoneAdopted
        <4> QED
          BY <4>1, <4>2 DEF Children
      <3>4. Rooted(y)
        BY <1>5, <3>2 DEF Rooted
      <3>5. Shape'
        BY <1>1, <3>2, <3>3, <3>4, AddShape
      <3> QED
        BY <2>1, <3>2, <3>5, AddComes
    <2>2. CASE \E x \in Adopted : project' = x.id /\ Labels(x)
      <3>1. PICK x \in Adopted : project' = x.id /\ Labels(x)
        BY <2>2
      <3>2. x \in tenant /\ x.origin = "campaign"
        BY <1>3
      <3>3. PICK y : /\ tenant' = (tenant \ {x}) \cup {y}
                     /\ y.id = x.id /\ y.parent = x.parent /\ y.origin = x.origin
                     /\ y.title = title[x.origin] /\ y.handle
        BY <1>1, <3>1, <3>2, PutLabels
      <3>4. y \in tenant'
        BY <3>3
      <3> QED
        BY <1>1, <3>1, <3>2, <3>3, <3>4, SwapShape, SwapComes
    <2>3. CASE \E x \in Adopted : project' = x.id /\ NoCall
      BY <1>1, <1>3, <2>3, SameComes DEF NoCall
    <2> QED
      BY <1>4, <2>1, <2>2, <2>3
  <1>7. LinkingNamed'
    <2>1. Waiting' = Waiting
      BY <1>2 DEF Waiting
    <2> QED
      BY <1>1, <1>2, <1>6, <2>1, NamedStays DEF ComesFrom
  <1> QED
    BY <1>6, <1>7 DEF ShapeInv, ProjectThere

LEMMA DeliverableKeepsShape ==
    ASSUME TypeInv, ShapeInv, ConvergeDeliverable
    PROVE  ShapeInv'
  <1> DEFINE all == Children(project, "deliverable")
             live == Found("deliverable", all)
  <1>1. StoreInv /\ RecipeInv /\ RunInv /\ Shape /\ LinkingNamed /\ ProjectThere
    BY DEF TypeInv, ShapeInv
  <1>2. /\ pc = "deliverable" /\ pc' = "tasks"
        /\ UNCHANGED <<title, linking, project>>
    BY DEF ConvergeDeliverable, Rest, recipe
  <1>3. all \subseteq tenant
    BY DEF Children
  <1>4. live \subseteq all /\ (live = {} => \A y \in all : ~y.handle)
    BY <1>1, <1>3, FoundIn
  <1>5. \/ /\ live = {}
           /\ CreatesLabelled("deliverable", project, plan["deliverable"].value)
        \/ \E x \in live : Labels(x)
        \/ NoCall
    BY Zenon DEF ConvergeDeliverable, CreatesLabelled, Labels
  <1> HIDE DEF live
  <1>6. "deliverable" \notin Tasks /\ "deliverable" # "campaign"
    BY CampaignAssumption
  <1>7. PICK c \in tenant : c.id = project /\ c.origin = "campaign"
    BY <1>1, <1>2 DEF ProjectThere
  <1>8. Shape' /\ ComesFrom /\ Carries
    <2>1. CASE /\ live = {}
               /\ CreatesLabelled("deliverable", project, plan["deliverable"].value)
      <3>1. /\ "deliverable" \in Entities /\ project \in 0 .. lastId
            /\ plan["deliverable"].value \in Values
        BY <1>1, ConstantsTyped DEF RunInv, Change
      <3>2. PICK y : /\ tenant' = tenant \cup {y} /\ lastId' = lastId + 1
                     /\ y.id = lastId + 1 /\ y.parent = project
                     /\ y.origin = "deliverable" /\ y.handle
        BY <1>1, <2>1, <3>1, CreateLabels
      <3>3. \A x \in tenant : x.origin # "deliverable"
        <4> SUFFICES ASSUME NEW x \in tenant, x.origin = "deliverable" PROVE FALSE
          OBVIOUS
        <4>1. x.handle /\ Under(x, "campaign")
          BY <1>1, <1>6 DEF Shape, Tree, Rooted, AllLabelled
        <4>2. PICK d \in tenant : d.id = x.parent /\ d.origin = "campaign"
          BY <4>1 DEF Under
        <4>3. d = c
          BY <1>1, <1>7, <4>2, CampaignAssumption DEF Shape, OneEach
        <4> QED
          BY <1>4, <1>7, <2>1, <4>1, <4>2, <4>3 DEF Children
      <3>4. Rooted(y)
        <4>1. project # 0
          BY <1>1, <1>7 DEF StoreInv, Records
        <4> QED
          BY <1>6, <1>7, <3>2, <4>1 DEF Rooted, Under
      <3>5. Shape'
        BY <1>1, <3>2, <3>3, <3>4, AddShape
      <3>6. Carries
        BY <3>2 DEF Carries
      <3> QED
        BY <3>2, <3>5, <3>6, AddComes
    <2>2. CASE \E x \in live : Labels(x)
      <3>1. PICK x \in live : Labels(x)
        BY <2>2
      <3>2. x \in tenant
        BY <1>3, <1>4
      <3>3. PICK y : /\ tenant' = (tenant \ {x}) \cup {y} /\ lastId' = lastId
                     /\ y.id = x.id /\ y.parent = x.parent /\ y.origin = x.origin
                     /\ y.title = title[x.origin] /\ y.value = plan[x.origin].value
                     /\ y.handle
        BY <1>1, <3>1, <3>2, PutLabels
      <3>4. Carries
        BY <1>1, <3>1, <3>2, Zenon, PutReplaces, ReplaceCarries DEF Puts, Labels
      <3> QED
        BY <1>1, <3>2, <3>3, <3>4, SwapShape, SwapComes
    <2>3. CASE NoCall
      BY <1>1, <2>3, SameComes, NoCallCarries
    <2> QED
      BY <1>5, <2>1, <2>2, <2>3
  <1>9. LinkingNamed'
    <2>1. Waiting' = Waiting
      BY <1>2 DEF Waiting
    <2> QED
      BY <1>1, <1>2, <1>8, <2>1, NamedStays DEF ComesFrom
  <1>10. ProjectThere'
    BY <1>1, <1>2, <1>8, ProjectStays
  <1> QED
    BY <1>8, <1>9, <1>10 DEF ShapeInv

LEMMA WaitingGrows ==
    ASSUME TypeInv, NEW i, NEW T, i \in T, Ids(tenant) \subseteq T,
           linking' = linking \/ linking' = Append(linking, i)
    PROVE  Waiting' \subseteq Waiting \cup {i}
  <1>1. linking \in Seq(T)
    BY MoreMembers DEF TypeInv, Listed
  <1>2. CASE linking' = linking
    BY <1>2 DEF Waiting
  <1>3. CASE linking' = Append(linking, i)
    <2>1. /\ Len(linking') = Len(linking) + 1 /\ Len(linking) \in Nat
          /\ linking'[Len(linking) + 1] = i
          /\ \A k \in 1 .. Len(linking) : linking'[k] = linking[k]
          /\ DOMAIN linking = 1 .. Len(linking)
          /\ DOMAIN (linking') = 1 .. Len(linking')
      BY <1>1, <1>3, AppendProperties, LenProperties
    <2>2. \A k \in DOMAIN (linking') : k \in 1 .. Len(linking) \/ k = Len(linking) + 1
      BY <2>1
    <2> QED
      BY <2>1, <2>2 DEF Waiting
  <1> QED
    BY <1>2, <1>3

LEMMA WaitingShrinks ==
    ASSUME TypeInv, linking # <<>>, linking' = Tail(linking)
    PROVE  Waiting' \subseteq Waiting
  <1>1. linking \in Seq(Ids(tenant))
    BY DEF TypeInv, Listed
  <1>2. /\ Len(linking) \in Nat
        /\ DOMAIN linking = 1 .. Len(linking)
        /\ DOMAIN (linking') = 1 .. Len(linking) - 1
        /\ \A k \in 1 .. Len(linking) - 1 : linking'[k] = linking[k + 1]
    BY <1>1, HeadTailProperties, LenProperties
  <1>3. \A k \in 1 .. Len(linking) - 1 : k + 1 \in 1 .. Len(linking)
    BY <1>2
  <1> QED
    BY <1>2, <1>3 DEF Waiting

LEMMA WritingKeepsShape ==
    ASSUME TypeInv, TaskInv, ShapeInv, WriteTask
    PROVE  ShapeInv'
  <1>1. /\ StoreInv /\ RecipeInv /\ RunInv /\ Shape /\ LinkingNamed /\ ProjectThere
        /\ ParentThere
    BY DEF TypeInv, ShapeInv, WriteTask, TaskInv, ParentHeld, Working
  <1>2. /\ pc = "tasks" /\ todo # <<>> /\ UNCHANGED <<title, project, parent>>
        /\ pc' \in {"tasks", "stamp"}
    BY DEF WriteTask, Rest, recipe, AfterCreate
  <1>3. /\ This \in Tasks /\ This \in Entities
        /\ This # "campaign" /\ This # "deliverable"
    BY <1>1, <1>2, HeadOfTodo, CampaignAssumption
  <1>4. CASE WithoutParent
    <2>1. Waiting' = Waiting
      BY <1>4 DEF WithoutParent, Waiting
    <2>2. Shape' /\ ComesFrom /\ Carries /\ pc' = pc
      BY <1>1, <1>4, SameComes, NoCallCarries DEF WithoutParent
    <2>3. LinkingNamed'
      BY <1>1, <1>2, <2>1, <2>2, NamedStays DEF ComesFrom
    <2> QED
      BY <1>1, <1>2, <2>2, <2>3, ProjectStays DEF ShapeInv
  <1>5. CASE OntoExisting
    <2>1. PICK x \in Children(parent, This) : Puts(x) /\ Written(x.id)
      BY <1>5 DEF OntoExisting
    <2>2. x \in tenant /\ x.parent = parent /\ x.origin = This
      BY DEF Children
    <2>3. Replaced(x)
      BY <1>1, <2>1, <2>2, PutReplaces
    <2>4. PICK y : /\ tenant' = (tenant \ {x}) \cup {y}
                   /\ y.id = x.id /\ y.parent = x.parent /\ y.origin = x.origin
                   /\ y.title = title[x.origin]
      BY <2>3 DEF Replaced
    <2>5. Shape' /\ Carries
      BY <1>1, <1>3, <2>2, <2>3, <2>4, SwapShape, ReplaceCarries
    <2>6. Waiting' \subseteq Waiting \cup {x.id} /\ pc' = pc
      <3>1. x.id \in Ids(tenant)
        BY <2>2 DEF Ids
      <3> QED
        BY <1>5, <2>1, <3>1, WaitingGrows DEF Written, OntoExisting
    <2>7. LinkingNamed'
      <3> SUFFICES ASSUME NEW z \in tenant', z.id \in Waiting'
                   PROVE  z.origin \in Tasks /\ (z.handle \/ z.title = title'[z.origin])
        BY <1>2, <2>6 DEF LinkingNamed, Known
      <3>1. CASE z = y
        BY <1>2, <1>3, <2>2, <2>4, <3>1
      <3>2. CASE z # y
        <4>1. z \in tenant /\ z # x
          BY <2>4, <3>2
        <4>2. z.id # x.id
          BY <1>1, <2>2, <4>1 DEF StoreInv, UniqueIds
        <4> QED
          BY <1>1, <1>2, <2>6, <4>1, <4>2 DEF LinkingNamed, Known
      <3> QED
        BY <3>1, <3>2
    <2> QED
      BY <1>1, <1>2, <2>5, <2>7, ProjectStays DEF ShapeInv
  <1>7. CASE AdoptedAsIs
    <2>1. PICK x \in Children(parent, This) : x.handle /\ Written(x.id)
      BY <1>7 DEF AdoptedAsIs
    <2>2. x \in tenant /\ x.origin = This
      BY DEF Children
    <2>3. Shape' /\ Carries /\ pc' = pc /\ tenant' = tenant
      BY <1>1, <1>7, SameComes, NoCallCarries DEF AdoptedAsIs, NoCall
    <2>4. Waiting' \subseteq Waiting \cup {x.id}
      <3>1. x.id \in Ids(tenant)
        BY <2>2 DEF Ids
      <3> QED
        BY <2>1, <3>1, WaitingGrows DEF Written
    <2>5. LinkingNamed'
      <3> SUFFICES ASSUME NEW z \in tenant', z.id \in Waiting'
                   PROVE  z.origin \in Tasks /\ (z.handle \/ z.title = title'[z.origin])
        BY <1>2, <2>3 DEF LinkingNamed, Known
      <3>1. CASE z.id = x.id
        BY <1>1, <1>3, <2>1, <2>2, <2>3, <3>1 DEF StoreInv, UniqueIds
      <3>2. CASE z.id # x.id
        BY <1>1, <1>2, <2>3, <2>4, <3>2 DEF LinkingNamed, Known
      <3> QED
        BY <3>1, <3>2
    <2> QED
      BY <1>1, <1>2, <2>3, <2>5, ProjectStays DEF ShapeInv
  <1>6. CASE AsNew
    <2>1. Blank \in Values /\ parent \in 0 .. lastId
      BY <1>1, ConstantsTyped DEF RunInv
    <2>2. Added(This, parent, Blank)
      BY <1>1, <1>3, <1>6, <2>1, CreateAdds DEF AsNew
    <2>3. PICK y : /\ tenant' = tenant \cup {y} /\ lastId' = lastId + 1
                   /\ y.id = lastId + 1 /\ y.parent = parent /\ y.origin = This
                   /\ y.title = title[This]
      BY <2>2 DEF Added
    <2>4. Rooted(y)
      <3>1. parent # 0 /\ Under(y, "deliverable")
        BY <1>1, <1>6, <2>3 DEF AsNew, ParentThere, Under
      <3> QED
        BY <1>3, <2>3, <3>1 DEF Rooted
    <2>5. Shape' /\ Carries
      BY <1>1, <1>3, <2>2, <2>3, <2>4, AddShape, AddCarries
    <2>6. Waiting' \subseteq Waiting \cup {lastId + 1}
      <3> DEFINE T == Ids(tenant) \cup {lastId + 1}
      <3>1. lastId + 1 \in T /\ Ids(tenant) \subseteq T
        OBVIOUS
      <3> HIDE DEF T
      <3>2. linking' = linking \/ linking' = Append(linking, lastId + 1)
        BY <1>6, <2>3 DEF AsNew, Written
      <3> QED
        BY <3>1, <3>2, WaitingGrows
    <2>7. LinkingNamed'
      <3> SUFFICES ASSUME NEW z \in tenant',
                          z.id \in Waiting' \/ z.id = target'
                   PROVE  z.origin \in Tasks /\ (z.handle \/ z.title = title'[z.origin])
        BY DEF LinkingNamed, Known
      <3>1. CASE z = y
        BY <1>2, <1>3, <2>3, <3>1
      <3>2. CASE z # y
        <4>1. z \in tenant
          BY <2>3, <3>2
        <4>2. z.id # lastId + 1 /\ target' = lastId + 1
          BY <1>1, <1>6, <2>3, <4>1 DEF StoreInv, Records, AsNew
        <4> QED
          BY <1>1, <1>2, <2>6, <4>1, <4>2 DEF LinkingNamed, Known
      <3> QED
        BY <3>1, <3>2
    <2> QED
      BY <1>1, <1>2, <2>5, <2>7, ProjectStays DEF ShapeInv
  <1> QED
    BY <1>1, <1>4, <1>5, <1>6, <1>7, TaskCases

(* Completing and linking touch tasks that were written before.            *)
LEMMA LinkingKeepsShape ==
    ASSUME TypeInv, ShapeInv, StampTask \/ LinkTask \/ StartLinking \/ StartCapture
    PROVE  ShapeInv'
  <1>1. /\ StoreInv /\ RecipeInv /\ RunInv /\ Shape /\ LinkingNamed /\ ProjectThere
        /\ Listed
    BY DEF TypeInv, ShapeInv
  <1>2. /\ pc \in {"stamp", "link", "tasks"} /\ pc' \in {"tasks", "link", "capture"}
        /\ UNCHANGED <<title, project>>
    BY DEF StampTask, LinkTask, StartLinking, StartCapture, Rest, recipe
  <1>3. Waiting' \subseteq Waiting
    <2>1. CASE LinkTask
      BY <2>1, WaitingShrinks DEF LinkTask
    <2>2. CASE StampTask \/ StartLinking \/ StartCapture
      BY <2>2 DEF StampTask, StartLinking, StartCapture, Waiting
    <2> QED
      BY <2>1, <2>2
  <1>4. ASSUME NEW x \in tenant, x.origin \in Tasks, Puts(x)
        PROVE  Shape' /\ Carries /\ ComesFrom
    <2>1. Replaced(x)
      BY <1>1, <1>4, PutReplaces
    <2>2. PICK y : /\ tenant' = (tenant \ {x}) \cup {y}
                   /\ y.id = x.id /\ y.parent = x.parent /\ y.origin = x.origin
                   /\ y.title = title[x.origin]
      BY <2>1 DEF Replaced
    <2> QED
      BY <1>1, <1>4, <2>1, <2>2, SwapShape, SwapComes, ReplaceCarries
  <1>5. Shape' /\ Carries /\ ComesFrom
    <2>1. CASE NoCall
      BY <1>1, <2>1, SameComes, NoCallCarries
    <2>2. CASE StampTask /\ ~NoCall
      <3>1. /\ Record(target) \in tenant /\ Record(target).id = target
            /\ pc = "stamp"
        BY <1>1, <2>2, RecordIn DEF Listed, StampTask
      <3>2. Record(target).origin \in Tasks
        BY <1>1, <3>1 DEF LinkingNamed
      <3>3. Puts(Record(target))
        BY <2>2, PartPuts DEF StampTask, PutsOrNot
      <3> QED
        BY <1>4, <3>1, <3>2, <3>3
    <2>3. CASE LinkTask /\ ~NoCall
      <3>1. linking # <<>>
        BY <2>3 DEF LinkTask
      <3>2. Head(linking) \in Ids(tenant) /\ Head(linking) \in Waiting
        <4>1. linking \in Seq(Ids(tenant))
          BY <1>1 DEF Listed
        <4>2. Head(linking) = linking[1] /\ 1 \in DOMAIN linking
          BY <3>1, <4>1, EmptySeq, LenProperties, HeadTailProperties
        <4> QED
          BY <3>1, <4>1, <4>2, HeadTailProperties DEF Waiting
      <3>3. /\ Record(Head(linking)) \in tenant
            /\ Record(Head(linking)).id = Head(linking)
        BY <3>2, RecordIn
      <3>4. Record(Head(linking)).origin \in Tasks
        BY <1>1, <3>2, <3>3 DEF LinkingNamed
      <3>5. Puts(Record(Head(linking)))
        BY <2>3, PartPuts DEF LinkTask, PutsOrNot
      <3> QED
        BY <1>4, <3>3, <3>4, <3>5
    <2>4. CASE StartLinking \/ StartCapture
      BY <2>1, <2>4 DEF StartLinking, StartCapture
    <2> QED
      BY <2>1, <2>2, <2>3, <2>4
  <1>6. LinkingNamed'
    BY <1>1, <1>2, <1>3, <1>5, NamedStays DEF ComesFrom
  <1>7. ProjectThere'
    BY <1>1, <1>2, <1>5, ProjectStays
  <1> QED
    BY <1>5, <1>6, <1>7 DEF ShapeInv

LEMMA EditKeepsShape ==
    ASSUME TypeInv, ShapeInv, NEW x \in tenant, AuthorEdit(x)
    PROVE  ShapeInv'
  <1>1. StoreInv /\ Shape /\ LinkingNamed /\ ProjectThere
    BY DEF TypeInv, ShapeInv
  <1>2. UNCHANGED <<title, pc, target, linking, project>>
    BY DEF AuthorEdit, recipe, progress
  <1>3. PICK y : /\ tenant' = (tenant \ {x}) \cup {y}
                 /\ y.id = x.id /\ y.parent = x.parent /\ y.origin = x.origin
                 /\ y.title = x.title /\ y.handle = x.handle
    BY <1>1, EditEffect
  <1>4. x.origin \in Tasks \/ y.handle
    BY <1>1, <1>3 DEF Shape, AllLabelled
  <1>5. Shape' /\ ComesFrom
    BY <1>1, <1>3, <1>4, SwapShape, SwapComes
  <1>6. Waiting' = Waiting
    BY <1>2 DEF Waiting
  <1>7. LinkingNamed'
    BY <1>1, <1>2, <1>5, <1>6, NamedStays DEF ComesFrom
  <1>8. ProjectThere'
    <2>1. CASE pc = "idle"
      BY <1>2, <2>1 DEF ProjectThere
    <2>2. CASE pc # "idle"
      <3>1. Carries
        BY <1>1, <2>2, EditCarries
      <3> QED
        BY <1>1, <1>2, <3>1, ProjectStays
    <2> QED
      BY <2>1, <2>2
  <1> QED
    BY <1>5, <1>7, <1>8 DEF ShapeInv

LEMMA ShapeStays ==
    ASSUME TypeInv, Idle, TaskInv, AdoptInv, ShapeInv, [Next]_vars
    PROVE  ShapeInv'
  <1>1. CASE ResolveProject
    BY <1>1, ProjectKeepsShape
  <1>2. CASE ConvergeDeliverable
    BY <1>2, DeliverableKeepsShape
  <1>3. CASE WriteTask
    BY <1>3, WritingKeepsShape
  <1>4. CASE StampTask \/ LinkTask \/ StartLinking \/ StartCapture
    BY <1>4, LinkingKeepsShape
  <1>5. CASE \E x \in tenant : AuthorEdit(x)
    BY <1>5, EditKeepsShape
  <1>6. ASSUME NoCall, pc' \in {"idle", "project"},
               linking' = <<>> \/ UNCHANGED <<linking, title>>
        PROVE  ShapeInv'
    <2>1. Shape'
      BY <1>6, SameComes DEF ShapeInv
    <2>2. Waiting' = {} \/ (Waiting' = Waiting /\ UNCHANGED title)
      BY <1>6 DEF Waiting
    <2>3. LinkingNamed'
      BY <1>6, <2>2 DEF ShapeInv, LinkingNamed, Known, NoCall
    <2> QED
      BY <1>6, <2>1, <2>3 DEF ShapeInv, ProjectThere
  <1>7. CASE Capture \/ Stop
    BY <1>6, <1>7 DEF Capture, Stop, Over
  <1>8. CASE \E o \in Options : StartPush(o)
    BY <1>6, <1>8 DEF StartPush, NoCall, recipe
  <1>9. CASE Revise
    BY <1>6, <1>9 DEF Revise, NoCall, progress
  <1>10. CASE \E e \in Entities, n \in 1 .. Titles : Rename(e, n)
    BY <1>6, <1>10 DEF Rename, NoCall, progress, Idle
  <1>11. CASE AuthorDelete
    BY <1>11 DEF AuthorDelete, ShapeInv, Shape, OneEach, AllLabelled, Tree,
                 ProjectThere, LinkingNamed
  <1>12. CASE UNCHANGED vars
    <2>1. NoCall /\ UNCHANGED <<linking, title, pc, target, project>>
      BY <1>12 DEF vars, NoCall, recipe, progress
    <2>2. Shape'
      BY <2>1, SameComes DEF ShapeInv
    <2> QED
      BY <2>1, <2>2 DEF ShapeInv, ProjectThere, LinkingNamed, Known, Waiting, NoCall
  <1> QED
    BY <1>1, <1>2, <1>3, <1>4, <1>5, <1>7, <1>8, <1>9, <1>10, <1>11, <1>12
       DEF Next, Apply

-----------------------------------------------------------------------------
(* Edits since a baseline.                                                 *)

Sole(x) == Children(x.parent, x.origin) = {x}

(* The baseline remembers another value where somebody has edited since.   *)
GuardedMoved ==
    \A x \in tenant :
        x.id \in guarded =>
            At(baseline.cells, DesiredPath(x.origin)) \notin {Missing, AuthorValue}

Careful(o) == o.keyed /\ o.policy # "recipe-wins"

(* A push that minds such edits either writes the edit itself, or does not *)
(* know the record for one of the recipe's.                                *)
EditHeld ==
    pc # "idle" /\ Careful(options) =>
        \A x \in tenant :
            x.id \in guarded /\ x.value = AuthorValue /\ Sole(x) =>
                \/ plan[x.origin].value = AuthorValue
                \/ ~x.handle /\ x.title # title[x.origin]

EditInv == GuardedMoved /\ EditHeld

LEMMA OneOnly ==
    ASSUME StoreInv, NEW x \in tenant, NEW e,
           x.handle \/ x.title = title[e]
    PROVE  Found(e, {x}) = {x}
  <1>1. {x} \subseteq tenant
    OBVIOUS
  <1>2. Found(e, {x}) \subseteq {x} /\ Found(e, {x}) # {}
    BY <1>1, FoundIn
  <1> QED
    BY <1>2

(* What the plan finds of a sole record that the recipe knows.             *)

(* What the plan finds of a record that the recipe knows.                  *)
LEMMA TheCampaign ==
    ASSUME TypeInv, Shape, NEW c \in tenant, c.origin = "campaign"
    PROVE  Read(TRUE) = {c}
  <1>1. "campaign" \notin Tasks
    BY CampaignAssumption
  <1>2. c.parent = 0 /\ c.handle
    BY <1>1 DEF Shape, Tree, Rooted, AllLabelled
  <1>3. Children(0, "campaign") = {c}
    BY <1>1, <1>2 DEF Children, Shape, OneEach
  <1>4. Found("campaign", {c}) = {c}
    BY <1>2, OneOnly DEF TypeInv
  <1> QED
    BY <1>3, <1>4 DEF Read

LEMMA TheDeliverable ==
    ASSUME TypeInv, Shape, NEW d \in tenant, d.origin = "deliverable"
    PROVE  Current(Read(TRUE), "deliverable") = {d}
  <1>1. "campaign" \notin Tasks /\ "deliverable" \notin Tasks
    BY CampaignAssumption
  <1>2. d.handle /\ Under(d, "campaign")
    BY <1>1 DEF Shape, Tree, Rooted, AllLabelled
  <1>3. PICK c \in tenant : c.id = d.parent /\ c.origin = "campaign"
    BY <1>2 DEF Under
  <1>4. Read(TRUE) = {c}
    BY <1>3, TheCampaign
  <1>5. Children(c.id, "deliverable") = {d}
    BY <1>1, <1>3 DEF Children, Shape, OneEach
  <1>6. Found("deliverable", {d}) = {d}
    BY <1>2, OneOnly DEF TypeInv
  <1>7. {Found("deliverable", Children(p.id, "deliverable")) : p \in {c}} = {{d}}
    BY <1>5, <1>6
  <1> QED
    BY <1>4, <1>7 DEF Current

LEMMA TheTask ==
    ASSUME TypeInv, Shape, NEW x \in tenant, x.origin \in Tasks, Sole(x),
           x.handle \/ x.title = title[x.origin]
    PROVE  Current(Read(TRUE), x.origin) = {x}
  <1>1. x.origin # "campaign" /\ x.origin # "deliverable"
    BY CampaignAssumption
  <1>2. PICK d \in tenant : d.id = x.parent /\ d.origin = "deliverable"
    BY DEF Shape, Tree, Rooted, Under
  <1>3. Current(Read(TRUE), "deliverable") = {d}
    BY <1>2, TheDeliverable
  <1>4. Children(d.id, x.origin) = {x}
    BY <1>2 DEF Sole
  <1>5. Found(x.origin, {x}) = {x}
    BY OneOnly DEF TypeInv
  <1>6. {Found(x.origin, Children(p.id, x.origin)) : p \in {d}} = {{x}}
    BY <1>4, <1>5
  <1>7. UNION {Found("deliverable", Children(p.id, "deliverable")) : p \in Read(TRUE)} = {d}
    BY <1>3 DEF Current
  <1> QED
    BY <1>1, <1>6, <1>7 DEF Current

LEMMA KnownIsCurrent ==
    ASSUME TypeInv, Shape, NEW x \in tenant, Sole(x),
           x.handle \/ x.title = title[x.origin]
    PROVE  Current(Read(TRUE), x.origin) = {x}
  <1>1. x.origin \in Entities
    BY DEF TypeInv, StoreInv, Records
  <1>2. CASE x.origin = "campaign"
    BY <1>2, TheCampaign DEF Current
  <1>3. CASE x.origin = "deliverable"
    BY <1>3, TheDeliverable
  <1>4. CASE x.origin \in Tasks
    BY <1>4, TheTask
  <1> QED
    BY <1>1, <1>2, <1>3, <1>4 DEF Entities

(* The cells at its path are its own.                                      *)
LEMMA CellIsOwn ==
    ASSUME TypeInv, Shape, NEW x \in tenant, Sole(x),
           NEW c \in Cells(Read(TRUE)), c.path = DesiredPath(x.origin)
    PROVE  c.value = x.value /\ c.id = x.id
  <1> DEFINE P == Read(TRUE)
             above == Current(P, "deliverable")
             members == P \cup above \cup
                        {m \in tenant : \E d \in above : m.parent = d.id}
             over(m) == {d.title : d \in {y \in above : y.id = m.parent}}
  <1>1. PICK m \in members :
           c = [path |-> Path(m.origin, m.title,
                              IF over(m) = {} THEN 0 ELSE CHOOSE n \in over(m) : TRUE),
                value |-> m.value, id |-> m.id]
    BY DEF Cells
  <1>2. m.origin = x.origin
    <2>1. c.path[1] = m.origin
      BY <1>1 DEF Path
    <2>2. c.path[1] = x.origin
      BY DEF DesiredPath, Path
    <2> QED
      BY <2>1, <2>2
  <1>3. P \subseteq tenant /\ above \subseteq tenant
    <2>1. P \subseteq tenant
      BY ReadIn DEF TypeInv
    <2>2. "deliverable" \in Entities
      BY ConstantsTyped
    <2> QED
      BY <2>1, <2>2, CurrentIn DEF TypeInv
  <1>4. m \in tenant
    BY <1>3
  <1>5. CASE x.origin \notin Tasks
    BY <1>1, <1>2, <1>4, <1>5 DEF Shape, OneEach
  <1>6. CASE x.origin \in Tasks
    <2>1. x.origin # "campaign" /\ x.origin # "deliverable" /\ "deliverable" \notin Tasks
      BY <1>6, CampaignAssumption
    <2>2. PICK d \in tenant : d.id = x.parent /\ d.origin = "deliverable"
      BY <1>6 DEF Shape, Tree, Rooted, Under
    <2>3. above = {d}
      BY <2>2, TheDeliverable
    <2>4. m \notin P
      BY <1>2, <2>1, ReadIn DEF TypeInv, Children
    <2>5. m # d
      BY <1>2, <2>1, <2>2
    <2>6. m.parent = d.id
      BY <2>3, <2>4, <2>5
    <2>7. m \in Children(x.parent, x.origin)
      BY <1>2, <1>4, <2>2, <2>6 DEF Children
    <2>8. m = x
      BY <2>7 DEF Sole
    <2> QED
      BY <1>1, <2>8
  <1> QED
    BY <1>5, <1>6

LEMMA AtItsPath ==
    ASSUME TypeInv, Shape, NEW x \in tenant, Sole(x)
    PROVE  At(Cells(Read(TRUE)), DesiredPath(x.origin)) \in {Missing, x.value}
  <1> DEFINE here == {c \in Cells(Read(TRUE)) : c.path = DesiredPath(x.origin)}
  <1>1. \A c \in here : c.value = x.value /\ c.id = x.id
    BY CellIsOwn
  <1>2. x.id \in Nat /\ x.id <= x.id
    BY DEF TypeInv, StoreInv, Records
  <1>3. CASE here = {}
    BY <1>3 DEF At
  <1>4. CASE here # {}
    <2>1. \E c \in here : \A d \in here : d.id <= c.id
      BY <1>1, <1>2, <1>4
    <2> DEFINE last == CHOOSE c \in here : \A d \in here : d.id <= c.id
    <2>2. last \in here
      BY <2>1
    <2> HIDE DEF last
    <2>3. last.value = x.value
      BY <1>1, <2>2
    <2> USE DEF last
    <2>4. At(Cells(Read(TRUE)), DesiredPath(x.origin)) = last.value
      BY <1>4 DEF At
    <2> QED
      BY <2>3, <2>4
  <1> QED
    BY <1>3, <1>4

(* What a step of a push does to the tenant.                               *)
Called ==
    \/ NoCall
    \/ \E x \in tenant : Known(x) /\ Replaced(x)
    \/ \E e \in Entities, above \in 0 .. lastId, v \in Values : Added(e, above, v)

LEMMA CallsOfWriting ==
    ASSUME TypeInv, WriteTask
    PROVE  Called
  <1>1. StoreInv /\ RecipeInv /\ RunInv /\ todo # <<>>
    BY DEF TypeInv, WriteTask
  <1>2. CASE WithoutParent \/ AdoptedAsIs
    BY <1>2 DEF WithoutParent, AdoptedAsIs, Called
  <1>3. CASE OntoExisting
    <2>1. PICK x \in Children(parent, This) :
             Puts(x) /\ (x.handle \/ x.title = title[This])
      BY <1>3 DEF OntoExisting
    <2>2. x \in tenant /\ x.origin = This
      BY DEF Children
    <2>3. Replaced(x)
      BY <1>1, <2>1, <2>2, PutReplaces
    <2> QED
      BY <2>1, <2>2, <2>3 DEF Called, Known
  <1>4. CASE AsNew
    <2>1. Blank \in Values /\ parent \in 0 .. lastId /\ This \in Entities
      BY <1>1, ConstantsTyped, HeadOfTodo DEF RunInv
    <2>2. Added(This, parent, Blank)
      BY <1>1, <1>4, <2>1, CreateAdds DEF AsNew
    <2> QED
      BY <2>1, <2>2 DEF Called
  <1> QED
    BY <1>1, <1>2, <1>3, <1>4, TaskCases

LEMMA CallsOfLinking ==
    ASSUME TypeInv, ShapeInv, StampTask \/ LinkTask
    PROVE  Called
  <1>1. /\ StoreInv /\ RecipeInv /\ RunInv /\ Listed /\ LinkingNamed
    BY DEF TypeInv, ShapeInv
  <1>2. ASSUME NEW x \in tenant, Puts(x),
               x.id \in Waiting \/ (pc = "stamp" /\ x.id = target)
        PROVE  Called
    <2>1. Known(x)
      BY <1>1, <1>2 DEF LinkingNamed
    <2>2. Replaced(x)
      BY <1>1, <1>2, PutReplaces
    <2> QED
      BY <2>1, <2>2 DEF Called
  <1>3. CASE StampTask
    <2>1. /\ Record(target) \in tenant /\ Record(target).id = target
          /\ pc = "stamp"
      BY <1>1, <1>3, RecordIn DEF Listed, StampTask
    <2>2. Puts(Record(target)) \/ NoCall
      BY <1>3, PartPuts DEF StampTask, PutsOrNot
    <2> QED
      BY <1>2, <2>1, <2>2 DEF Called
  <1>4. CASE LinkTask
    <2>1. linking # <<>>
      BY <1>4 DEF LinkTask
    <2>2. Head(linking) \in Ids(tenant) /\ Head(linking) \in Waiting
      <3>1. linking \in Seq(Ids(tenant))
        BY <1>1 DEF Listed
      <3>2. Head(linking) = linking[1] /\ 1 \in DOMAIN linking
        BY <2>1, <3>1, EmptySeq, LenProperties, HeadTailProperties
      <3> QED
        BY <2>1, <3>1, <3>2, HeadTailProperties DEF Waiting
    <2>3. /\ Record(Head(linking)) \in tenant
          /\ Record(Head(linking)).id = Head(linking)
      BY <2>2, RecordIn
    <2>4. Puts(Record(Head(linking))) \/ NoCall
      BY <1>4, PartPuts DEF LinkTask, PutsOrNot
    <2>5. CASE Puts(Record(Head(linking)))
      BY <1>2, <2>2, <2>3, <2>5
    <2>6. CASE NoCall
      BY <2>6 DEF Called
    <2> QED
      BY <2>4, <2>5, <2>6
  <1> QED
    BY <1>3, <1>4

LEMMA CallsOfConverging ==
    ASSUME TypeInv, ShapeInv, ResolveProject \/ ConvergeDeliverable
    PROVE  Called
  <1>1. StoreInv /\ RecipeInv /\ RunInv /\ Shape
    BY DEF TypeInv, ShapeInv
  <1> DEFINE all == Children(project, "deliverable")
             live == Found("deliverable", all)
  <1>2. /\ {"campaign", "deliverable"} \subseteq Entities
        /\ plan["campaign"].value \in Values /\ plan["deliverable"].value \in Values
        /\ 0 \in 0 .. lastId /\ project \in 0 .. lastId
    BY <1>1, ConstantsTyped DEF StoreInv, RunInv, Change
  <1>3. ASSUME NEW x \in tenant, x.origin \notin Tasks, Puts(x)
        PROVE  Called
    <2>1. Known(x) /\ Replaced(x)
      BY <1>1, <1>3, PutReplaces DEF Shape, AllLabelled, Known
    <2> QED
      BY <2>1 DEF Called
  <1>4. CASE ResolveProject
    <2>1. \/ Creates("campaign", 0, plan["campaign"].value)
          \/ \E x \in Adopted : Puts(x)
          \/ NoCall
      BY <1>4, Zenon DEF ResolveProject, Creates, Puts
    <2>2. \A x \in Adopted : x \in tenant /\ x.origin \notin Tasks
      BY <1>1, AdoptedIn, CampaignAssumption DEF Children
    <2>3. CASE Creates("campaign", 0, plan["campaign"].value)
      BY <1>1, <1>2, <2>3, CreateAdds DEF Called
    <2>4. CASE NoCall
      BY <2>4 DEF Called
    <2> QED
      BY <1>3, <2>1, <2>2, <2>3, <2>4
  <1>5. CASE ConvergeDeliverable
    <2>1. \/ Creates("deliverable", project, plan["deliverable"].value)
          \/ \E x \in live : Puts(x)
          \/ NoCall
      BY <1>5, Zenon DEF ConvergeDeliverable, Creates, Puts
    <2>2. \A x \in live : x \in tenant /\ x.origin \notin Tasks
      <3>1. all \subseteq tenant
        BY DEF Children
      <3>2. live \subseteq all
        BY <1>1, <3>1, FoundIn
      <3> QED
        BY <3>1, <3>2, CampaignAssumption DEF Children
    <2> HIDE DEF live
    <2>3. CASE Creates("deliverable", project, plan["deliverable"].value)
      BY <1>1, <1>2, <2>3, CreateAdds DEF Called
    <2>4. CASE NoCall
      BY <2>4 DEF Called
    <2> QED
      BY <1>3, <2>1, <2>2, <2>3, <2>4
  <1> QED
    BY <1>4, <1>5

(* Whoever stays as he is and is alone afterwards was alone before.        *)
LEMMA StillSole ==
    ASSUME NEW x \in tenant, NEW y, tenant' = (tenant \ {x}) \cup {y},
           y.parent = x.parent, y.origin = x.origin,
           NEW z \in tenant', z # y, Sole(z)'
    PROVE  Sole(z) /\ z \in tenant
  <1>1. \A w \in tenant : w = x \/ w \in tenant'
    OBVIOUS
  <1>2. y \in tenant' /\ z \in tenant
    OBVIOUS
  <1>3. \A w \in tenant' : w.parent = z.parent /\ w.origin = z.origin => w = z
    BY DEF Sole, Children
  <1>4. \A w \in tenant : w.parent = z.parent /\ w.origin = z.origin => w = z
    BY <1>1, <1>2, <1>3
  <1> QED
    BY <1>2, <1>4 DEF Sole, Children

LEMMA PushKeepsEdits ==
    ASSUME TypeInv, EditInv, Called, pc # "idle",
           UNCHANGED <<title, plan, options, baseline, guarded>>
    PROVE  EditInv'
  <1>1. StoreInv /\ GuardedMoved /\ EditHeld /\ guarded \subseteq 1 .. lastId
    BY DEF TypeInv, EditInv, RunInv
  <1>2. CASE NoCall
    <2>1. tenant' = tenant
      BY <1>2 DEF NoCall
    <2>2. GuardedMoved'
      BY <1>1, <2>1 DEF GuardedMoved, DesiredPath
    <2>3. EditHeld'
      BY <1>1, <2>1 DEF EditHeld, Sole, Children
    <2> QED
      BY <2>2, <2>3 DEF EditInv
  <1>3. CASE \E x \in tenant : Known(x) /\ Replaced(x)
    <2>1. PICK x \in tenant : Replaced(x)
      BY <1>3
    <2>2. PICK y : /\ tenant' = (tenant \ {x}) \cup {y}
                   /\ y.id = x.id /\ y.parent = x.parent /\ y.origin = x.origin
                   /\ y.value = plan[x.origin].value
      BY <2>1 DEF Replaced
    <2>3. \A z \in tenant' : z = y \/ z \in tenant
      BY <2>2
    <2>4. GuardedMoved'
      BY <1>1, <2>2, <2>3 DEF GuardedMoved, DesiredPath
    <2>5. EditHeld'
      <3> SUFFICES ASSUME Careful(options), NEW z \in tenant',
                          z.id \in guarded, z.value = AuthorValue, Sole(z)'
                   PROVE  \/ plan[z.origin].value = AuthorValue
                          \/ ~z.handle /\ z.title # title[z.origin]
        BY DEF EditHeld, Careful
      <3>1. CASE z = y
        BY <2>2, <3>1
      <3>2. CASE z # y
        <4>1. Sole(z) /\ z \in tenant
          BY <2>2, <3>2, StillSole
        <4> QED
          BY <1>1, <4>1 DEF EditHeld
      <3> QED
        BY <3>1, <3>2
    <2> QED
      BY <2>4, <2>5 DEF EditInv
  <1>4. CASE \E e \in Entities, above \in 0 .. lastId, v \in Values : Added(e, above, v)
    <2>1. PICK y : tenant' = tenant \cup {y} /\ y.id = lastId + 1
      BY <1>4 DEF Added
    <2>2. /\ \A z \in tenant' : z = y \/ z \in tenant
          /\ \A z \in tenant : z \in tenant'
          /\ y.id \notin guarded
      BY <1>1, <2>1 DEF StoreInv
    <2>3. GuardedMoved'
      BY <1>1, <2>2 DEF GuardedMoved, DesiredPath
    <2>4. \A z \in tenant : Sole(z)' => Sole(z)
      BY <2>2 DEF Sole, Children
    <2>5. EditHeld'
      BY <1>1, <2>2, <2>4 DEF EditHeld, Careful
    <2> QED
      BY <2>3, <2>5 DEF EditInv
  <1> QED
    BY <1>2, <1>3, <1>4 DEF Called

LEMMA PushSparesEdits ==
    ASSUME TypeInv, EditInv, Called, pc # "idle", Careful(options),
           NEW x \in tenant, x.id \in guarded, x.value = AuthorValue, Sole(x),
           NEW y \in tenant', y.id = x.id
    PROVE  y.value = AuthorValue
  <1>1. StoreInv /\ EditHeld
    BY DEF TypeInv, EditInv
  <1>2. \A z \in tenant : z.id = x.id => z = x
    BY <1>1 DEF StoreInv, UniqueIds
  <1>3. CASE NoCall
    BY <1>2, <1>3 DEF NoCall
  <1>4. CASE \E z \in tenant : Known(z) /\ Replaced(z)
    <2>1. PICK z \in tenant : Known(z) /\ Replaced(z)
      BY <1>4
    <2>2. PICK u : /\ tenant' = (tenant \ {z}) \cup {u}
                   /\ u.id = z.id /\ u.value = plan[z.origin].value
      BY <2>1 DEF Replaced
    <2>3. y = u \/ (y \in tenant /\ y # z)
      BY <2>2
    <2>4. CASE y = u
      <3>1. z = x
        BY <1>2, <2>2, <2>4
      <3>2. plan[x.origin].value = AuthorValue
        BY <1>1, <2>1, <3>1 DEF EditHeld, Known
      <3> QED
        BY <2>2, <2>4, <3>1, <3>2
    <2>5. CASE y \in tenant /\ y # z
      BY <1>2, <2>5
    <2> QED
      BY <2>3, <2>4, <2>5
  <1>5. CASE \E e \in Entities, above \in 0 .. lastId, v \in Values : Added(e, above, v)
    <2>1. PICK u : tenant' = tenant \cup {u} /\ u.id = lastId + 1
      BY <1>5 DEF Added
    <2>2. x.id # lastId + 1
      BY <1>1 DEF StoreInv, Records
    <2> QED
      BY <1>2, <2>1, <2>2
  <1> QED
    BY <1>3, <1>4, <1>5 DEF Called

LEMMA StartHoldsEdits ==
    ASSUME TypeInv, ShapeInv, EditInv, NEW o \in Options, StartPush(o)
    PROVE  EditInv'
  <1> DEFINE P == Read(o.keyed)
  <1>1. StoreInv /\ Shape /\ GuardedMoved
    BY DEF TypeInv, ShapeInv, EditInv
  <1>2. /\ options' = o /\ result' = Verdict(o, P)
        /\ UNCHANGED <<tenant, title, baseline, guarded>>
        /\ result' = "none" => pc' = "project" /\ plan' = Planned(o, P)
        /\ result' # "none" => pc' = "idle"
    BY DEF StartPush, recipe
  <1>3. GuardedMoved'
    BY <1>1, <1>2 DEF GuardedMoved, DesiredPath
  <1>4. EditHeld'
    <2> SUFFICES ASSUME pc' # "idle", Careful(o), NEW x \in tenant,
                        x.id \in guarded, x.value = AuthorValue, Sole(x),
                        x.handle \/ x.title = title[x.origin]
                 PROVE  plan'[x.origin].value = AuthorValue
      BY <1>2 DEF EditHeld, Sole, Children
    <2>1. result' = "none" /\ plan' = Planned(o, P)
      BY <1>2
    <2>2. o.keyed = TRUE /\ o.keyed /\ o.policy \in {"error", "cms-wins"}
      BY DEF Options, Careful
    <2>3. P = Read(TRUE)
      BY <2>2
    <2>4. Current(P, x.origin) = {x} /\ x.origin \in Entities
      BY <2>3, KnownIsCurrent DEF TypeInv, ShapeInv, StoreInv, Records
    <2>5. At(Cells(P), DesiredPath(x.origin)) \in {Missing, AuthorValue}
      BY <2>3, AtItsPath DEF ShapeInv
    <2>6. At(baseline.cells, DesiredPath(x.origin)) \notin {Missing, AuthorValue}
      BY <1>1 DEF GuardedMoved
    <2> HIDE DEF P
    <2>7. TenantMoved(x.origin, P)
      BY <2>5, <2>6 DEF TenantMoved
    <2>8. x.origin \in Moved(o, P)
      BY <2>2, <2>4, <2>7 DEF Moved
    <2>9. o.policy = "cms-wins"
      BY <1>2, <2>1, <2>2, <2>8 DEF Verdict
    <2>10. Merged(o, P, x.origin) = x.value
      <3>1. (CHOOSE z \in {x} : TRUE) = x
        OBVIOUS
      <3> QED
        BY <2>4, <2>8, <2>9, <3>1 DEF Merged
    <2> QED
      BY <2>1, <2>4, <2>10 DEF Planned
  <1> QED
    BY <1>3, <1>4 DEF EditInv

LEMMA EditKeepsEdits ==
    ASSUME TypeInv, EditInv, NEW x \in tenant, AuthorEdit(x)
    PROVE  EditInv'
  <1>1. StoreInv /\ GuardedMoved /\ EditHeld
    BY DEF TypeInv, EditInv
  <1>2. UNCHANGED <<title, pc, plan, options, baseline>>
    BY DEF AuthorEdit, recipe, progress
  <1>3. PICK y : /\ tenant' = (tenant \ {x}) \cup {y}
                 /\ y.id = x.id /\ y.parent = x.parent /\ y.origin = x.origin
    BY <1>1, EditEffect
  <1>4. \A z \in tenant' : z = y \/ (z \in tenant /\ z # x)
    BY <1>3
  <1>5. GuardedMoved'
    <2>1. ASSUME NEW z \in tenant', z.id \in guarded'
          PROVE  At(baseline.cells, DesiredPath(z.origin)) \notin {Missing, AuthorValue}
      <3>1. PICK w \in tenant : w.id = z.id /\ w.origin = z.origin
        BY <1>3, <1>4
      <3>2. CASE z.id \in guarded
        BY <1>1, <3>1, <3>2 DEF GuardedMoved
      <3>3. CASE z.id \notin guarded
        <4>1. /\ pc = "idle"
              /\ At(baseline.cells, DesiredPath(x.origin)) \notin {Missing, AuthorValue}
              /\ z.id = x.id
          BY <2>1, <3>3 DEF AuthorEdit
        <4>2. w = x
          BY <1>1, <3>1, <4>1 DEF StoreInv, UniqueIds
        <4> QED
          BY <3>1, <4>1, <4>2
      <3> QED
        BY <3>2, <3>3
    <2> QED
      BY <1>2, <2>1 DEF GuardedMoved, DesiredPath
  <1>6. EditHeld'
    <2> SUFFICES ASSUME pc # "idle", Careful(options), NEW z \in tenant',
                        z.id \in guarded', z.value = AuthorValue, Sole(z)'
                 PROVE  \/ plan[z.origin].value = AuthorValue
                        \/ ~z.handle /\ z.title # title[z.origin]
      BY <1>2 DEF EditHeld, Careful
    <2>1. guarded' = guarded \ {x.id}
      BY DEF AuthorEdit
    <2>2. z # y
      BY <1>3, <2>1
    <2>3. Sole(z) /\ z \in tenant
      BY <1>3, <2>2, StillSole
    <2> QED
      BY <1>1, <2>1, <2>3 DEF EditHeld
  <1> QED
    BY <1>5, <1>6 DEF EditInv

LEMMA RenameKeepsEdits ==
    ASSUME TypeInv, EditInv, NEW e \in Entities, NEW n \in 1 .. Titles, Rename(e, n)
    PROVE  EditInv'
  <1>1. /\ pc' = "idle" /\ UNCHANGED <<tenant, baseline>>
        /\ title' = [title EXCEPT ![e] = n]
        /\ title \in [Entities -> 1 .. Titles]
    BY DEF Rename, TypeInv, RecipeInv
  <1>2. ASSUME NEW x \in tenant, x.id \in guarded'
        PROVE  /\ x.id \in guarded
               /\ DesiredPath(x.origin)' = DesiredPath(x.origin)
    <2>1. /\ x.id \in guarded /\ x.origin # e
          /\ ~(e = "deliverable" /\ x.origin \in Tasks)
      BY <1>2 DEF Rename
    <2>2. x.origin \in Entities /\ "deliverable" \in Entities
      BY ConstantsTyped DEF TypeInv, StoreInv, Records
    <2>3. /\ title'[x.origin] = title[x.origin]
          /\ x.origin \in Tasks => title'["deliverable"] = title["deliverable"]
      BY <1>1, <2>1, <2>2
    <2> QED
      BY <2>1, <2>3 DEF DesiredPath, Path
  <1>3. GuardedMoved'
    BY <1>1, <1>2 DEF GuardedMoved, EditInv
  <1>4. EditHeld'
    BY <1>1 DEF EditHeld
  <1> QED
    BY <1>3, <1>4 DEF EditInv

LEMMA EditsStay ==
    ASSUME TypeInv, ShapeInv, EditInv, [Next]_vars
    PROVE  EditInv'
  <1>1. CASE ResolveProject \/ ConvergeDeliverable
    <2>1. pc # "idle" /\ UNCHANGED <<title, plan, options, baseline, guarded>>
      BY <1>1 DEF ResolveProject, ConvergeDeliverable, Rest, recipe, history
    <2> QED
      BY <1>1, <2>1, CallsOfConverging, PushKeepsEdits
  <1>2. CASE WriteTask
    <2>1. pc # "idle" /\ UNCHANGED <<title, plan, options, baseline, guarded>>
      BY <1>2 DEF WriteTask, Rest, recipe, history
    <2> QED
      BY <1>2, <2>1, CallsOfWriting, PushKeepsEdits
  <1>3. CASE StampTask \/ LinkTask
    <2>1. pc # "idle" /\ UNCHANGED <<title, plan, options, baseline, guarded>>
      BY <1>3 DEF StampTask, LinkTask, Rest, recipe, history
    <2> QED
      BY <1>3, <2>1, CallsOfLinking, PushKeepsEdits
  <1>4. CASE StartLinking \/ StartCapture
    <2>1. pc # "idle" /\ UNCHANGED <<title, plan, options, baseline, guarded>>
      BY <1>4 DEF StartLinking, StartCapture, Rest, recipe, history
    <2>2. Called
      BY <1>4 DEF StartLinking, StartCapture, Called
    <2> QED
      BY <2>1, <2>2, PushKeepsEdits
  <1>5. CASE \E o \in Options : StartPush(o)
    BY <1>5, StartHoldsEdits
  <1>6. CASE \E x \in tenant : AuthorEdit(x)
    BY <1>6, EditKeepsEdits
  <1>7. CASE \E e \in Entities, n \in 1 .. Titles : Rename(e, n)
    BY <1>7, RenameKeepsEdits
  <1>8. ASSUME pc' = "idle", UNCHANGED <<tenant, title>>,
               guarded' = {} \/ UNCHANGED <<baseline, guarded>>
        PROVE  EditInv'
    <2>1. GuardedMoved'
      BY <1>8 DEF EditInv, GuardedMoved, DesiredPath
    <2> QED
      BY <1>8, <2>1 DEF EditInv, EditHeld
  <1>9. CASE Capture \/ Stop
    <2>1. pc' = "idle" /\ UNCHANGED <<tenant, title>>
      BY <1>9 DEF Capture, Stop, Over, NoCall, recipe
    <2>2. guarded' = {} \/ UNCHANGED <<baseline, guarded>>
      BY <1>9 DEF Capture, Stop
    <2> QED
      BY <1>8, <2>1, <2>2
  <1>10. CASE Revise
    BY <1>8, <1>10 DEF Revise, history
  <1>11. CASE AuthorDelete
    BY <1>11 DEF AuthorDelete, EditInv, GuardedMoved, EditHeld
  <1>12. CASE UNCHANGED vars
    <2>1. UNCHANGED <<tenant, title, pc, plan, options, baseline, guarded>>
      BY <1>12 DEF vars, recipe, progress, history
    <2>2. GuardedMoved'
      BY <2>1 DEF EditInv, GuardedMoved, DesiredPath
    <2>3. EditHeld'
      BY <2>1 DEF EditInv, EditHeld, Sole, Children
    <2> QED
      BY <2>2, <2>3 DEF EditInv
  <1> QED
    BY <1>1, <1>2, <1>3, <1>4, <1>5, <1>6, <1>7, <1>9, <1>10, <1>11, <1>12
       DEF Next, Apply

SurviveInv == TypeInv /\ Idle /\ TaskInv /\ AdoptInv /\ ShapeInv /\ EditInv

LEMMA SurviveAlways == Spec => []SurviveInv
  <1>1. Init => SurviveInv
    <2>1. Init => TaskInv
      BY DEF Init, TaskInv, ParentHeld, TasksDone, AllWalked, Working
    <2>2. Init => AdoptInv /\ ShapeInv /\ EditInv
      BY DEF Init, AdoptInv, SameNamed, Honoured, ShapeInv, Shape, OneEach, AllLabelled,
             Tree, ProjectThere, LinkingNamed, EditInv, GuardedMoved, EditHeld
    <2> QED
      BY <2>1, <2>2, TypeInit DEF SurviveInv
  <1>2. SurviveInv /\ [Next]_vars => SurviveInv'
    BY TypeStays, IdleStays, TasksStay, AdoptStays, ShapeStays, EditsStay DEF SurviveInv
  <1> QED
    BY <1>1, <1>2, PTL DEF Spec

(* What somebody wrote since the last baseline is not overwritten before a *)
(* push is told that recipes win, or goes without a baseline.              *)
THEOREM EditsAreKept == Spec => AuthorEditsSurvive
  <1>1. SurviveInv /\ [Next]_vars =>
           (\A x \in tenant :
               /\ x.id \in guarded /\ x.value = AuthorValue
               /\ Children(x.parent, x.origin) = {x}
               => \/ \A y \in tenant' : y.id = x.id => y.value = AuthorValue
                  \/ options'.policy = "recipe-wins"
                  \/ ~options'.keyed)
    <2> SUFFICES ASSUME SurviveInv, [Next]_vars, Careful(options'),
                        NEW x \in tenant, x.id \in guarded,
                        x.value = AuthorValue, Sole(x),
                        NEW y \in tenant', y.id = x.id
                 PROVE  y.value = AuthorValue
      BY DEF Careful, Sole
    <2>1. TypeInv /\ ShapeInv /\ EditInv /\ StoreInv
      BY DEF SurviveInv, TypeInv
    <2>2. CASE Called /\ pc # "idle" /\ options' = options
      BY <2>1, <2>2, PushSparesEdits
    <2>3. CASE ResolveProject \/ ConvergeDeliverable
      BY <2>1, <2>2, <2>3, CallsOfConverging
         DEF ResolveProject, ConvergeDeliverable, Rest
    <2>4. CASE WriteTask
      BY <2>1, <2>2, <2>4, CallsOfWriting DEF WriteTask, Rest
    <2>5. CASE StampTask \/ LinkTask
      BY <2>1, <2>2, <2>5, CallsOfLinking DEF StampTask, LinkTask, Rest
    <2>6. CASE tenant' = tenant
      BY <2>1, <2>6 DEF StoreInv, UniqueIds
    <2>7. CASE StartLinking \/ StartCapture \/ Capture \/ Stop
      BY <2>6, <2>7 DEF StartLinking, StartCapture, Capture, Stop, NoCall
    <2>8. CASE \/ Revise \/ \E o \in Options : StartPush(o)
               \/ \E e \in Entities, n \in 1 .. Titles : Rename(e, n)
      BY <2>6, <2>8 DEF Revise, StartPush, Rename
    <2>9. CASE AuthorDelete
      BY <2>9 DEF AuthorDelete
    <2>10. CASE \E z \in tenant : AuthorEdit(z)
      <3>1. PICK z \in tenant : AuthorEdit(z)
        BY <2>10
      <3>2. PICK u : /\ tenant' = (tenant \ {z}) \cup {u}
                     /\ u.id = z.id /\ u.value = AuthorValue
        BY <2>1, <3>1, EditEffect
      <3>3. y = u \/ y \in tenant
        BY <3>2
      <3> QED
        BY <2>1, <3>2, <3>3 DEF StoreInv, UniqueIds
    <2>11. CASE UNCHANGED vars
      BY <2>6, <2>11 DEF vars
    <2> QED
      BY <2>3, <2>4, <2>5, <2>7, <2>8, <2>9, <2>10, <2>11 DEF Next, Apply
  <1> QED
    BY <1>1, SurviveAlways, PTL DEF Spec, AuthorEditsSurvive
=============================================================================
