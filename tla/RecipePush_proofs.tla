-------------------------- MODULE RecipePush_proofs --------------------------
(***************************************************************************)
(* Proofs about repeated recipe pushes, for every set of recipes, every    *)
(* number of fields, revisions and pushes, and every pattern of faults:    *)
(* no rollback takes a folder away from under an item, a baseline records  *)
(* nothing the tenant does not hold, what is reported clean is there, and  *)
(* what authors wrote stays.                                               *)
(*                                                                         *)
(* The argument for the folder: a push knows of the folder when it exists, *)
(* so a push that created it found no items, and every item it has made    *)
(* since is in the same unwind list.  The one for the baselines: whatever  *)
(* is evidence was either written or compared with a snapshot that is the  *)
(* tenant's, or blank where the item was adopted unread; and a recipe is   *)
(* walked once, so what a rollback undoes belongs to a recipe that is not  *)
(* saved.  Clean recipes are followed operation by operation (WalkedClean),*)
(* the hash cache by what is left to be unwound (HashInv), and the         *)
(* authors' fields by what could be written over them.                     *)
(***************************************************************************)
EXTENDS RecipePush, TLAPS, SequenceTheorems

UndoEntry == [kind : {"folder", "item", "field"}, recipe : Recipes,
              field : 0 .. FieldCount, prior : Values]

UndoTyped == undo \in Seq(UndoEntry)

FolderKnown == pc = "executing" /\ folder => "folder" \in seen

(* What was made on top of a folder this recipe created is unwound with it.*)
FolderOurs ==
    (\E i \in DOMAIN undo : undo[i].kind = "folder")
    => \A r \in items : \E j \in DOMAIN undo :
          undo[j].kind = "item" /\ undo[j].recipe = r

FolderInv == FolderKnown /\ FolderOurs /\ ItemsHaveFolder

(* A recipe the walk has not come to yet.                                  *)
Unwalked(r) ==
    result[r] \in {"none", "cached"} /\ snapshot[r] = <<>> /\ entries[r] = Nothing

WalkedOnce ==
    pc = "executing" =>
        /\ \A i, j \in DOMAIN todo : todo[i] = todo[j] => i = j
        /\ \A i \in DOMAIN todo : i > 1 \/ op = 1 => Unwalked(todo[i])
        /\ todo # <<>> => result[todo[1]] # "aborted"

(* The fields still to come are as the tenant has them, or blank.          *)
SnapshotHeld ==
    pc = "executing" /\ todo # <<>> /\ snapshot[todo[1]] # <<>> =>
        \A g \in Fields : op <= g + 2 =>
            snapshot[todo[1]][g] \in {Blank, value[todo[1]][g]}

EntryHeld ==
    \A r \in Recipes, f \in Fields :
        result[r] # "aborted" => entries[r][f] \in {NoEntry, value[r][f]}

IdleForgets == pc = "idle" => \A r \in Recipes : entries[r] = Nothing

EntryInv == WalkedOnce /\ SnapshotHeld /\ EntryHeld /\ IdleForgets

-----------------------------------------------------------------------------
(* The unwind list and the walk.                                           *)

Outcome == {"clean", "conflict", "error"}

Walking == pc = "executing" /\ todo # <<>>

LEMMA ThisIsRecipe ==
    ASSUME TypeOK, Walking
    PROVE  /\ This \in Recipes /\ This = todo[1] /\ 1 \in DOMAIN todo
           /\ \A i \in DOMAIN todo : i \in Nat /\ todo[i] \in Recipes
           /\ Tail(todo) \in Seq(Recipes)
           /\ Len(Tail(todo)) = Len(todo) - 1
           /\ \A i \in DOMAIN Tail(todo) :
                 /\ i \in Nat /\ i + 1 > 1 /\ i + 1 \in DOMAIN todo
                 /\ Tail(todo)[i] = todo[i + 1] /\ todo[i + 1] \in Recipes
  <1>1. todo \in Seq(Recipes) /\ todo # <<>>
    BY DEF TypeOK, Walking
  <1>2. /\ Len(todo) \in Nat /\ Len(todo) > 0 /\ DOMAIN todo = 1 .. Len(todo)
        /\ \A i \in 1 .. Len(todo) : todo[i] \in Recipes
    BY <1>1, EmptySeq, LenProperties, ElementOfSeq
  <1>3. /\ Tail(todo) \in Seq(Recipes) /\ Len(Tail(todo)) = Len(todo) - 1
        /\ \A i \in 1 .. Len(Tail(todo)) : Tail(todo)[i] = todo[i + 1]
    BY <1>1, HeadTailProperties
  <1>4. DOMAIN Tail(todo) = 1 .. Len(Tail(todo))
    BY <1>3, LenProperties
  <1>5. This = todo[1] /\ 1 \in DOMAIN todo
    BY <1>1, <1>2 DEF This
  <1>6. \A i \in DOMAIN Tail(todo) : i \in Nat /\ i + 1 > 1 /\ i + 1 \in DOMAIN todo
    BY <1>2, <1>3, <1>4
  <1> QED
    BY <1>2, <1>3, <1>4, <1>5, <1>6

(* What the loop does after an operation.                                  *)
LEMMA Advanced ==
    ASSUME TypeOK, UndoTyped, Walking, PushAssumption,
           NEW res \in Outcome, NEW undoing \in Seq(UndoEntry),
           Advance(res, undoing)
    PROVE  /\ result' \in [Recipes -> Result]
           /\ \A r \in Recipes \ {This} : result'[r] = result[r]
           /\ result'[This] # "aborted"
           /\ op' \in 1 .. FieldCount + 2
           /\ todo' \in Seq(Recipes)
           /\ undo' \in Seq(UndoEntry)
           /\ \/ todo' = todo /\ op' = op + 1 /\ undo' = undoing \o undo
              \/ todo' = Tail(todo) /\ op' = 1 /\ undo' = <<>>
  <1>1. Worse(res) \in Outcome
    BY DEF Worse, Outcome
  <1>2. undoing \o undo \in Seq(UndoEntry)
    BY ConcatProperties DEF UndoTyped
  <1>3. CASE op = LastOp /\ Finish(Worse(res))
    <2>1. result' = [result EXCEPT ![This] = Worse(res)]
      BY <1>3 DEF Finish
    <2>2. todo' = Tail(todo) /\ op' = 1 /\ undo' = <<>> /\ undo' \in Seq(UndoEntry)
      BY <1>3 DEF Finish
    <2>3. 1 \in 1 .. FieldCount + 2
      BY DEF PushAssumption
    <2> QED
      BY <1>1, <2>1, <2>2, <2>3, ThisIsRecipe DEF TypeOK, Result, Outcome
  <1>4. CASE op < LastOp /\ ~(op = LastOp /\ Finish(Worse(res)))
    <2>1. result' = [result EXCEPT ![This] = Worse(res)]
      BY <1>4 DEF Advance
    <2>2. todo' = todo /\ op' = op + 1 /\ undo' = undoing \o undo
      BY <1>4 DEF Advance
    <2>3. op + 1 \in 1 .. FieldCount + 2
      BY <1>4 DEF TypeOK, LastOp, PushAssumption
    <2>4. todo \in Seq(Recipes)
      BY DEF TypeOK
    <2>5. /\ result' \in [Recipes -> Result]
          /\ \A r \in Recipes \ {This} : result'[r] = result[r]
          /\ result'[This] # "aborted"
      BY <1>1, <2>1, ThisIsRecipe DEF TypeOK, Result, Outcome
    <2> QED
      BY <1>2, <2>2, <2>3, <2>4, <2>5
  <1> QED BY <1>3, <1>4 DEF Advance

(* The recipe that is walked is the only one an operation touches.         *)
LEMMA WalkStep ==
    ASSUME TypeOK, WalkedOnce, Walking, pc' = pc,
           \/ todo' = todo /\ op' = op + 1 /\ result'[This] # "aborted"
           \/ todo' = Tail(todo),
           \A r \in Recipes \ {This} :
               /\ result'[r] = result[r] /\ snapshot'[r] = snapshot[r]
               /\ entries'[r] = entries[r]
    PROVE  WalkedOnce'
  <1>1. \A i \in DOMAIN todo : todo[i] \in Recipes /\ (i > 1 => todo[i] # This)
    BY ThisIsRecipe DEF WalkedOnce, Walking
  <1>2. \A r \in Recipes : (\E i \in DOMAIN todo : i > 1 /\ r = todo[i])
            => Unwalked(r) /\ Unwalked(r)'
    BY <1>1 DEF WalkedOnce, Walking, Unwalked
  <1>3. CASE todo' = todo /\ op' = op + 1 /\ result'[This] # "aborted"
    <2>1. op' # 1
      BY <1>3 DEF TypeOK
    <2>2. \A i \in DOMAIN todo' : i > 1 \/ op' = 1 => Unwalked(todo[i])'
      BY <1>1, <1>2, <1>3, <2>1 DEF Unwalked
    <2> QED
      BY <1>3, <2>2, ThisIsRecipe DEF WalkedOnce, Walking, Unwalked
  <1>4. CASE todo' = Tail(todo)
    <2>1. \A i \in DOMAIN todo' :
             /\ i \in Nat /\ i + 1 > 1 /\ i + 1 \in DOMAIN todo
             /\ todo'[i] = todo[i + 1] /\ todo'[i] \in Recipes
      BY <1>4, ThisIsRecipe
    <2>2. \A i \in DOMAIN todo' :
             /\ result'[todo'[i]] \in {"none", "cached"}
             /\ snapshot'[todo'[i]] = <<>> /\ entries'[todo'[i]] = Nothing
      BY <1>2, <2>1 DEF Unwalked
    <2>3. \A i, j \in DOMAIN todo' : todo'[i] = todo'[j] => i = j
      BY <2>1 DEF WalkedOnce, Walking
    <2>4. todo' # <<>> => 1 \in DOMAIN todo'
      BY <1>4, ThisIsRecipe, LenProperties DEF TypeOK, Walking
    <2> QED BY <2>2, <2>3, <2>4 DEF WalkedOnce, Unwalked
  <1> QED BY <1>3, <1>4

-----------------------------------------------------------------------------
(* Types.                                                                  *)

TypeInv == TypeOK /\ UndoTyped

LEMMA RolledBackTyped ==
    ASSUME TypeInv, Walking, RolledBack(undo)
    PROVE  /\ folder' \in BOOLEAN /\ items' \subseteq items
           /\ value' \in [Recipes -> [Fields -> Values]]
           /\ \A r \in Recipes \ {This} : value'[r] = value[r]
  <1> DEFINE gone == {undo[i].recipe : i \in {j \in DOMAIN undo : undo[j].kind = "item"}}
             kept(r) == {j \in DOMAIN undo : undo[j].kind = "field" /\ undo[j].recipe = r}
             oldest(f) == {j \in kept(This) : undo[j].field = f}
             now == [f \in Fields |->
                       IF This \in gone THEN Blank
                       ELSE IF oldest(f) = {} THEN value[This][f]
                       ELSE undo[CHOOSE j \in oldest(f) : TRUE].prior]
  <1>1. /\ folder' \in BOOLEAN /\ items' \subseteq items
        /\ value' = [value EXCEPT ![This] = now]
    BY DEF RolledBack, TypeInv, TypeOK
  <1>2. This \in Recipes
    BY ThisIsRecipe DEF TypeInv
  <1>3. \A f \in Fields : now[f] \in Values
    <2> SUFFICES ASSUME NEW f \in Fields PROVE now[f] \in Values
      OBVIOUS
    <2>1. value[This][f] \in Values
      BY <1>2 DEF TypeInv, TypeOK
    <2>2. Blank \in Values
      BY PushAssumption DEF Blank, Values, AuthorValue
    <2>3. ASSUME oldest(f) # {}
          PROVE  undo[CHOOSE j \in oldest(f) : TRUE].prior \in Values
      <3>1. (CHOOSE j \in oldest(f) : TRUE) \in DOMAIN undo
        BY <2>3
      <3>2. \A i \in DOMAIN undo : undo[i] \in UndoEntry
        BY DEF TypeInv, UndoTyped
      <3> QED
        BY <3>1, <3>2 DEF UndoEntry
    <2> QED
      BY <2>1, <2>2, <2>3
  <1>4. now \in [Fields -> Values]
    BY <1>3
  <1> HIDE DEF now
  <1>5. value \in [Recipes -> [Fields -> Values]]
    BY DEF TypeInv, TypeOK
  <1> QED
    BY <1>1, <1>2, <1>4, <1>5

(* What Advance and an abort have in common.                               *)
WalkTyped ==
    /\ result' \in [Recipes -> Result]
    /\ op' \in 1 .. FieldCount + 2
    /\ todo' \in Seq(Recipes)
    /\ undo' \in Seq(UndoEntry)

LEMMA EmptyUndo == <<>> \in Seq(UndoEntry)
  OBVIOUS

LEMMA AdvanceTyped ==
    ASSUME TypeInv, Walking, NEW res \in Outcome, NEW undoing \in Seq(UndoEntry),
           Advance(res, undoing)
    PROVE  WalkTyped
  BY Advanced, PushAssumption DEF WalkTyped, TypeInv

LEMMA FinishTyped ==
    ASSUME TypeInv, Walking, NEW res \in Result, Finish(res)
    PROVE  WalkTyped
  <1>1. 1 \in 1 .. FieldCount + 2
    BY PushAssumption
  <1> QED
    BY <1>1, ThisIsRecipe, EmptyUndo DEF Finish, WalkTyped, TypeInv, TypeOK

LEMMA FailTyped ==
    ASSUME TypeInv, Walking, OpFails
    PROVE  /\ WalkTyped
           /\ folder' \in BOOLEAN /\ items' \subseteq items
           /\ value' \in [Recipes -> [Fields -> Values]]
           /\ \A r \in Recipes \ {This} : value'[r] = value[r]
  <1>1. CASE options.tolerant /\ Advance("error", <<>>) /\ UNCHANGED tenant
    <2>1. WalkTyped
      BY <1>1, EmptyUndo, AdvanceTyped DEF Outcome
    <2> QED
      BY <1>1, <2>1 DEF tenant, TypeInv, TypeOK
  <1>2. CASE RolledBack(undo) /\ Finish("aborted")
    BY <1>2, RolledBackTyped, FinishTyped DEF Result
  <1> QED
    BY <1>1, <1>2 DEF OpFails

LEMMA ExecutingWalks ==
    ASSUME NEW k, Executing(k)
    PROVE  Walking
  BY DEF Executing, Walking

LEMMA BeforeTyped ==
    ASSUME TypeInv, Walking
    PROVE  Before \in [Fields -> Values]
  BY ThisIsRecipe DEF Before, TypeInv, TypeOK

LEMMA RevisionTyped ==
    ASSUME TypeInv, Walking
    PROVE  revision[This] \in Values /\ revision[This] # Blank
  <1>1. revision[This] \in 1 .. MaxRevision
    BY ThisIsRecipe DEF TypeInv, TypeOK
  <1> QED
    BY <1>1, PushAssumption DEF Values, AuthorValue, Blank

LEMMA NothingTyped == Nothing \in [Fields -> Values \cup {NoEntry}]
  BY DEF Nothing

LEMMA BlankTyped == Blank \in Values /\ BlankItem \in [Fields -> Values]
  BY PushAssumption DEF Blank, BlankItem, Values, AuthorValue

LEMMA CreateFolderTyped ==
    ASSUME TypeInv, CreateFolder
    PROVE  TypeInv'
  <1>1. Walking
    BY ExecutingWalks DEF CreateFolder
  <1> DEFINE made == [kind |-> "folder", recipe |-> This, field |-> 0, prior |-> Blank]
  <1>2. <<made>> \in Seq(UndoEntry)
    <2>1. 0 \in 0 .. FieldCount
      BY PushAssumption
    <2>2. made \in UndoEntry
      BY <1>1, <2>1, ThisIsRecipe, BlankTyped DEF UndoEntry, TypeInv
    <2> HIDE DEF made
    <2> QED
      BY <2>2
  <1> HIDE DEF made
  <1>3. CASE NoWrite("clean") /\ UNCHANGED <<caches, entries>>
    BY <1>1, <1>3, AdvanceTyped, EmptyUndo
    DEF NoWrite, Untouched, Outcome, WalkTyped, TypeInv, TypeOK, UndoTyped, tenant,
        caches, stores, run
  <1>4. CASE /\ folder' = TRUE /\ seen' = seen \cup {"folder"}
             /\ Advance("clean", <<made>>)
             /\ UNCHANGED <<items, value, snapshot, created, entries, faults>>
             /\ Untouched
    BY <1>1, <1>2, <1>4, AdvanceTyped
    DEF Untouched, Outcome, WalkTyped, TypeInv, TypeOK, UndoTyped, stores, run
  <1>5. CASE OpFails /\ UNCHANGED snapshot
    <2>1. UNCHANGED <<seen, created, entries, snapshot, stores, pc, run, guarded>>
      BY <1>5 DEF OpFails, Untouched
    <2> QED
      BY <1>1, <1>5, <2>1, FailTyped
      DEF WalkTyped, TypeInv, TypeOK, UndoTyped, stores, run
  <1> QED
    BY <1>3, <1>4, <1>5 DEF CreateFolder, made

LEMMA CreateItemTyped ==
    ASSUME TypeInv, CreateItem
    PROVE  TypeInv'
  <1>1. Walking
    BY ExecutingWalks DEF CreateItem
  <1> DEFINE made == [kind |-> "item", recipe |-> This, field |-> 0, prior |-> Blank]
  <1>2. <<made>> \in Seq(UndoEntry)
    <2>1. 0 \in 0 .. FieldCount
      BY PushAssumption
    <2>2. made \in UndoEntry
      BY <1>1, <2>1, ThisIsRecipe, BlankTyped DEF UndoEntry, TypeInv
    <2> HIDE DEF made
    <2> QED
      BY <2>2
  <1> HIDE DEF made
  <1>3. CASE NoWrite("clean") /\ UNCHANGED <<caches, entries>>
    BY <1>1, <1>3, AdvanceTyped, EmptyUndo
    DEF NoWrite, Untouched, Outcome, WalkTyped, TypeInv, TypeOK, UndoTyped, tenant,
        caches, stores, run
  <1>4. CASE /\ items' = items \cup {This} /\ seen' = seen \cup {This}
             /\ snapshot' = [snapshot EXCEPT ![This] = BlankItem]
             /\ created' = created \cup {This}
             /\ Advance("clean", <<made>>)
             /\ UNCHANGED <<folder, value, entries, faults>>
             /\ Untouched
    <2>1. /\ This \in Recipes
          /\ snapshot' \in [Recipes -> {<<>>} \cup [Fields -> Values]]
      BY <1>1, <1>4, ThisIsRecipe, BlankTyped DEF TypeInv, TypeOK
    <2> QED
      BY <1>1, <1>2, <1>4, <2>1, AdvanceTyped
      DEF Untouched, Outcome, WalkTyped, TypeInv, TypeOK, UndoTyped, stores, run
  <1>5. CASE OpFails /\ UNCHANGED snapshot
    <2>1. UNCHANGED <<seen, created, entries, snapshot, stores, pc, run, guarded>>
      BY <1>5 DEF OpFails, Untouched
    <2> QED
      BY <1>1, <1>5, <2>1, FailTyped
      DEF WalkTyped, TypeInv, TypeOK, UndoTyped, stores, run
  <1> QED
    BY <1>3, <1>4, <1>5 DEF CreateItem, made

LEMMA SetFieldTyped ==
    ASSUME TypeInv, NEW f \in Fields, SetField(f)
    PROVE  TypeInv'
  <1>1. Walking /\ This \in Recipes
    <2>1. Executing(f + 2)
      BY DEF SetField
    <2>2. Walking
      BY <2>1 DEF Executing, Walking
    <2> QED
      BY <2>2, ThisIsRecipe DEF TypeInv
  <1> DEFINE made == [kind |-> "field", recipe |-> This, field |-> f, prior |-> Before[f]]
  <1>2. <<made>> \in Seq(UndoEntry)
    BY <1>1, BeforeTyped DEF UndoEntry, Fields
  <1> HIDE DEF made
  <1>3. snapshot' \in [Recipes -> {<<>>} \cup [Fields -> Values]]
    <2>1. [Before EXCEPT ![f] = revision[This]] \in [Fields -> Values]
      BY <1>1, BeforeTyped, RevisionTyped
    <2> QED
      BY <1>1, <2>1, BeforeTyped DEF SetField, TypeInv, TypeOK
  <1>4. Evidence(f, Status(f)) \in [Recipes -> [Fields -> Values \cup {NoEntry}]]
    <2>1. [entries[This] EXCEPT ![f] = revision[This]] \in [Fields -> Values \cup {NoEntry}]
      BY <1>1, RevisionTyped DEF TypeInv, TypeOK
    <2> QED
      BY <1>1, <2>1 DEF Evidence, TypeInv, TypeOK
  <1>5. CASE /\ entries' = Evidence(f, Status(f))
             /\ NoWrite(IF Status(f) = "error" THEN "conflict" ELSE "clean")
    <2>1. WalkTyped
      BY <1>1, <1>5, AdvanceTyped, EmptyUndo DEF NoWrite, Outcome
    <2> QED
      BY <1>3, <1>4, <1>5, <2>1
      DEF SetField, NoWrite, Untouched, WalkTyped, TypeInv, TypeOK, UndoTyped, tenant,
          stores, run
  <1>6. CASE /\ value' = [value EXCEPT ![This][f] = revision[This]]
             /\ entries' = Evidence(f, Status(f))
             /\ Advance("clean", <<made>>)
             /\ UNCHANGED <<folder, items, faults>>
             /\ Untouched
    <2>1. WalkTyped
      BY <1>1, <1>2, <1>6, AdvanceTyped DEF Outcome
    <2>2. value' \in [Recipes -> [Fields -> Values]]
      <3>1. [value[This] EXCEPT ![f] = revision[This]] \in [Fields -> Values]
        BY <1>1, RevisionTyped DEF TypeInv, TypeOK
      <3> QED
        BY <1>1, <1>6, <3>1 DEF TypeInv, TypeOK
    <2> QED
      BY <1>3, <1>4, <1>6, <2>1, <2>2
      DEF SetField, Untouched, WalkTyped, TypeInv, TypeOK, UndoTyped, stores, run
  <1>7. CASE OpFails
    <2>1. UNCHANGED <<seen, created, entries, stores, pc, run, guarded>>
      BY <1>7 DEF OpFails, Untouched
    <2> QED
      BY <1>1, <1>3, <1>7, <2>1, FailTyped
      DEF WalkTyped, TypeInv, TypeOK, UndoTyped, stores, run
  <1> QED
    BY <1>5, <1>6, <1>7 DEF SetField, made

(* Start and end of a push.                                                *)
LEMMA StartPushTyped ==
    ASSUME TypeInv, NEW o \in Options, StartPush(o)
    PROVE  TypeInv'
  <1>1. loaded' \in [Recipes -> [Fields -> Values \cup {NoEntry}]]
    BY NothingTyped DEF StartPush, TypeInv, TypeOK
  <1>2. todo' \in Seq(Recipes) /\ 1 \in 1 .. FieldCount + 2
    BY PushAssumption DEF StartPush
  <1>3. seen' \subseteq Recipes \cup {"folder"}
    BY DEF StartPush, Prefetched, TypeInv, TypeOK
  <1>4. /\ snapshot' \in [Recipes -> {<<>>} \cup [Fields -> Values]]
        /\ entries' \in [Recipes -> [Fields -> Values \cup {NoEntry}]]
        /\ result' \in [Recipes -> Result]
    BY NothingTyped DEF StartPush, Result
  <1>5. UNCHANGED <<folder, items, value, revision, baseline, cache, guarded>>
    BY DEF StartPush, tenant, stores
  <1>6. /\ options' \in Options /\ op' = 1 /\ pc' = "executing"
        /\ created' = {} /\ undo' = <<>>
    BY DEF StartPush
  <1> QED
    BY <1>1, <1>2, <1>3, <1>4, <1>5, <1>6, EmptyUndo DEF TypeInv, TypeOK, UndoTyped

LEMMA ForgetTyped ==
    ASSUME TypeInv, Forget
    PROVE  TypeInv'
  <1>1. /\ loaded' \in [Recipes -> [Fields -> Values \cup {NoEntry}]]
        /\ entries' \in [Recipes -> [Fields -> Values \cup {NoEntry}]]
        /\ snapshot' \in [Recipes -> {<<>>} \cup [Fields -> Values]]
        /\ result' \in [Recipes -> Result]
    BY NothingTyped DEF Forget, Result
  <1>2. todo' \in Seq(Recipes) /\ op' \in 1 .. FieldCount + 2
    BY PushAssumption DEF Forget
  <1>3. UNCHANGED <<folder, items, value, revision, baseline, cache, options, guarded>>
    BY DEF Forget, tenant, stores
  <1>4. pc' = "idle" /\ seen' = {} /\ created' = {} /\ undo' = <<>>
    BY DEF Forget
  <1> QED
    BY <1>1, <1>2, <1>3, <1>4, EmptyUndo DEF TypeInv, TypeOK, UndoTyped

LEMMA SavingTyped ==
    ASSUME TypeInv, PersistCache \/ PersistBaseline \/ EndPush
    PROVE  TypeInv'
  <1>1. CASE PersistCache
    <2>1. cache' \in [Recipes -> 0 .. MaxRevision]
      BY <1>1, PushAssumption DEF PersistCache, TypeInv, TypeOK
    <2> QED
      BY <1>1, <2>1, PushAssumption
      DEF PersistCache, TypeInv, TypeOK, UndoTyped, tenant, run, caches, outcome
  <1>2. CASE PersistBaseline
    <2>1. This \in Recipes /\ Tail(todo) \in Seq(Recipes)
      BY <1>2, HeadTailProperties DEF PersistBaseline, This, TypeInv, TypeOK
    <2>2. /\ baseline' \in [Recipes -> [Fields -> Values \cup {NoEntry}]]
          /\ guarded' \subseteq Recipes \X Fields
      BY <1>2, <2>1 DEF PersistBaseline, TypeInv, TypeOK
    <2> QED
      BY <1>2, <2>1, <2>2
      DEF PersistBaseline, TypeInv, TypeOK, UndoTyped, tenant, run, caches, outcome
  <1>3. CASE EndPush
    BY <1>3
    DEF EndPush, TypeInv, TypeOK, UndoTyped, tenant, stores, run, caches, outcome
  <1> QED
    BY <1>1, <1>2, <1>3

LEMMA PeopleTyped ==
    ASSUME TypeInv, NEW r \in Recipes,
           (\E f \in Fields : AuthorEdit(r, f)) \/ (\E n \in 1 .. MaxRevision : Revise(r, n))
    PROVE  TypeInv'
  <1>1. ASSUME NEW f \in Fields, AuthorEdit(r, f)
        PROVE  TypeInv'
    <2>1. AuthorValue \in Values
      BY PushAssumption DEF Values, AuthorValue
    <2>2. [value[r] EXCEPT ![f] = AuthorValue] \in [Fields -> Values]
      BY <2>1 DEF TypeInv, TypeOK
    <2>3. value' \in [Recipes -> [Fields -> Values]]
      BY <1>1, <2>2 DEF AuthorEdit, TypeInv, TypeOK
    <2>4. guarded' \subseteq Recipes \X Fields
      BY <1>1 DEF AuthorEdit, TypeInv, TypeOK
    <2> QED
      BY <1>1, <2>3, <2>4
      DEF AuthorEdit, TypeInv, TypeOK, UndoTyped, stores, run, caches, outcome
  <1>2. ASSUME NEW n \in 1 .. MaxRevision, Revise(r, n)
        PROVE  TypeInv'
    BY <1>2 DEF Revise, TypeInv, TypeOK, UndoTyped, tenant, run, caches, outcome
  <1> QED
    BY <1>1, <1>2

LEMMA ExecuteTyped ==
    ASSUME TypeInv, Execute
    PROVE  TypeInv'
  <1>1. CASE SkipCached
    <2>1. Tail(todo) \in Seq(Recipes)
      BY <1>1, HeadTailProperties DEF SkipCached, TypeInv, TypeOK
    <2> QED
      BY <1>1, <2>1
      DEF SkipCached, TypeInv, TypeOK, UndoTyped, tenant, stores, run, caches, outcome
  <1>2. CASE CreateFolder
    BY <1>2, CreateFolderTyped
  <1>3. CASE CreateItem
    BY <1>3, CreateItemTyped
  <1>4. ASSUME NEW f \in Fields, SetField(f)
        PROVE  TypeInv'
    BY <1>4, SetFieldTyped
  <1>5. ASSUME NEW f \in Fields, SetUnresolved(f)
        PROVE  TypeInv'
    <2>1. Walking
      BY <1>5 DEF SetUnresolved, Executing, Walking
    <2>2. WalkTyped
      BY <1>5, <2>1, AdvanceTyped, EmptyUndo DEF SetUnresolved, NoWrite, Outcome
    <2> QED
      BY <1>5, <2>2
      DEF SetUnresolved, NoWrite, Untouched, WalkTyped, TypeInv, TypeOK, UndoTyped,
          tenant, stores, run, caches
  <1> QED
    BY <1>1, <1>2, <1>3, <1>4, <1>5 DEF Execute

LEMMA TypeStep ==
    ASSUME TypeInv, [Next]_vars
    PROVE  TypeInv'
  <1>1. CASE UNCHANGED vars
    BY <1>1
    DEF vars, TypeInv, TypeOK, UndoTyped, tenant, stores, run, caches, outcome
  <1>2. CASE Next
    BY <1>2, PeopleTyped, StartPushTyped, ExecuteTyped, SavingTyped, ForgetTyped
    DEF Next, Exit, Crash
  <1> QED
    BY <1>1, <1>2

LEMMA TypeInit ==
    ASSUME Init
    PROVE  TypeInv
  <1>1. Options # {}
    <2>1. PICK p \in Policies : TRUE
      BY PushAssumption
    <2>2. [policy |-> p, skip |-> TRUE, tolerant |-> TRUE] \in Options
      BY <2>1 DEF Options
    <2> QED
      BY <2>2
  <1>2. /\ 1 \in 1 .. FieldCount + 2 /\ 1 \in 1 .. MaxRevision /\ 0 \in 0 .. MaxRevision
    BY PushAssumption
  <1>3. options \in Options
    BY <1>1 DEF Init
  <1>4. /\ baseline \in [Recipes -> [Fields -> Values \cup {NoEntry}]]
        /\ loaded = baseline /\ entries = baseline
        /\ value \in [Recipes -> [Fields -> Values]]
    BY NothingTyped, BlankTyped DEF Init
  <1>5. /\ snapshot \in [Recipes -> {<<>>} \cup [Fields -> Values]]
        /\ result \in [Recipes -> Result]
        /\ revision \in [Recipes -> 1 .. MaxRevision]
        /\ cache \in [Recipes -> 0 .. MaxRevision]
    BY <1>2 DEF Init, Result
  <1>6. todo \in Seq(Recipes) /\ undo \in Seq(UndoEntry) /\ op \in 1 .. FieldCount + 2
    BY <1>2, EmptyUndo DEF Init
  <1>7. /\ folder \in BOOLEAN /\ items = {} /\ pc = "idle" /\ seen = {}
        /\ created = {} /\ guarded = {}
    BY DEF Init
  <1> QED
    BY <1>3, <1>4, <1>5, <1>6, <1>7 DEF TypeInv, TypeOK, UndoTyped

(* The types of the tenant, the files and the push's memory.               *)
THEOREM TypeCorrectness == Spec => []TypeOK
  <1>1. Init => TypeInv
    BY TypeInit
  <1>2. TypeInv /\ [Next]_vars => TypeInv'
    BY TypeStep
  <1>3. TypeInv => TypeOK
    BY DEF TypeInv
  <1> QED
    BY <1>1, <1>2, <1>3, PTL DEF Spec

-----------------------------------------------------------------------------
(* The folder.                                                             *)

LEMMA Pushed ==
    ASSUME UndoTyped, NEW a \in UndoEntry
    PROVE  LET t == <<a>> \o undo IN
           /\ 1 \in DOMAIN t /\ t[1] = a
           /\ \A i \in DOMAIN undo : i + 1 \in DOMAIN t /\ t[i + 1] = undo[i]
           /\ \A i \in DOMAIN t : i = 1 \/ (i - 1 \in DOMAIN undo /\ t[i] = undo[i - 1])
  <1> DEFINE t == <<a>> \o undo
  <1>1. <<a>> \in Seq(UndoEntry) /\ Len(<<a>>) = 1 /\ <<a>>[1] = a
    OBVIOUS
  <1>2. Len(undo) \in Nat /\ DOMAIN undo = 1 .. Len(undo)
    BY LenProperties DEF UndoTyped
  <1>3. /\ t \in Seq(UndoEntry)
        /\ Len(t) = 1 + Len(undo)
        /\ \A i \in 1 .. 1 + Len(undo) :
              t[i] = IF i <= 1 THEN <<a>>[i] ELSE undo[i - 1]
    BY <1>1, ConcatProperties DEF UndoTyped
  <1>4. DOMAIN t = 1 .. 1 + Len(undo)
    BY <1>3, LenProperties
  <1> HIDE DEF t
  <1>5. 1 \in DOMAIN t /\ t[1] = a
    BY <1>1, <1>2, <1>3, <1>4
  <1>6. \A i \in DOMAIN undo : i + 1 \in DOMAIN t /\ t[i + 1] = undo[i]
    BY <1>2, <1>3, <1>4
  <1>7. \A i \in DOMAIN t : i = 1 \/ (i - 1 \in DOMAIN undo /\ t[i] = undo[i - 1])
    BY <1>2, <1>3, <1>4
  <1> QED
    BY <1>5, <1>6, <1>7 DEF t

LEMMA NothingPushed ==
    ASSUME UndoTyped
    PROVE  <<>> \o undo = undo
  BY ConcatEmptySeq DEF UndoTyped

LEMMA FolderOursKept ==
    ASSUME UndoTyped, FolderOurs, NEW a \in UndoEntry, undo' = <<a>> \o undo,
           a.kind # "folder",
           \A r \in items' : r \in items \/ (a.kind = "item" /\ a.recipe = r)
    PROVE  FolderOurs'
  <1> SUFFICES ASSUME NEW i \in DOMAIN undo', undo'[i].kind = "folder", NEW r \in items'
               PROVE  \E j \in DOMAIN undo' : undo'[j].kind = "item" /\ undo'[j].recipe = r
    BY DEF FolderOurs
  <1>1. i # 1 /\ i - 1 \in DOMAIN undo /\ undo[i - 1].kind = "folder"
    BY Pushed
  <1>2. CASE r \in items
    <2>1. PICK j \in DOMAIN undo : undo[j].kind = "item" /\ undo[j].recipe = r
      BY <1>1, <1>2 DEF FolderOurs
    <2>2. j + 1 \in DOMAIN undo' /\ undo'[j + 1] = undo[j]
      BY Pushed
    <2> QED
      BY <2>1, <2>2
  <1>3. CASE a.kind = "item" /\ a.recipe = r
    BY <1>3, Pushed
  <1> QED
    BY <1>2, <1>3

LEMMA NoUndoNoFolder ==
    ASSUME undo' = <<>>
    PROVE  FolderOurs'
  BY DEF FolderOurs

(* A failing operation, whether it is tolerated or unwinds the recipe.     *)
LEMMA FailKeepsFolder ==
    ASSUME TypeInv, FolderInv, Walking, OpFails
    PROVE  FolderInv'
  <1>1. UNCHANGED <<pc, seen>>
    BY DEF OpFails, Untouched
  <1>2. CASE options.tolerant /\ Advance("error", <<>>) /\ UNCHANGED tenant
    <2>1. undo' = undo \/ undo' = <<>>
      BY <1>2, NothingPushed, EmptyUndo, Advanced, PushAssumption DEF TypeInv, Outcome
    <2> QED
      BY <1>1, <1>2, <2>1, NoUndoNoFolder
      DEF FolderInv, FolderKnown, FolderOurs, ItemsHaveFolder, tenant
  <1>3. CASE RolledBack(undo) /\ Finish("aborted")
    <2>1. undo' = <<>> /\ (folder' => folder) /\ items' \subseteq items
      BY <1>3 DEF RolledBack, Finish
    <2>2. ASSUME NEW r \in items' PROVE folder'
      <3>1. folder
        BY <2>1, <2>2 DEF FolderInv, ItemsHaveFolder
      <3>2. \A j \in DOMAIN undo : ~(undo[j].kind = "item" /\ undo[j].recipe = r)
        BY <1>3, <2>2 DEF RolledBack
      <3>3. \A i \in DOMAIN undo : undo[i].kind # "folder"
        BY <2>1, <2>2, <3>2 DEF FolderInv, FolderOurs
      <3> QED
        BY <1>3, <3>1, <3>3 DEF RolledBack
    <2> QED
      BY <1>1, <2>1, <2>2, NoUndoNoFolder DEF FolderInv, FolderKnown, ItemsHaveFolder
  <1> QED
    BY <1>2, <1>3 DEF OpFails

(* An operation that writes nothing.                                       *)
LEMMA NoWriteKeepsFolder ==
    ASSUME TypeInv, FolderInv, Walking, NEW res \in Outcome, NoWrite(res), UNCHANGED seen
    PROVE  FolderInv'
  <1>1. undo' = undo \/ undo' = <<>>
    BY NothingPushed, EmptyUndo, Advanced, PushAssumption DEF TypeInv, NoWrite
  <1> QED
    BY <1>1, NoUndoNoFolder
    DEF NoWrite, Untouched, FolderInv, FolderKnown, FolderOurs, ItemsHaveFolder, tenant

LEMMA CreateFolderKeepsFolder ==
    ASSUME TypeInv, FolderInv, CreateFolder
    PROVE  FolderInv'
  <1>1. Walking
    BY DEF CreateFolder, Executing, Walking
  <1>2. CASE NoWrite("clean") /\ UNCHANGED <<caches, entries>>
    BY <1>1, <1>2, NoWriteKeepsFolder DEF Outcome, caches
  <1>3. CASE /\ "folder" \notin seen /\ folder' = TRUE /\ seen' = seen \cup {"folder"}
             /\ UNCHANGED items
    <2>1. items = {}
      BY <1>1, <1>3 DEF FolderInv, FolderKnown, ItemsHaveFolder, Walking
    <2> QED
      BY <1>3, <2>1 DEF FolderInv, FolderKnown, FolderOurs, ItemsHaveFolder
  <1>4. CASE OpFails
    BY <1>1, <1>4, FailKeepsFolder
  <1> QED
    BY <1>2, <1>3, <1>4 DEF CreateFolder

LEMMA CreateItemKeepsFolder ==
    ASSUME TypeInv, FolderInv, CreateItem
    PROVE  FolderInv'
  <1>1. Walking /\ This \in Recipes
    BY ThisIsRecipe DEF CreateItem, Executing, Walking, TypeInv
  <1>2. CASE NoWrite("clean") /\ UNCHANGED <<caches, entries>>
    BY <1>1, <1>2, NoWriteKeepsFolder DEF Outcome, caches
  <1> DEFINE made == [kind |-> "item", recipe |-> This, field |-> 0, prior |-> Blank]
  <1>3. CASE /\ folder /\ items' = items \cup {This} /\ seen' = seen \cup {This}
             /\ Advance("clean", <<made>>)
             /\ UNCHANGED folder /\ UNCHANGED pc
    <2>1. made \in UndoEntry /\ made.kind = "item" /\ made.recipe = This
      <3>1. 0 \in 0 .. FieldCount
        BY PushAssumption
      <3> QED
        BY <1>1, <3>1, BlankTyped DEF UndoEntry
    <2> HIDE DEF made
    <2>2. undo' = <<made>> \o undo \/ undo' = <<>>
      <3>1. <<made>> \in Seq(UndoEntry)
        BY <2>1
      <3>2. "clean" \in Outcome
        BY DEF Outcome
      <3>3. TypeOK /\ UndoTyped
        BY DEF TypeInv
      <3> QED
        BY <1>1, <1>3, <3>1, <3>2, <3>3, Advanced, PushAssumption
    <2>3. FolderOurs'
      BY <1>3, <2>1, <2>2, FolderOursKept, NoUndoNoFolder DEF TypeInv, FolderInv
    <2> QED
      BY <1>3, <2>3 DEF FolderInv, FolderKnown, ItemsHaveFolder
  <1>4. CASE OpFails
    BY <1>1, <1>4, FailKeepsFolder
  <1> QED
    BY <1>2, <1>3, <1>4 DEF CreateItem, Untouched

LEMMA SetFieldKeepsFolder ==
    ASSUME TypeInv, FolderInv, NEW f \in Fields, SetField(f)
    PROVE  FolderInv'
  <1>1. Walking /\ This \in Recipes
    BY ThisIsRecipe DEF SetField, Executing, Walking, TypeInv
  <1>2. UNCHANGED seen
    BY DEF SetField
  <1>3. CASE NoWrite(IF Status(f) = "error" THEN "conflict" ELSE "clean")
    BY <1>1, <1>2, <1>3, NoWriteKeepsFolder DEF Outcome
  <1> DEFINE made == [kind |-> "field", recipe |-> This, field |-> f, prior |-> Before[f]]
  <1>4. CASE /\ Advance("clean", <<made>>)
             /\ UNCHANGED <<folder, items, pc>>
    <2>1. made \in UndoEntry /\ made.kind = "field"
      BY <1>1, BeforeTyped DEF UndoEntry, Fields
    <2> HIDE DEF made
    <2>2. undo' = <<made>> \o undo \/ undo' = <<>>
      <3>1. <<made>> \in Seq(UndoEntry)
        BY <2>1
      <3>2. "clean" \in Outcome
        BY DEF Outcome
      <3>3. TypeOK /\ UndoTyped
        BY DEF TypeInv
      <3> QED
        BY <1>1, <1>4, <3>1, <3>2, <3>3, Advanced, PushAssumption
    <2>3. FolderOurs'
      BY <1>4, <2>1, <2>2, FolderOursKept, NoUndoNoFolder DEF TypeInv, FolderInv
    <2> QED
      BY <1>2, <1>4, <2>3 DEF FolderInv, FolderKnown, ItemsHaveFolder
  <1>5. CASE OpFails
    BY <1>1, <1>5, FailKeepsFolder
  <1> QED
    BY <1>3, <1>4, <1>5 DEF SetField, Untouched

LEMMA FolderStep ==
    ASSUME TypeInv, FolderInv, [Next]_vars
    PROVE  FolderInv'
  <1>1. ASSUME UNCHANGED <<folder, items, undo>>,
               pc' # "executing" \/ (pc' = pc /\ seen' = seen)
        PROVE  FolderInv'
    BY <1>1 DEF FolderInv, FolderKnown, FolderOurs, ItemsHaveFolder
  <1>2. CASE UNCHANGED vars
    BY <1>1, <1>2 DEF vars, tenant, caches, outcome
  <1>3. ASSUME NEW r \in Recipes, NEW f \in Fields, AuthorEdit(r, f)
        PROVE  FolderInv'
    BY <1>1, <1>3 DEF AuthorEdit, outcome, caches
  <1>4. ASSUME NEW r \in Recipes, NEW n \in 1 .. MaxRevision, Revise(r, n)
        PROVE  FolderInv'
    BY <1>1, <1>4 DEF Revise, outcome, tenant, caches
  <1>5. ASSUME NEW o \in Options, StartPush(o)
        PROVE  FolderInv'
    BY <1>5, NoUndoNoFolder
    DEF StartPush, FolderInv, FolderKnown, ItemsHaveFolder, Prefetched, tenant
  <1>6. CASE SkipCached
    BY <1>1, <1>6 DEF SkipCached, tenant, outcome, caches
  <1>7. CASE CreateFolder
    BY <1>7, CreateFolderKeepsFolder
  <1>8. CASE CreateItem
    BY <1>8, CreateItemKeepsFolder
  <1>9. ASSUME NEW f \in Fields, SetField(f)
        PROVE  FolderInv'
    BY <1>9, SetFieldKeepsFolder
  <1>10. ASSUME NEW f \in Fields, SetUnresolved(f)
         PROVE  FolderInv'
    BY <1>10, NoWriteKeepsFolder DEF SetUnresolved, Executing, Walking, Outcome, caches
  <1>11. CASE PersistCache \/ PersistBaseline \/ EndPush
    BY <1>1, <1>11 DEF PersistCache, PersistBaseline, EndPush, tenant, outcome
  <1>12. CASE Forget
    BY <1>12, NoUndoNoFolder
    DEF Forget, FolderInv, FolderKnown, ItemsHaveFolder, tenant
  <1> QED
    BY <1>2, <1>3, <1>4, <1>5, <1>6, <1>7, <1>8, <1>9, <1>10, <1>11, <1>12
    DEF Next, Execute, Exit, Crash

(* No rollback, crash or failed call of any push leaves an item without    *)
(* the folder it is in, whichever recipe created that folder.              *)
THEOREM FolderOutlivesItems == Spec => []ItemsHaveFolder
  <1>1. Init => TypeInv /\ FolderInv
    BY TypeInit DEF Init, FolderInv, FolderKnown, FolderOurs, ItemsHaveFolder
  <1>2. TypeInv /\ FolderInv /\ [Next]_vars => TypeInv' /\ FolderInv'
    BY TypeStep, FolderStep
  <1>3. FolderInv => ItemsHaveFolder
    BY DEF FolderInv
  <1> QED
    BY <1>1, <1>2, <1>3, PTL DEF Spec

-----------------------------------------------------------------------------
(* The baselines.                                                          *)

(* Whatever an operation does, it does to the recipe that is walked.       *)
LEMMA EntryKept ==
    ASSUME TypeInv, EntryInv, Walking, pc' = pc,
           \/ /\ todo' = todo /\ op' = op + 1 /\ result'[This] # "aborted"
              /\ snapshot'[This] # <<>> => \A g \in Fields : op + 1 <= g + 2 =>
                    snapshot'[This][g] \in {Blank, value'[This][g]}
           \/ todo' = Tail(todo),
           \A r \in Recipes \ {This} :
               /\ result'[r] = result[r] /\ snapshot'[r] = snapshot[r]
               /\ entries'[r] = entries[r] /\ value'[r] = value[r],
           \/ result'[This] = "aborted"
           \/ \A f \in Fields : entries'[This][f] \in {NoEntry, value'[This][f]}
    PROVE  EntryInv'
  <1>1. WalkedOnce'
    BY WalkStep DEF EntryInv, TypeInv
  <1>2. SnapshotHeld'
    <2>1. CASE /\ todo' = todo /\ op' = op + 1
               /\ snapshot'[This] # <<>> => \A g \in Fields : op + 1 <= g + 2 =>
                     snapshot'[This][g] \in {Blank, value'[This][g]}
      BY <2>1, ThisIsRecipe DEF SnapshotHeld, TypeInv
    <2>2. CASE todo' = Tail(todo)
      <3> SUFFICES ASSUME todo' # <<>> PROVE snapshot'[todo'[1]] = <<>>
        BY DEF SnapshotHeld
      <3>1. 1 \in DOMAIN Tail(todo)
        BY <2>2, ThisIsRecipe, LenProperties DEF TypeInv
      <3>2. /\ 1 + 1 \in DOMAIN todo /\ 1 + 1 > 1 /\ todo'[1] = todo[1 + 1]
            /\ todo[1 + 1] \in Recipes
        BY <2>2, <3>1, ThisIsRecipe DEF TypeInv
      <3>3. todo[1 + 1] # This
        <4>1. 1 + 1 # 1
          OBVIOUS
        <4> QED
          BY <3>2, <4>1, ThisIsRecipe DEF EntryInv, WalkedOnce, Walking, TypeInv
      <3>4. snapshot[todo[1 + 1]] = <<>>
        BY <3>2 DEF EntryInv, WalkedOnce, Walking, Unwalked
      <3> QED
        BY <3>2, <3>3, <3>4
    <2> QED
      BY <2>1, <2>2
  <1>3. EntryHeld'
    <2> SUFFICES ASSUME NEW r \in Recipes, NEW f \in Fields, result'[r] # "aborted"
                 PROVE  entries'[r][f] \in {NoEntry, value'[r][f]}
      BY DEF EntryHeld
    <2>1. CASE r = This
      BY <2>1
    <2>2. CASE r # This
      BY <2>2 DEF EntryInv, EntryHeld
    <2> QED
      BY <2>1, <2>2
  <1>4. IdleForgets'
    BY DEF IdleForgets, Walking
  <1> QED
    BY <1>1, <1>2, <1>3, <1>4 DEF EntryInv

LEMMA EntriesOfThis ==
    ASSUME TypeInv, EntryInv, Walking
    PROVE  \A f \in Fields : entries[This][f] \in {NoEntry, value[This][f]}
  BY ThisIsRecipe DEF EntryInv, WalkedOnce, EntryHeld, Walking, TypeInv

LEMMA SnapshotOfThis ==
    ASSUME TypeInv, EntryInv, Walking
    PROVE  snapshot[This] # <<>> => \A g \in Fields : op + 1 <= g + 2 =>
               snapshot[This][g] \in {Blank, value[This][g]}
  <1>1. \A g \in Fields : op + 1 <= g + 2 => op <= g + 2
    BY PushAssumption DEF Fields, TypeInv, TypeOK
  <1> QED
    BY <1>1, ThisIsRecipe DEF EntryInv, SnapshotHeld, Walking, TypeInv

LEMMA FailKeepsEntries ==
    ASSUME TypeInv, EntryInv, Walking, OpFails,
           \A r \in Recipes \ {This} : snapshot'[r] = snapshot[r],
           snapshot'[This] # <<>> => \A g \in Fields : op + 1 <= g + 2 =>
               snapshot'[This][g] \in {Blank, value[This][g]}
    PROVE  EntryInv'
  <1>1. UNCHANGED <<pc, entries>>
    BY DEF OpFails, Untouched
  <1>2. \A f \in Fields : entries'[This][f] \in {NoEntry, value[This][f]}
    BY <1>1, EntriesOfThis
  <1>3. CASE Advance("error", <<>>) /\ UNCHANGED tenant
    <2>1. value' = value
      BY <1>3 DEF tenant
    <2>2. /\ \A r \in Recipes \ {This} : result'[r] = result[r]
          /\ result'[This] # "aborted"
          /\ (todo' = todo /\ op' = op + 1) \/ todo' = Tail(todo)
      BY <1>3, EmptyUndo, Advanced, PushAssumption DEF TypeInv, Outcome
    <2> QED
      BY <1>1, <1>2, <2>1, <2>2, EntryKept
  <1>4. CASE RolledBack(undo) /\ Finish("aborted")
    <2>1. \A r \in Recipes \ {This} : value'[r] = value[r]
      BY <1>4, RolledBackTyped
    <2>2. /\ result'[This] = "aborted" /\ todo' = Tail(todo)
          /\ \A r \in Recipes \ {This} : result'[r] = result[r]
      BY <1>4, ThisIsRecipe DEF Finish, TypeInv, TypeOK
    <2> QED
      BY <1>1, <2>1, <2>2, EntryKept
  <1> QED
    BY <1>3, <1>4 DEF OpFails

LEMMA NoWriteKeepsEntries ==
    ASSUME TypeInv, EntryInv, Walking, NEW res \in Outcome, NoWrite(res),
           \A r \in Recipes \ {This} :
               snapshot'[r] = snapshot[r] /\ entries'[r] = entries[r],
           snapshot'[This] # <<>> => \A g \in Fields : op + 1 <= g + 2 =>
               snapshot'[This][g] \in {Blank, value[This][g]},
           \A f \in Fields : entries'[This][f] \in {NoEntry, value[This][f]}
    PROVE  EntryInv'
  <1>1. value' = value /\ pc' = pc
    BY DEF NoWrite, Untouched, tenant
  <1>2. /\ \A r \in Recipes \ {This} : result'[r] = result[r]
        /\ result'[This] # "aborted"
        /\ (todo' = todo /\ op' = op + 1) \/ todo' = Tail(todo)
    BY EmptyUndo, Advanced, PushAssumption DEF TypeInv, NoWrite
  <1> QED
    BY <1>1, <1>2, EntryKept

LEMMA CreateFolderKeepsEntries ==
    ASSUME TypeInv, EntryInv, CreateFolder
    PROVE  EntryInv'
  <1>1. Walking /\ This \in Recipes
    BY ThisIsRecipe DEF CreateFolder, Executing, Walking, TypeInv
  <1>2. CASE NoWrite("clean") /\ UNCHANGED <<caches, entries>>
    BY <1>1, <1>2, NoWriteKeepsEntries, EntriesOfThis, SnapshotOfThis DEF Outcome, caches
  <1> DEFINE made == [kind |-> "folder", recipe |-> This, field |-> 0, prior |-> Blank]
  <1>3. CASE /\ Advance("clean", <<made>>)
             /\ UNCHANGED <<value, snapshot, entries, pc>>
    <2>1. <<made>> \in Seq(UndoEntry)
      <3>1. 0 \in 0 .. FieldCount
        BY PushAssumption
      <3>2. made \in UndoEntry
        BY <1>1, <3>1, BlankTyped DEF UndoEntry
      <3> QED
        BY <3>2
    <2> HIDE DEF made
    <2>2. /\ \A r \in Recipes \ {This} : result'[r] = result[r]
          /\ result'[This] # "aborted"
          /\ (todo' = todo /\ op' = op + 1) \/ todo' = Tail(todo)
      <3>1. "clean" \in Outcome
        BY DEF Outcome
      <3>2. TypeOK /\ UndoTyped
        BY DEF TypeInv
      <3> QED
        BY <1>1, <1>3, <2>1, <3>1, <3>2, Advanced, PushAssumption
    <2> QED
      BY <1>1, <1>3, <2>2, EntryKept, EntriesOfThis, SnapshotOfThis
  <1>4. CASE OpFails /\ UNCHANGED snapshot
    BY <1>1, <1>4, FailKeepsEntries, SnapshotOfThis
  <1> QED
    BY <1>2, <1>3, <1>4 DEF CreateFolder, Untouched

LEMMA CreateItemKeepsEntries ==
    ASSUME TypeInv, EntryInv, CreateItem
    PROVE  EntryInv'
  <1>1. Walking /\ This \in Recipes
    BY ThisIsRecipe DEF CreateItem, Executing, Walking, TypeInv
  <1>2. CASE NoWrite("clean") /\ UNCHANGED <<caches, entries>>
    BY <1>1, <1>2, NoWriteKeepsEntries, EntriesOfThis, SnapshotOfThis DEF Outcome, caches
  <1> DEFINE made == [kind |-> "item", recipe |-> This, field |-> 0, prior |-> Blank]
  <1>3. CASE /\ snapshot' = [snapshot EXCEPT ![This] = BlankItem]
             /\ Advance("clean", <<made>>)
             /\ UNCHANGED <<value, entries, pc>>
    <2>1. <<made>> \in Seq(UndoEntry)
      <3>1. 0 \in 0 .. FieldCount
        BY PushAssumption
      <3>2. made \in UndoEntry
        BY <1>1, <3>1, BlankTyped DEF UndoEntry
      <3> QED
        BY <3>2
    <2> HIDE DEF made
    <2>2. /\ \A r \in Recipes \ {This} : result'[r] = result[r]
          /\ result'[This] # "aborted"
          /\ (todo' = todo /\ op' = op + 1) \/ todo' = Tail(todo)
      <3>1. "clean" \in Outcome
        BY DEF Outcome
      <3>2. TypeOK /\ UndoTyped
        BY DEF TypeInv
      <3> QED
        BY <1>1, <1>3, <2>1, <3>1, <3>2, Advanced, PushAssumption
    <2>3. /\ \A r \in Recipes \ {This} : snapshot'[r] = snapshot[r]
          /\ \A g \in Fields : snapshot'[This][g] = Blank
      BY <1>1, <1>3 DEF BlankItem, TypeInv, TypeOK
    <2> QED
      BY <1>1, <1>3, <2>2, <2>3, EntryKept, EntriesOfThis
  <1>4. CASE OpFails /\ UNCHANGED snapshot
    BY <1>1, <1>4, FailKeepsEntries, SnapshotOfThis
  <1> QED
    BY <1>2, <1>3, <1>4 DEF CreateItem, Untouched

(* What the plan compares with is the tenant's, or blank.                  *)
LEMMA BeforeHeld ==
    ASSUME TypeInv, EntryInv, Walking
    PROVE  \A g \in Fields : op <= g + 2 => Before[g] \in {Blank, value[This][g]}
  BY ThisIsRecipe DEF Before, EntryInv, SnapshotHeld, Walking, TypeInv

LEMMA SetFieldKeepsEntries ==
    ASSUME TypeInv, EntryInv, NEW f \in Fields, SetField(f)
    PROVE  EntryInv'
  <1>1. Walking /\ This \in Recipes /\ op = f + 2
    BY ThisIsRecipe DEF SetField, Executing, Walking, TypeInv
  <1>2. Before \in [Fields -> Values]
    BY <1>1, BeforeTyped
  <1>3. /\ snapshot \in [Recipes -> {<<>>} \cup [Fields -> Values]]
        /\ entries \in [Recipes -> [Fields -> Values \cup {NoEntry}]]
        /\ value \in [Recipes -> [Fields -> Values]]
    BY DEF TypeInv, TypeOK
  <1>4. \A r \in Recipes \ {This} : snapshot'[r] = snapshot[r]
    BY <1>1, <1>3 DEF SetField
  <1>5. \A g \in Fields : op + 1 <= g + 2 => g # f /\ op <= g + 2
    BY <1>1, PushAssumption DEF Fields
  <1>6. \A g \in Fields : op + 1 <= g + 2 => snapshot'[This][g] \in {Blank, value[This][g]}
    <2>1. \A g \in Fields : g # f => snapshot'[This][g] = Before[g]
      BY <1>1, <1>2, <1>3 DEF SetField
    <2> QED
      BY <1>1, <1>5, <2>1, BeforeHeld
  <1>7. \A r \in Recipes \ {This} : Evidence(f, Status(f))[r] = entries[r]
    BY <1>3 DEF Evidence
  <1>8. \A g \in Fields : g # f =>
            Evidence(f, Status(f))[This][g] \in {NoEntry, value[This][g]}
    <2>1. \A g \in Fields : entries[This][g] \in {NoEntry, value[This][g]}
      BY <1>1, EntriesOfThis
    <2> QED
      BY <1>1, <1>3, <2>1 DEF Evidence
  <1>9. CASE /\ Status(f) # "update" /\ entries' = Evidence(f, Status(f))
             /\ NoWrite(IF Status(f) = "error" THEN "conflict" ELSE "clean")
    <2>1. entries'[This][f] \in {NoEntry, value[This][f]}
      <3>1. CASE Status(f) = "in-sync"
        <4>1. InSync(f)
          <5>1. options.policy # "in-sync"
            BY PushAssumption DEF TypeInv, TypeOK, Options
          <5> QED
            BY <3>1, <5>1 DEF Status
        <4>2. Before[f] \in {Blank, value[This][f]}
          BY <1>1, BeforeHeld DEF Fields
        <4>3. revision[This] = value[This][f]
          BY <1>1, <4>1, <4>2, RevisionTyped DEF InSync
        <4>4. entries' = [entries EXCEPT ![This][f] = revision[This]]
          BY <1>9, <3>1 DEF Evidence
        <4> QED
          BY <1>1, <1>3, <4>3, <4>4
      <3>2. CASE Status(f) # "in-sync"
        <4>1. entries' = entries
          BY <1>9, <3>2 DEF Evidence
        <4> QED
          BY <1>1, <4>1, EntriesOfThis
      <3> QED
        BY <3>1, <3>2
    <2>2. \A g \in Fields : entries'[This][g] \in {NoEntry, value[This][g]}
      BY <1>8, <1>9, <2>1
    <2>3. \A r \in Recipes \ {This} : entries'[r] = entries[r]
      BY <1>7, <1>9
    <2> DEFINE res == IF Status(f) = "error" THEN "conflict" ELSE "clean"
    <2>4. res \in Outcome
      BY DEF Outcome
    <2>5. NoWrite(res)
      BY <1>9
    <2> HIDE DEF res
    <2> QED
      BY <1>1, <1>4, <1>6, <2>2, <2>3, <2>4, <2>5, NoWriteKeepsEntries
  <1> DEFINE made == [kind |-> "field", recipe |-> This, field |-> f, prior |-> Before[f]]
  <1>10. CASE /\ Status(f) = "update"
              /\ value' = [value EXCEPT ![This][f] = revision[This]]
              /\ entries' = Evidence(f, Status(f))
              /\ Advance("clean", <<made>>)
              /\ UNCHANGED pc
    <2>1. made \in UndoEntry
      BY <1>1, <1>2 DEF UndoEntry, Fields
    <2> HIDE DEF made
    <2>2. /\ \A r \in Recipes \ {This} : result'[r] = result[r]
          /\ result'[This] # "aborted"
          /\ (todo' = todo /\ op' = op + 1) \/ todo' = Tail(todo)
      <3>1. "clean" \in Outcome
        BY DEF Outcome
      <3>2. TypeOK /\ UndoTyped /\ <<made>> \in Seq(UndoEntry)
        BY <2>1 DEF TypeInv
      <3> QED
        BY <1>1, <1>10, <3>1, <3>2, Advanced, PushAssumption
    <2>3. /\ \A r \in Recipes \ {This} : value'[r] = value[r]
          /\ \A g \in Fields : g # f => value'[This][g] = value[This][g]
          /\ value'[This][f] = revision[This]
      BY <1>1, <1>3, <1>10
    <2>4. entries'[This][f] = revision[This]
      BY <1>1, <1>3, <1>10 DEF Evidence
    <2>5. \A g \in Fields : entries'[This][g] \in {NoEntry, value'[This][g]}
      BY <1>8, <1>10, <2>3, <2>4
    <2>6. \A r \in Recipes \ {This} : entries'[r] = entries[r]
      BY <1>7, <1>10
    <2>7. \A g \in Fields : op + 1 <= g + 2 => snapshot'[This][g] \in {Blank, value'[This][g]}
      BY <1>5, <1>6, <2>3
    <2> QED
      BY <1>1, <1>4, <1>10, <2>2, <2>3, <2>5, <2>6, <2>7, EntryKept
  <1>11. CASE OpFails
    BY <1>1, <1>4, <1>6, <1>11, FailKeepsEntries
  <1> QED
    BY <1>9, <1>10, <1>11 DEF SetField, Untouched, made

(* Saving, exiting and idling leave the evidence as it is.                 *)
LEMMA PausedKeepsEntries ==
    ASSUME EntryInv, pc' # "executing",
           UNCHANGED <<value, entries, result>>, pc' = "idle" => pc = "idle"
    PROVE  EntryInv'
  BY DEF EntryInv, WalkedOnce, SnapshotHeld, EntryHeld, IdleForgets

LEMMA StartKeepsEntries ==
    ASSUME TypeInv, NEW o \in Options, StartPush(o)
    PROVE  EntryInv'
  <1>1. /\ todo' = Order /\ pc' = "executing"
        /\ \A r \in Recipes :
              /\ snapshot'[r] = <<>> /\ entries'[r] = Nothing
              /\ result'[r] \in {"none", "cached"}
    BY DEF StartPush
  <1>2. \A i, j \in DOMAIN todo' : todo'[i] = todo'[j] => i = j
    BY <1>1, PushAssumption
  <1>3. \A i \in DOMAIN todo' : todo'[i] \in Recipes
    BY <1>1 DEF Recipes
  <1>4. todo' # <<>> => 1 \in DOMAIN todo'
    BY <1>1, PushAssumption, LenProperties
  <1>5. EntryHeld' /\ IdleForgets'
    BY <1>1 DEF EntryHeld, IdleForgets, Nothing
  <1>6. WalkedOnce' /\ SnapshotHeld'
    BY <1>1, <1>2, <1>3, <1>4 DEF WalkedOnce, SnapshotHeld, Unwalked
  <1> QED
    BY <1>5, <1>6 DEF EntryInv

LEMMA EntryStep ==
    ASSUME TypeInv, EntryInv, [Next]_vars
    PROVE  EntryInv'
  <1>1. CASE UNCHANGED vars
    <2>1. UNCHANGED <<value, entries, result, todo, op, snapshot, pc>>
      BY <1>1 DEF vars, tenant, outcome, caches
    <2> QED
      BY <2>1 DEF EntryInv, WalkedOnce, SnapshotHeld, EntryHeld, IdleForgets, Unwalked
  <1>2. ASSUME NEW r \in Recipes, NEW f \in Fields, AuthorEdit(r, f)
        PROVE  EntryInv'
    <2>1. pc = "idle" /\ UNCHANGED <<pc, entries>>
      BY <1>2 DEF AuthorEdit, outcome
    <2>2. \A q \in Recipes : entries'[q] = Nothing
      BY <2>1 DEF EntryInv, IdleForgets
    <2> QED
      BY <2>1, <2>2
      DEF EntryInv, WalkedOnce, SnapshotHeld, EntryHeld, IdleForgets, Nothing
  <1>3. ASSUME NEW r \in Recipes, NEW n \in 1 .. MaxRevision, Revise(r, n)
        PROVE  EntryInv'
    BY <1>3, PausedKeepsEntries DEF Revise, tenant, outcome
  <1>4. ASSUME NEW o \in Options, StartPush(o)
        PROVE  EntryInv'
    BY <1>4, StartKeepsEntries
  <1>5. CASE SkipCached
    <2>1. Walking /\ todo' = Tail(todo)
          /\ UNCHANGED <<pc, value, snapshot, entries, result>>
      BY <1>5 DEF SkipCached, Walking, tenant, caches, outcome
    <2> QED
      BY <2>1, EntryKept, EntriesOfThis
  <1>6. CASE CreateFolder
    BY <1>6, CreateFolderKeepsEntries
  <1>7. CASE CreateItem
    BY <1>7, CreateItemKeepsEntries
  <1>8. ASSUME NEW f \in Fields, SetField(f)
        PROVE  EntryInv'
    BY <1>8, SetFieldKeepsEntries
  <1>9. ASSUME NEW f \in Fields, SetUnresolved(f)
        PROVE  EntryInv'
    <2>1. Walking /\ NoWrite("clean") /\ UNCHANGED <<snapshot, entries>>
      BY <1>9 DEF SetUnresolved, Executing, Walking, caches
    <2>2. "clean" \in Outcome
      BY DEF Outcome
    <2> QED
      BY <2>1, <2>2, NoWriteKeepsEntries, EntriesOfThis, SnapshotOfThis
  <1>10. CASE PersistCache \/ PersistBaseline \/ EndPush
    BY <1>10, PausedKeepsEntries DEF PersistCache, PersistBaseline, EndPush, tenant, outcome
  <1>11. CASE Forget
    BY <1>11 DEF Forget, EntryInv, WalkedOnce, SnapshotHeld, EntryHeld, IdleForgets, Nothing
  <1> QED
    BY <1>1, <1>2, <1>3, <1>4, <1>5, <1>6, <1>7, <1>8, <1>9, <1>10, <1>11
    DEF Next, Execute, Exit, Crash

(* What one push records of a recipe is what the tenant holds then.        *)
Recorded ==
    \A r \in Recipes, f \in Fields :
        baseline'[r][f] \notin {baseline[r][f], NoEntry}
        => value[r][f] = baseline'[r][f]

LEMMA RecordedStep ==
    ASSUME TypeInv, EntryInv, [Next]_vars
    PROVE  Recorded
  <1>1. CASE baseline' = baseline
    BY <1>1 DEF Recorded
  <1>2. CASE PersistBaseline
    <2> SUFFICES ASSUME NEW r \in Recipes, NEW f \in Fields,
                        baseline'[r][f] \notin {baseline[r][f], NoEntry}
                 PROVE  value[r][f] = baseline'[r][f]
      BY DEF Recorded
    <2>1. /\ result[This] = "clean"
          /\ baseline' = [baseline EXCEPT ![This] = entries[This]]
      BY <1>2 DEF PersistBaseline
    <2>2. r = This
      BY <2>1 DEF TypeInv, TypeOK
    <2>3. baseline'[r][f] = entries[r][f]
      BY <2>1, <2>2 DEF TypeInv, TypeOK
    <2>4. entries[r][f] \in {NoEntry, value[r][f]}
      BY <2>1, <2>2 DEF EntryInv, EntryHeld
    <2> QED
      BY <2>3, <2>4
  <1>3. \/ baseline' = baseline
        \/ PersistBaseline
    BY DEF Next, Execute, vars, AuthorEdit, Revise, StartPush, SkipCached, CreateFolder,
           CreateItem, SetField, SetUnresolved, NoWrite, OpFails, Untouched, PersistCache,
           EndPush, Exit, Crash, Forget, stores
  <1> QED
    BY <1>1, <1>2, <1>3

LEMMA EntryInit ==
    ASSUME Init
    PROVE  EntryInv
  <1>1. pc = "idle" /\ \A r \in Recipes : entries[r] = Nothing
    BY DEF Init
  <1>2. \A f \in Fields : Nothing[f] = NoEntry
    BY DEF Nothing
  <1> QED
    BY <1>1, <1>2 DEF EntryInv, WalkedOnce, SnapshotHeld, EntryHeld, IdleForgets

(* A baseline comes to record a value only while the tenant holds it,      *)
(* whatever was withheld, failed, rolled back or cut short before.         *)
THEOREM BaselineHoldsTruth == Spec => BaselineIsHeld
  <1>1. Init => TypeInv /\ EntryInv
    BY TypeInit, EntryInit
  <1>2. TypeInv /\ EntryInv /\ [Next]_vars => TypeInv' /\ EntryInv'
    BY TypeStep, EntryStep
  <1>3. TypeInv /\ EntryInv /\ [Next]_vars => [Recorded]_vars
    BY RecordedStep
  <1> QED
    BY <1>1, <1>2, <1>3, PTL DEF Spec, BaselineIsHeld, Recorded

------------------------------------------------------------------------------
(* What a recipe reported as clean means: how far its walk has come, and that *)
(* nothing another recipe does takes it back.                              *)

LeftToAuthor(r) == r \in Seeded \/ options.policy = "cms-wins"

(* The operation a recipe's walk has come to.                              *)
Reached(r) == IF todo # <<>> /\ r = todo[1] THEN op ELSE FieldCount + 3

SeenExist ==
    pc = "executing" =>
        \A r \in Recipes : r \in seen /\ result[r] # "aborted" => r \in items

UndoOurs ==
    pc = "executing" =>
        /\ op = 1 => undo = <<>>
        /\ todo # <<>> => \A i \in DOMAIN undo : undo[i].recipe = todo[1]

OutcomeKnown == Walking /\ op > 1 => result[todo[1]] \in Outcome

(* What has been walked of a recipe that is clean so far.                  *)
WalkedClean ==
    pc = "executing" =>
        \A r \in Recipes : result[r] = "clean" =>
            /\ Reached(r) > 2 => r \in seen
            /\ \A f \in Fields : f + 2 < Reached(r) =>
                  LeftToAuthor(r) \/ value[r][f] = revision[r]

SavedClean ==
    pc \in {"saving", "saved"} =>
        \A r \in Recipes : result[r] = "clean" =>
            /\ r \in items
            /\ \A f \in Fields : LeftToAuthor(r) \/ value[r][f] = revision[r]

CleanInv == SeenExist /\ UndoOurs /\ OutcomeKnown /\ WalkedClean /\ SavedClean

(* A step of the walk: on with the same recipe, or on to the next one.     *)
OnOrNext ==
    \/ /\ todo' = todo /\ op' = op + 1 /\ op < LastOp
       /\ result'[This] \in Outcome
       /\ \A i \in DOMAIN undo' : undo'[i].recipe = This
    \/ /\ todo' = Tail(todo) /\ op' = 1 /\ undo' = <<>>

LEMMA CleanKept ==
    ASSUME TypeInv, EntryInv, CleanInv, Walking, pc' = pc,
           UNCHANGED <<options, revision>>, OnOrNext,
           result'[This] = "clean" => op' = op + 1 \/ op = LastOp,
           \A r \in Recipes \ {This} :
               /\ result'[r] = result[r] /\ value'[r] = value[r]
               /\ r \in items => r \in items'
               /\ r \in seen' <=> r \in seen,
           This \in seen' /\ result'[This] # "aborted" => This \in items',
           result'[This] = "clean" =>
               /\ op + 1 > 2 => This \in seen'
               /\ \A f \in Fields : f + 2 < op + 1 =>
                     LeftToAuthor(This) \/ value'[This][f] = revision[This]
    PROVE  CleanInv'
  <1>1. /\ This \in Recipes /\ This = todo[1] /\ todo # <<>>
        /\ op \in 1 .. FieldCount + 2 /\ FieldCount \in Nat
    BY ThisIsRecipe, PushAssumption DEF TypeInv, TypeOK, Walking
  <1>2. SeenExist'
    BY <1>1 DEF CleanInv, SeenExist, Walking
  <1>3. UndoOurs'
    <2>1. op + 1 # 1
      BY <1>1
    <2> QED
      BY <1>1, <2>1 DEF OnOrNext, UndoOurs
  <1>4. OutcomeKnown'
    <2>1. ~(1 > 1)
      OBVIOUS
    <2> QED
      BY <1>1, <2>1 DEF OnOrNext, OutcomeKnown
  <1>5. \A r \in Recipes : LeftToAuthor(r)' <=> LeftToAuthor(r)
    BY DEF LeftToAuthor
  <1>6. WalkedClean'
    <2> SUFFICES ASSUME NEW r \in Recipes, result'[r] = "clean"
                 PROVE  /\ Reached(r)' > 2 => r \in seen'
                        /\ \A f \in Fields : f + 2 < Reached(r)' =>
                              LeftToAuthor(r) \/ value'[r][f] = revision[r]
      BY <1>5 DEF WalkedClean
    <2>1. CASE r # This
      <3>1. Reached(r) = FieldCount + 3
        BY <1>1, <2>1 DEF Reached
      <3>2. /\ FieldCount + 3 > 2 => r \in seen'
            /\ \A f \in Fields : f + 2 < FieldCount + 3 =>
                  LeftToAuthor(r) \/ value'[r][f] = revision[r]
        BY <1>1, <2>1, <3>1 DEF CleanInv, WalkedClean, Walking
      <3>3. FieldCount + 3 > 2 /\ \A f \in Fields : f + 2 < FieldCount + 3
        BY <1>1 DEF Fields
      <3> QED
        BY <3>2, <3>3
    <2>2. CASE r = This
      <3>1. /\ op + 1 > 2 => r \in seen'
            /\ \A f \in Fields : f + 2 < op + 1 =>
                  LeftToAuthor(r) \/ value'[r][f] = revision[r]
        BY <2>2
      <3>2. CASE op = LastOp
        <4>1. op + 1 > 2 /\ \A f \in Fields : f + 2 < op + 1
          BY <1>1, <3>2, PushAssumption DEF LastOp, Fields
        <4> QED
          BY <3>1, <4>1
      <3>3. CASE op # LastOp
        <4>1. todo' = todo /\ op' = op + 1
          <5>1. op + 1 # 1
            BY <1>1
          <5> QED
            BY <2>2, <3>3, <5>1 DEF OnOrNext
        <4>2. Reached(r)' = op + 1
          BY <1>1, <2>2, <4>1 DEF Reached
        <4> QED
          BY <3>1, <4>2
      <3> QED
        BY <3>2, <3>3
    <2> QED
      BY <2>1, <2>2
  <1>7. SavedClean'
    BY DEF SavedClean, Walking
  <1> QED
    BY <1>2, <1>3, <1>4, <1>6, <1>7 DEF CleanInv

(* The recipe that is walked, in the invariant's words.                    *)
LEMMA CleanOfThis ==
    ASSUME TypeInv, EntryInv, CleanInv, Walking
    PROVE  /\ This \in Recipes /\ result[This] # "aborted"
           /\ This \in seen => This \in items
           /\ op > 1 => result[This] \in Outcome
           /\ op = 1 => undo = <<>>
           /\ \A i \in DOMAIN undo : undo[i].recipe = This
           /\ result[This] = "clean" =>
                 /\ op > 2 => This \in seen
                 /\ \A f \in Fields : f + 2 < op =>
                       LeftToAuthor(This) \/ value[This][f] = revision[This]
  <1>1. This \in Recipes /\ This = todo[1]
    BY ThisIsRecipe DEF TypeInv
  <1>2. Reached(This) = op
    BY <1>1 DEF Reached, Walking
  <1>3. result[This] # "aborted"
    BY <1>1 DEF EntryInv, WalkedOnce, Walking
  <1> QED
    BY <1>1, <1>2, <1>3
    DEF CleanInv, SeenExist, UndoOurs, OutcomeKnown, WalkedClean, Walking

(* An operation whose outcome is in: it is clean only if all were.         *)
LEMMA AdvanceOn ==
    ASSUME TypeInv, EntryInv, CleanInv, Walking, result[This] # "cached",
           NEW res \in Outcome, NEW undoing \in Seq(UndoEntry),
           \A i \in DOMAIN undoing : undoing[i].recipe = This,
           Advance(res, undoing)
    PROVE  /\ OnOrNext
           /\ \A r \in Recipes \ {This} : result'[r] = result[r]
           /\ result'[This] # "aborted"
           /\ result'[This] = "clean" => op' = op + 1 \/ op = LastOp
           /\ result'[This] = "clean" =>
                 res = "clean" /\ (op > 1 => result[This] = "clean")
  <1>1. /\ This \in Recipes
        /\ op > 1 => result[This] \in Outcome
        /\ \A i \in DOMAIN undo : undo[i].recipe = This
    BY CleanOfThis
  <1>2. result \in [Recipes -> Result]
    BY DEF TypeInv, TypeOK
  <1>3. result'[This] = Worse(res) /\ \A r \in Recipes \ {This} : result'[r] = result[r]
    BY <1>1, <1>2 DEF Advance, Finish
  <1>4. Worse(res) \in Outcome
    BY DEF Worse, Outcome
  <1>5. Worse(res) = "clean" => res = "clean" /\ (op > 1 => result[This] = "clean")
    BY <1>1 DEF Worse, Outcome
  <1>6. \A i \in DOMAIN (undoing \o undo) : (undoing \o undo)[i].recipe = This
    <2>1. /\ DOMAIN (undoing \o undo) = 1 .. Len(undoing) + Len(undo)
          /\ \A i \in 1 .. Len(undoing) + Len(undo) :
                (undoing \o undo)[i] = IF i <= Len(undoing) THEN undoing[i]
                                       ELSE undo[i - Len(undoing)]
          /\ DOMAIN undoing = 1 .. Len(undoing) /\ DOMAIN undo = 1 .. Len(undo)
          /\ Len(undoing) \in Nat /\ Len(undo) \in Nat
      BY ConcatProperties, LenProperties DEF TypeInv, UndoTyped
    <2> QED
      BY <1>1, <2>1
  <1>7. CASE op = LastOp /\ Finish(Worse(res))
    BY <1>3, <1>4, <1>5, <1>7 DEF Finish, OnOrNext, Outcome
  <1>8. CASE /\ op < LastOp /\ op' = op + 1 /\ undo' = undoing \o undo
             /\ todo' = todo
    BY <1>3, <1>4, <1>5, <1>6, <1>8 DEF OnOrNext, Outcome
  <1> QED
    BY <1>7, <1>8 DEF Advance

LEMMA NoWriteKeepsClean ==
    ASSUME TypeInv, EntryInv, CleanInv, Walking, result[This] # "cached",
           NEW res \in Outcome, NoWrite(res), UNCHANGED seen,
           res = "clean" /\ (op > 1 => result[This] = "clean") =>
               /\ op + 1 > 2 => This \in seen
               /\ \A f \in Fields : f + 2 = op =>
                     LeftToAuthor(This) \/ value[This][f] = revision[This]
    PROVE  CleanInv'
  <1>1. UNCHANGED <<pc, options, revision, items, value>>
    BY DEF NoWrite, Untouched, run, stores, tenant
  <1>2. /\ OnOrNext
        /\ \A r \in Recipes \ {This} : result'[r] = result[r]
        /\ result'[This] = "clean" => op' = op + 1 \/ op = LastOp
        /\ result'[This] = "clean" =>
              res = "clean" /\ (op > 1 => result[This] = "clean")
    <2>1. Advance(res, <<>>) /\ \A i \in DOMAIN <<>> : <<>>[i].recipe = This
      BY DEF NoWrite
    <2> QED
      BY <2>1, EmptyUndo, AdvanceOn
  <1>3. This \in seen => This \in items
    BY CleanOfThis
  <1>4. ASSUME result'[This] = "clean", NEW f \in Fields, f + 2 < op + 1
        PROVE  LeftToAuthor(This) \/ value[This][f] = revision[This]
    <2>1. op \in Nat /\ f \in Nat /\ f >= 1
      BY DEF TypeInv, TypeOK, Fields
    <2>2. CASE f + 2 = op
      BY <1>2, <1>4, <2>2
    <2>3. CASE f + 2 < op
      BY <1>2, <1>4, <2>1, <2>3, CleanOfThis
    <2> QED
      BY <1>4, <2>1, <2>2, <2>3
  <1> QED
    BY <1>1, <1>2, <1>3, <1>4, CleanKept

LEMMA RolledBackOurs ==
    ASSUME TypeInv, EntryInv, CleanInv, Walking, RolledBack(undo)
    PROVE  items \ {This} \subseteq items'
  BY CleanOfThis DEF RolledBack

LEMMA FailKeepsClean ==
    ASSUME TypeInv, EntryInv, CleanInv, Walking, result[This] # "cached", OpFails
    PROVE  CleanInv'
  <1>1. UNCHANGED <<pc, options, revision, seen>>
    BY DEF OpFails, Untouched, run, stores
  <1>2. CASE Advance("error", <<>>) /\ UNCHANGED tenant
    <2>1. UNCHANGED <<items, value>>
      BY <1>2 DEF tenant
    <2>2. /\ OnOrNext
          /\ \A r \in Recipes \ {This} : result'[r] = result[r]
          /\ result'[This] # "clean"
      <3>1. "error" \in Outcome /\ \A i \in DOMAIN <<>> : <<>>[i].recipe = This
        BY DEF Outcome
      <3> QED
        BY <1>2, <3>1, EmptyUndo, AdvanceOn
    <2>3. This \in seen => This \in items
      BY CleanOfThis
    <2> QED
      BY <1>1, <2>1, <2>2, <2>3, CleanKept
  <1>3. CASE RolledBack(undo) /\ Finish("aborted")
    <2>1. /\ \A r \in Recipes \ {This} : value'[r] = value[r]
          /\ items \ {This} \subseteq items'
      BY <1>3, RolledBackTyped, RolledBackOurs
    <2>2. /\ result'[This] = "aborted" /\ OnOrNext
          /\ \A r \in Recipes \ {This} : result'[r] = result[r]
      BY <1>3, ThisIsRecipe DEF Finish, OnOrNext, TypeInv, TypeOK
    <2> QED
      BY <1>1, <2>1, <2>2, CleanKept
  <1> QED
    BY <1>2, <1>3 DEF OpFails

LEMMA CreateFolderKeepsClean ==
    ASSUME TypeInv, EntryInv, CleanInv, CreateFolder
    PROVE  CleanInv'
  <1>1. /\ Walking /\ This \in Recipes /\ op = 1 /\ result[This] # "cached"
        /\ \A f \in Fields : f + 2 # 1 /\ ~(f + 2 < 1 + 1)
    BY ThisIsRecipe DEF CreateFolder, Executing, Walking, TypeInv, Fields
  <1>2. CASE NoWrite("clean") /\ UNCHANGED <<caches, entries>>
    BY <1>1, <1>2, NoWriteKeepsClean DEF Outcome, caches
  <1> DEFINE made == [kind |-> "folder", recipe |-> This, field |-> 0, prior |-> Blank]
  <1>3. CASE /\ Advance("clean", <<made>>)
             /\ seen' = seen \cup {"folder"}
             /\ UNCHANGED <<items, value>>
             /\ Untouched
    <2>1. UNCHANGED <<pc, options, revision>>
      BY <1>3 DEF Untouched, run, stores
    <2>2. <<made>> \in Seq(UndoEntry) /\ made.recipe = This
      <3>1. 0 \in 0 .. FieldCount
        BY PushAssumption
      <3>2. made \in UndoEntry
        BY <1>1, <3>1, BlankTyped DEF UndoEntry
      <3> QED
        BY <3>2
    <2> HIDE DEF made
    <2>3. /\ OnOrNext
          /\ \A r \in Recipes \ {This} : result'[r] = result[r]
          /\ result'[This] = "clean" => op' = op + 1 \/ op = LastOp
      <3>1. "clean" \in Outcome /\ \A i \in DOMAIN <<made>> : <<made>>[i].recipe = This
        BY <2>2 DEF Outcome
      <3> QED
        BY <1>1, <1>3, <2>2, <3>1, AdvanceOn
    <2>4. This \in seen => This \in items
      BY <1>1, CleanOfThis
    <2>5. \A r \in Recipes : r \in seen' <=> r \in seen
      BY <1>3, PushAssumption
    <2> QED
      BY <1>1, <1>3, <2>1, <2>3, <2>4, <2>5, CleanKept
  <1>4. CASE OpFails
    BY <1>1, <1>4, FailKeepsClean
  <1> QED
    BY <1>2, <1>3, <1>4 DEF CreateFolder, made

LEMMA CreateItemKeepsClean ==
    ASSUME TypeInv, EntryInv, CleanInv, CreateItem
    PROVE  CleanInv'
  <1>1. /\ Walking /\ This \in Recipes /\ op = 2 /\ result[This] # "cached"
        /\ \A f \in Fields : f + 2 # 2 /\ ~(f + 2 < 2 + 1)
    BY ThisIsRecipe DEF CreateItem, Executing, Walking, TypeInv, Fields
  <1>2. CASE /\ ~PlannedAsCreate(This)
             /\ NoWrite("clean") /\ UNCHANGED <<caches, entries>>
    BY <1>1, <1>2, NoWriteKeepsClean DEF Outcome, caches, PlannedAsCreate
  <1> DEFINE made == [kind |-> "item", recipe |-> This, field |-> 0, prior |-> Blank]
  <1>3. CASE /\ Advance("clean", <<made>>)
             /\ items' = items \cup {This}
             /\ seen' = seen \cup {This}
             /\ UNCHANGED value
             /\ Untouched
    <2>1. UNCHANGED <<pc, options, revision>>
      BY <1>3 DEF Untouched, run, stores
    <2>2. <<made>> \in Seq(UndoEntry) /\ made.recipe = This
      <3>1. 0 \in 0 .. FieldCount
        BY PushAssumption
      <3>2. made \in UndoEntry
        BY <1>1, <3>1, BlankTyped DEF UndoEntry
      <3> QED
        BY <3>2
    <2> HIDE DEF made
    <2>3. /\ OnOrNext
          /\ \A r \in Recipes \ {This} : result'[r] = result[r]
          /\ result'[This] = "clean" => op' = op + 1 \/ op = LastOp
      <3>1. "clean" \in Outcome /\ \A i \in DOMAIN <<made>> : <<made>>[i].recipe = This
        BY <2>2 DEF Outcome
      <3> QED
        BY <1>1, <1>3, <2>2, <3>1, AdvanceOn
    <2> QED
      BY <1>1, <1>3, <2>1, <2>3, CleanKept
  <1>4. CASE OpFails
    BY <1>1, <1>4, FailKeepsClean
  <1> QED
    BY <1>2, <1>3, <1>4 DEF CreateItem, made

LEMMA SetUnresolvedKeepsClean ==
    ASSUME TypeInv, EntryInv, CleanInv, NEW f \in Fields, SetUnresolved(f)
    PROVE  CleanInv'
  <1>1. /\ Walking /\ op = f + 2 /\ result[This] # "cached" /\ This \notin seen
        /\ NoWrite("clean") /\ UNCHANGED seen
    BY DEF SetUnresolved, Executing, Walking, caches
  <1>2. op > 2 /\ op > 1
    BY <1>1 DEF Fields
  <1>3. ~(op > 1 => result[This] = "clean")
    BY <1>1, <1>2, CleanOfThis
  <1> QED
    BY <1>1, <1>3, NoWriteKeepsClean DEF Outcome

(* A write that needs no call, or withheld: what it leaves is the current  *)
(* revision, or somebody else's to decide.                                 *)
LEMMA NotWrittenIsRight ==
    ASSUME TypeInv, EntryInv, Walking, NEW f \in Fields, op = f + 2,
           Status(f) \notin {"update", "error"}
    PROVE  LeftToAuthor(This) \/ value[This][f] = revision[This]
  <1>1. options.policy \in {"error", "recipe-wins", "cms-wins"}
    BY PushAssumption DEF TypeInv, TypeOK, Options
  <1>2. CASE InSync(f)
    <2>1. Before[f] \in {Blank, value[This][f]}
      BY BeforeHeld DEF TypeInv, TypeOK
    <2> QED
      BY <1>2, <2>1, RevisionTyped DEF InSync
  <1>3. CASE ~InSync(f) /\ SeedKept(f)
    BY <1>3 DEF SeedKept, LeftToAuthor
  <1>4. CASE ~InSync(f) /\ ~SeedKept(f)
    BY <1>1, <1>4 DEF Status, LeftToAuthor
  <1> QED
    BY <1>2, <1>3, <1>4

LEMMA SetFieldKeepsClean ==
    ASSUME TypeInv, EntryInv, CleanInv, NEW f \in Fields, SetField(f)
    PROVE  CleanInv'
  <1>1. /\ Walking /\ This \in Recipes /\ op = f + 2 /\ result[This] # "cached"
        /\ This \in seen /\ UNCHANGED seen
    BY ThisIsRecipe DEF SetField, Executing, Walking, TypeInv
  <1>2. This \in items
    BY <1>1, CleanOfThis
  <1>3. f \in Nat /\ op \in Nat /\ op > 1 /\ FieldCount \in Nat
    BY <1>1, PushAssumption DEF Fields
  <1>4. CASE /\ Status(f) # "update"
             /\ NoWrite(IF Status(f) = "error" THEN "conflict" ELSE "clean")
    <2> DEFINE res == IF Status(f) = "error" THEN "conflict" ELSE "clean"
    <2>1. res \in Outcome /\ NoWrite(res)
      BY <1>4 DEF Outcome
    <2>2. res = "clean" => LeftToAuthor(This) \/ value[This][f] = revision[This]
      BY <1>1, <1>4, NotWrittenIsRight
    <2>3. \A g \in Fields : g + 2 = op => g = f
      BY <1>1 DEF Fields
    <2> HIDE DEF res
    <2> QED
      BY <1>1, <2>1, <2>2, <2>3, NoWriteKeepsClean
  <1> DEFINE made == [kind |-> "field", recipe |-> This, field |-> f, prior |-> Before[f]]
  <1>5. CASE /\ value' = [value EXCEPT ![This][f] = revision[This]]
             /\ Advance("clean", <<made>>)
             /\ UNCHANGED items
             /\ Untouched
    <2>1. UNCHANGED <<pc, options, revision>>
      BY <1>5 DEF Untouched, run, stores
    <2>2. made \in UndoEntry /\ made.recipe = This
      BY <1>1, BeforeTyped DEF UndoEntry, Fields
    <2> HIDE DEF made
    <2>3. /\ OnOrNext
          /\ \A r \in Recipes \ {This} : result'[r] = result[r]
          /\ result'[This] = "clean" => op' = op + 1 \/ op = LastOp
          /\ result'[This] = "clean" => result[This] = "clean"
      <3>1. "clean" \in Outcome /\ \A i \in DOMAIN <<made>> : <<made>>[i].recipe = This
        BY <2>2 DEF Outcome
      <3>2. <<made>> \in Seq(UndoEntry)
        BY <2>2
      <3> QED
        BY <1>1, <1>3, <1>5, <3>1, <3>2, AdvanceOn
    <2>4. /\ \A r \in Recipes \ {This} : value'[r] = value[r]
          /\ \A g \in Fields : g # f => value'[This][g] = value[This][g]
          /\ value'[This][f] = revision[This]
      BY <1>1, <1>5 DEF TypeInv, TypeOK
    <2>5. ASSUME result'[This] = "clean", NEW g \in Fields, g + 2 < op + 1
          PROVE  LeftToAuthor(This) \/ value'[This][g] = revision[This]
      <3>1. CASE g = f
        BY <2>4, <3>1
      <3>2. CASE g # f
        <4>1. g + 2 < op
          BY <1>1, <1>3, <2>5, <3>2 DEF Fields
        <4> QED
          BY <1>1, <2>3, <2>4, <2>5, <3>2, <4>1, CleanOfThis
      <3> QED
        BY <3>1, <3>2
    <2> QED
      BY <1>1, <1>2, <1>5, <2>1, <2>3, <2>4, <2>5, CleanKept
  <1>6. CASE OpFails
    BY <1>1, <1>6, FailKeepsClean
  <1> QED
    BY <1>4, <1>5, <1>6 DEF SetField, made

LEMMA CleanStep ==
    ASSUME TypeInv, EntryInv, CleanInv, [Next]_vars
    PROVE  CleanInv'
  <1>1. ASSUME pc' = "idle"
        PROVE  CleanInv'
    BY <1>1
    DEF CleanInv, SeenExist, UndoOurs, OutcomeKnown, WalkedClean, SavedClean, Walking
  <1>2. CASE UNCHANGED vars
    <2>1. UNCHANGED <<items, value, revision, options, result, pc, todo, op, undo, seen>>
      BY <1>2 DEF vars, tenant, stores, run, caches, outcome
    <2> QED
      BY <2>1
      DEF CleanInv, SeenExist, UndoOurs, OutcomeKnown, WalkedClean, SavedClean, Walking,
          Reached, LeftToAuthor
  <1>3. ASSUME NEW r \in Recipes, NEW f \in Fields, AuthorEdit(r, f)
        PROVE  CleanInv'
    BY <1>1, <1>3 DEF AuthorEdit
  <1>4. ASSUME NEW r \in Recipes, NEW n \in 1 .. MaxRevision, Revise(r, n)
        PROVE  CleanInv'
    BY <1>1, <1>4 DEF Revise
  <1>5. ASSUME NEW o \in Options, StartPush(o)
        PROVE  CleanInv'
    <2>1. /\ pc' = "executing" /\ op' = 1 /\ undo' = <<>>
          /\ seen' = Prefetched /\ items' = items
          /\ \A r \in Recipes : result'[r] \in {"none", "cached"}
      BY <1>5 DEF StartPush, tenant
    <2>2. \A r \in Recipes : r \in Prefetched => r \in items
      BY PushAssumption DEF Prefetched
    <2>3. ~(1 > 1) /\ DOMAIN <<>> = {}
      OBVIOUS
    <2> QED
      BY <2>1, <2>2, <2>3
      DEF CleanInv, SeenExist, UndoOurs, OutcomeKnown, WalkedClean, SavedClean
  <1>6. CASE SkipCached
    <2>1. /\ Walking /\ todo' = Tail(todo) /\ result[This] = "cached"
          /\ UNCHANGED <<pc, op, undo, seen, items, value, revision, options, result>>
      BY <1>6 DEF SkipCached, Walking, tenant, stores, run, caches, outcome
    <2>2. op = 1 /\ undo = <<>>
      <3>1. op \in Nat /\ (op > 1 => result[This] \in Outcome) /\ op >= 1
        BY <2>1, CleanOfThis DEF TypeInv, TypeOK
      <3>2. op = 1
        BY <2>1, <3>1 DEF Outcome
      <3> QED
        BY <2>1, <3>2, CleanOfThis
    <2>3. OnOrNext
      BY <2>1, <2>2 DEF OnOrNext
    <2> QED
      BY <2>1, <2>3, CleanOfThis, CleanKept
  <1>7. CASE CreateFolder
    BY <1>7, CreateFolderKeepsClean
  <1>8. CASE CreateItem
    BY <1>8, CreateItemKeepsClean
  <1>9. ASSUME NEW f \in Fields, SetField(f)
        PROVE  CleanInv'
    BY <1>9, SetFieldKeepsClean
  <1>10. ASSUME NEW f \in Fields, SetUnresolved(f)
         PROVE  CleanInv'
    BY <1>10, SetUnresolvedKeepsClean
  <1>11. CASE PersistCache
    <2>1. /\ pc = "executing" /\ todo = <<>> /\ pc' = "saving"
          /\ UNCHANGED <<items, value, revision, options, result>>
      BY <1>11 DEF PersistCache, tenant, run, outcome
    <2>2. \A r \in Recipes : Reached(r) = FieldCount + 3
      BY <2>1 DEF Reached
    <2>3. FieldCount + 3 > 2 /\ \A f \in Fields : f + 2 < FieldCount + 3
      BY PushAssumption DEF Fields
    <2>4. \A r \in Recipes : result[r] = "clean" =>
             /\ r \in items
             /\ \A f \in Fields : LeftToAuthor(r) \/ value[r][f] = revision[r]
      BY <2>1, <2>2, <2>3 DEF CleanInv, WalkedClean, SeenExist
    <2>5. SavedClean'
      BY <2>1, <2>4 DEF SavedClean, LeftToAuthor
    <2> QED
      BY <2>1, <2>5
      DEF CleanInv, SeenExist, UndoOurs, OutcomeKnown, WalkedClean, Walking
  <1>12. CASE PersistBaseline \/ EndPush
    <2>1. /\ pc = "saving" /\ pc' \in {"saving", "saved"}
          /\ UNCHANGED <<items, value, revision, options, result>>
      BY <1>12 DEF PersistBaseline, EndPush, tenant, stores, run, outcome
    <2>2. SavedClean'
      BY <2>1 DEF CleanInv, SavedClean, LeftToAuthor
    <2> QED
      BY <2>1, <2>2
      DEF CleanInv, SeenExist, UndoOurs, OutcomeKnown, WalkedClean, Walking
  <1>13. CASE Forget
    BY <1>1, <1>13 DEF Forget
  <1> QED
    BY <1>2, <1>3, <1>4, <1>5, <1>6, <1>7, <1>8, <1>9, <1>10, <1>11, <1>12, <1>13
    DEF Next, Execute, Exit, Crash

(* The hash cache holds only recipes whose item is there: no push records  *)
(* one it rolled back, and no rollback deletes an item that was there when *)
(* its push began, unless its template could not be resolved.              *)
HashInv ==
    /\ \A r \in Recipes : cache[r] # 0 => r \in Unverifiable \/ r \in items
    /\ \A r \in Recipes : result[r] = "cached" => cache[r] # 0
    /\ \A r \in Recipes : result[r] = "conflict" => r \in items
    /\ pc = "executing" => items \subseteq seen
    /\ pc = "executing" => \A i \in DOMAIN undo :
          undo[i].kind = "item" /\ undo[i].recipe \notin Unverifiable
          => cache[undo[i].recipe] = 0

(* A step of the walk, in the invariant's words.                           *)
LEMMA HashKept ==
    ASSUME TypeInv, HashInv, Walking, UNCHANGED <<pc, cache>>,
           items' \subseteq seen',
           \A r \in Recipes : r \in items => \/ r \in items'
                                             \/ r = This /\ r \in Unverifiable
                                             \/ r = This /\ cache[r] = 0,
           \A r \in Recipes \ {This} : result'[r] = result[r],
           result'[This] \in {"clean", "error", "aborted"} \/ result'[This] = result[This]
           \/ This \in items',
           result'[This] = result[This] \/ result'[This] # "cached",
           result'[This] = "conflict" => This \in items',
           \A i \in DOMAIN undo' :
               undo'[i].kind = "item" /\ undo'[i].recipe \notin Unverifiable
               => cache[undo'[i].recipe] = 0
    PROVE  HashInv'
  <1>1. This \in Recipes
    BY ThisIsRecipe DEF TypeInv
  <1>2. \A r \in Recipes : result'[r] = "cached" => cache[r] # 0
    BY <1>1 DEF HashInv
  <1>3. \A r \in Recipes : result'[r] = "conflict" => r \in items'
    BY <1>1 DEF HashInv
  <1>4. \A r \in Recipes : cache[r] # 0 => r \in Unverifiable \/ r \in items'
    BY DEF HashInv
  <1> QED
    BY <1>2, <1>3, <1>4 DEF HashInv, Walking

LEMMA HashAdvance ==
    ASSUME TypeInv, EntryInv, CleanInv, HashInv, Walking, result[This] # "cached",
           NEW res \in Outcome, NEW undoing \in {<<>>} \cup {<<a>> : a \in UndoEntry},
           Advance(res, undoing), res = "conflict" => This \in items,
           \A i \in DOMAIN undoing :
               undoing[i].recipe = This /\ (undoing[i].kind = "item" =>
                   undoing[i].recipe \in Unverifiable \/ cache[undoing[i].recipe] = 0),
           UNCHANGED <<pc, cache>>, items \subseteq items', items' \subseteq seen'
    PROVE  HashInv'
  <1>1. This \in Recipes /\ (op > 1 => result[This] \in Outcome)
        /\ result[This] # "aborted"
    BY CleanOfThis
  <1>2. result'[This] = Worse(res) /\ \A r \in Recipes \ {This} : result'[r] = result[r]
    BY <1>1 DEF Advance, Finish, TypeInv, TypeOK
  <1>3. Worse(res) \in Outcome
    BY DEF Worse, Outcome
  <1>4. Worse(res) = "conflict" => This \in items
    BY <1>1 DEF Worse, HashInv, Outcome
  <1>5. undo' = undoing \o undo \/ undo' = <<>>
    BY DEF Advance, Finish
  <1>6. \A i \in DOMAIN undo' :
           undo'[i].kind = "item" /\ undo'[i].recipe \notin Unverifiable
           => cache[undo'[i].recipe] = 0
    <2> DEFINE Fine(e) == e.kind = "item" /\ e.recipe \notin Unverifiable
                          => cache[e.recipe] = 0
    <2> PICK t : t = undo'
      OBVIOUS
    <2>0. t = undo'
      OBVIOUS
    <2>1. \A i \in DOMAIN undo : Fine(undo[i])
      BY DEF HashInv, Walking
    <2>2. \A i \in DOMAIN undoing : Fine(undoing[i])
      OBVIOUS
    <2> HIDE DEF Fine
    <2>3. ASSUME t = <<>>
          PROVE  \A i \in DOMAIN t : Fine(t[i])
      <3>1. \A i \in DOMAIN t : FALSE
        BY <2>3
      <3> QED
        BY <3>1
    <2>4. ASSUME t = undoing \o undo
          PROVE  \A i \in DOMAIN t : Fine(t[i])
      <3>1. ASSUME undoing = <<>>
            PROVE  \A i \in DOMAIN t : Fine(t[i])
        <4>1. t = undo
          BY <2>4, <3>1, NothingPushed DEF TypeInv
        <4> QED
          BY <2>1, <4>1
      <3>2. ASSUME NEW a \in UndoEntry, undoing = <<a>>
            PROVE  \A i \in DOMAIN t : Fine(t[i])
        <4>1. 1 \in DOMAIN undoing /\ undoing[1] = a
          BY <3>2
        <4>2. Fine(a)
          BY <2>2, <4>1
        <4>3. t = <<a>> \o undo
          BY <2>4, <3>2
        <4>4. \A i \in DOMAIN t :
                 t[i] = a \/ (i - 1 \in DOMAIN undo /\ t[i] = undo[i - 1])
          <5>1. LET u == <<a>> \o undo IN
                /\ 1 \in DOMAIN u /\ u[1] = a
                /\ \A i \in DOMAIN u : i = 1 \/ (i - 1 \in DOMAIN undo /\ u[i] = undo[i - 1])
            BY Pushed DEF TypeInv
          <5> QED
            BY <4>3, <5>1
        <4>5. ASSUME NEW i \in DOMAIN t
              PROVE  Fine(t[i])
          <5>1. CASE t[i] = a
            BY <4>2, <5>1
          <5>2. CASE i - 1 \in DOMAIN undo /\ t[i] = undo[i - 1]
            <6>1. Fine(undo[i - 1])
              BY <2>1, <5>2
            <6> QED
              BY <5>2, <6>1
          <5> QED
            BY <4>4, <5>1, <5>2
        <4> QED
          BY <4>5
      <3> QED
        BY <3>1, <3>2
    <2>5. \A i \in DOMAIN t : Fine(t[i])
      BY <2>0, <1>5, <2>3, <2>4
    <2> QED
      BY <2>0, <2>5 DEF Fine
  <1> QED
    BY <1>1, <1>2, <1>3, <1>4, <1>6, HashKept DEF Outcome

LEMMA HashFails ==
    ASSUME TypeInv, EntryInv, CleanInv, HashInv, Walking, result[This] # "cached", OpFails
    PROVE  HashInv'
  <1>1. UNCHANGED <<pc, cache, seen>>
    BY DEF OpFails, Untouched, stores
  <1>2. CASE Advance("error", <<>>) /\ UNCHANGED tenant
    <2>1. UNCHANGED items /\ items \subseteq seen
      BY <1>2 DEF tenant, HashInv, Walking
    <2>2. "error" \in Outcome /\ DOMAIN <<>> = {}
      BY DEF Outcome
    <2> QED
      BY <1>1, <1>2, <2>1, <2>2, HashAdvance
  <1>3. CASE RolledBack(undo) /\ Finish("aborted")
    <2> DEFINE gone == {undo[i].recipe : i \in {j \in DOMAIN undo : undo[j].kind = "item"}}
    <2>1. items' = items \ gone
      BY <1>3 DEF RolledBack
    <2>2. \A r \in gone : r = This /\ (r \in Unverifiable \/ cache[r] = 0)
      BY CleanOfThis DEF HashInv, Walking
    <2>3. /\ result'[This] = "aborted" /\ undo' = <<>>
          /\ \A r \in Recipes \ {This} : result'[r] = result[r]
      BY <1>3, ThisIsRecipe DEF Finish, TypeInv, TypeOK
    <2>4. items' \subseteq seen'
      BY <1>1, <2>1 DEF HashInv, Walking
    <2> HIDE DEF gone
    <2> QED
      BY <1>1, <2>1, <2>2, <2>3, <2>4, HashKept
  <1> QED
    BY <1>2, <1>3 DEF OpFails

LEMMA HashNoWrite ==
    ASSUME TypeInv, EntryInv, CleanInv, HashInv, Walking, result[This] # "cached",
           NEW res \in Outcome, NoWrite(res), res = "conflict" => This \in items,
           UNCHANGED seen
    PROVE  HashInv'
  <1>1. UNCHANGED <<pc, cache, items>> /\ Advance(res, <<>>) /\ items \subseteq seen
    BY DEF NoWrite, Untouched, stores, tenant, HashInv, Walking
  <1>2. DOMAIN <<>> = {}
    OBVIOUS
  <1> QED
    BY <1>1, <1>2, HashAdvance

LEMMA HashCreates ==
    ASSUME TypeInv, EntryInv, CleanInv, HashInv, CreateFolder \/ CreateItem
    PROVE  HashInv'
  <1>1. /\ Walking /\ This \in Recipes /\ result[This] # "cached"
        /\ items \subseteq seen
    BY ThisIsRecipe DEF CreateFolder, CreateItem, Executing, Walking, TypeInv, HashInv
  <1>2. 0 \in 0 .. FieldCount /\ "clean" \in Outcome /\ "clean" # "conflict"
    BY PushAssumption DEF Outcome
  <1>3. ASSUME NEW k \in {"folder", "item"},
               Advance("clean", <<[kind |-> k, recipe |-> This, field |-> 0,
                                   prior |-> Blank]>>),
               UNCHANGED <<pc, cache>>, items \subseteq items', items' \subseteq seen',
               k = "item" => This \in Unverifiable \/ cache[This] = 0
        PROVE  HashInv'
    <2> PICK a : a = [kind |-> k, recipe |-> This, field |-> 0, prior |-> Blank]
      OBVIOUS
    <2>1. a \in UndoEntry /\ a.recipe = This /\ a.kind = k
      BY <1>1, <1>2, BlankTyped DEF UndoEntry
    <2>2. DOMAIN <<a>> = {1} /\ <<a>>[1] = a
      OBVIOUS
    <2>3. <<a>> \in {<<>>} \cup {<<b>> : b \in UndoEntry}
      BY <2>1
    <2>4. Advance("clean", <<a>>)
      BY <1>3
    <2> QED
      BY <1>1, <1>2, <1>3, <2>1, <2>2, <2>3, <2>4, HashAdvance
  <1>4. CASE NoWrite("clean") /\ UNCHANGED caches
    BY <1>1, <1>2, <1>4, HashNoWrite DEF caches
  <1>5. CASE OpFails
    BY <1>1, <1>5, HashFails
  <1>6. CASE /\ Advance("clean", <<[kind |-> "folder", recipe |-> This,
                                    field |-> 0, prior |-> Blank]>>)
             /\ seen' = seen \cup {"folder"} /\ UNCHANGED items /\ Untouched
    <2>1. UNCHANGED <<pc, cache>> /\ items \subseteq items' /\ items' \subseteq seen'
      BY <1>1, <1>6 DEF Untouched, stores
    <2> QED
      BY <1>3, <1>6, <2>1
  <1>7. CASE /\ PlannedAsCreate(This)
             /\ Advance("clean", <<[kind |-> "item", recipe |-> This,
                                    field |-> 0, prior |-> Blank]>>)
             /\ items' = items \cup {This} /\ seen' = seen \cup {This} /\ Untouched
    <2>1. UNCHANGED <<pc, cache>> /\ items \subseteq items' /\ items' \subseteq seen'
      BY <1>1, <1>7 DEF Untouched, stores
    <2>2. This \in Unverifiable \/ cache[This] = 0
      BY <1>1, <1>7 DEF PlannedAsCreate, HashInv
    <2> QED
      BY <1>3, <1>7, <2>1, <2>2
  <1> QED
    BY <1>4, <1>5, <1>6, <1>7 DEF CreateFolder, CreateItem

LEMMA HashSets ==
    ASSUME TypeInv, EntryInv, CleanInv, HashInv, NEW f \in Fields,
           SetField(f) \/ SetUnresolved(f)
    PROVE  HashInv'
  <1>1. /\ Walking /\ This \in Recipes /\ result[This] # "cached"
        /\ items \subseteq seen /\ UNCHANGED seen
    BY ThisIsRecipe DEF SetField, SetUnresolved, Executing, Walking, TypeInv, HashInv, caches
  <1>2. CASE SetUnresolved(f)
    BY <1>1, <1>2, HashNoWrite DEF SetUnresolved, Outcome
  <1>3. ASSUME This \in seen, NEW res \in {"clean", "conflict"}, NoWrite(res)
        PROVE  HashInv'
    BY <1>1, <1>3, CleanOfThis, HashNoWrite DEF Outcome
  <1>4. CASE OpFails
    BY <1>1, <1>4, HashFails
  <1>5. ASSUME Advance("clean", <<[kind |-> "field", recipe |-> This,
                                   field |-> f, prior |-> Before[f]]>>),
               UNCHANGED items, Untouched
        PROVE  HashInv'
    <2> PICK a : a = [kind |-> "field", recipe |-> This, field |-> f, prior |-> Before[f]]
      OBVIOUS
    <2>1. a \in UndoEntry /\ a.recipe = This /\ a.kind = "field"
      BY <1>1, BeforeTyped DEF UndoEntry, Fields
    <2>2. DOMAIN <<a>> = {1} /\ <<a>>[1] = a
      OBVIOUS
    <2>3. <<a>> \in {<<>>} \cup {<<b>> : b \in UndoEntry}
      BY <2>1
    <2>4. Advance("clean", <<a>>) /\ UNCHANGED <<pc, cache>>
      BY <1>5 DEF Untouched, stores
    <2> QED
      BY <1>1, <1>5, <2>1, <2>2, <2>3, <2>4, HashAdvance DEF Outcome
  <1>6. CASE SetField(f)
    <2>1. /\ This \in seen
          /\ \/ NoWrite(IF Status(f) = "error" THEN "conflict" ELSE "clean")
             \/ /\ Advance("clean", <<[kind |-> "field", recipe |-> This,
                                       field |-> f, prior |-> Before[f]]>>)
                /\ UNCHANGED items /\ Untouched
             \/ OpFails
      BY <1>6 DEF SetField
    <2> QED
      BY <2>1, <1>3, <1>4, <1>5
  <1> QED
    BY <1>2, <1>6

LEMMA HashStep ==
    ASSUME TypeInv, EntryInv, CleanInv, CleanInv', HashInv, [Next]_vars
    PROVE  HashInv'
  <1>1. CASE UNCHANGED vars
    BY <1>1 DEF vars, tenant, stores, caches, outcome, HashInv
  <1>2. ASSUME pc' = "idle", UNCHANGED <<items, cache>>,
               UNCHANGED result \/ result' = [r \in Recipes |-> "none"]
        PROVE  HashInv'
    BY <1>2 DEF HashInv
  <1>3. CASE \/ \E r \in Recipes, f \in Fields : AuthorEdit(r, f)
             \/ \E r \in Recipes, n \in 1 .. MaxRevision : Revise(r, n)
             \/ Exit \/ Crash
    BY <1>2, <1>3 DEF AuthorEdit, Revise, Exit, Crash, Forget, tenant, stores, outcome
  <1>4. ASSUME NEW o \in Options, StartPush(o)
        PROVE  HashInv'
    <2>1. /\ undo' = <<>> /\ seen' = Prefetched /\ UNCHANGED <<items, cache>>
          /\ result' = [r \in Recipes |->
                          IF CachedSkip(r, o.skip) THEN "cached" ELSE "none"]
      BY <1>4 DEF StartPush, tenant, stores
    <2>2. items \subseteq Prefetched
      BY DEF Prefetched
    <2>3. \A r \in Recipes : CachedSkip(r, o.skip) => cache[r] # 0
      BY DEF CachedSkip, TypeInv, TypeOK
    <2>4. DOMAIN <<>> = {}
      OBVIOUS
    <2> QED
      BY <2>1, <2>2, <2>3, <2>4 DEF HashInv
  <1>5. CASE SkipCached
    <2>1. /\ Walking /\ UNCHANGED <<pc, cache, items, seen, result, undo>>
      BY <1>5 DEF SkipCached, Walking, tenant, stores, caches, outcome
    <2> QED
      BY <2>1 DEF HashInv
  <1>6. CASE \/ CreateFolder \/ CreateItem
             \/ \E f \in Fields : SetField(f) \/ SetUnresolved(f)
    BY <1>6, HashCreates, HashSets
  <1>7. CASE PersistCache
    <2>1. /\ pc' = "saving" /\ UNCHANGED <<items, result>>
          /\ \A r \in Recipes : \/ cache'[r] = cache[r]
                                \/ /\ result[r] \in {"clean", "conflict"}
                                   /\ cache'[r] = revision[r]
      BY <1>7 DEF PersistCache, tenant, outcome
    <2>2. \A r \in Recipes : revision[r] # 0 /\ (result[r] = "clean" => r \in items)
      BY <2>1 DEF CleanInv, SavedClean, TypeInv, TypeOK
    <2> QED
      BY <2>1, <2>2 DEF HashInv
  <1>8. CASE PersistBaseline \/ EndPush
    <2>1. pc' # "executing" /\ UNCHANGED <<items, cache, result>>
      BY <1>8 DEF PersistBaseline, EndPush, tenant, stores, outcome
    <2> QED
      BY <2>1 DEF HashInv
  <1> QED
    BY <1>1, <1>3, <1>4, <1>5, <1>6, <1>7, <1>8 DEF Next, Execute

(* A recipe a push reports as clean is on the tenant as the workspace has  *)
(* it, except for what the policy or the recipe leaves to authors,         *)
(* whatever other recipes of the push did, failed at or rolled back; and   *)
(* one it skips as unchanged has its item there.                           *)
THEOREM CleanIsApplied == Spec => []CleanMeansApplied
  <1>1. Init => TypeInv /\ EntryInv /\ CleanInv /\ HashInv
    <2> SUFFICES ASSUME Init PROVE TypeInv /\ EntryInv /\ CleanInv /\ HashInv
      OBVIOUS
    <2>1. /\ pc = "idle"
          /\ \A r \in Recipes : cache[r] = 0 /\ result[r] = "none"
      BY DEF Init
    <2>2. CleanInv
      BY <2>1
      DEF CleanInv, SeenExist, UndoOurs, OutcomeKnown, WalkedClean, SavedClean, Walking
    <2>3. HashInv
      BY <2>1 DEF HashInv
    <2> QED
      BY <2>2, <2>3, TypeInit, EntryInit
  <1>2. TypeInv /\ EntryInv /\ CleanInv /\ HashInv /\ [Next]_vars
        => TypeInv' /\ EntryInv' /\ CleanInv' /\ HashInv'
    BY TypeStep, EntryStep, CleanStep, HashStep
  <1>3. CleanInv /\ HashInv => CleanMeansApplied
    <2> SUFFICES ASSUME CleanInv, HashInv, pc = "saved", NEW r \in Recipes
                 PROVE  /\ result[r] = "clean" =>
                              /\ r \in items
                              /\ \/ r \in Seeded
                                 \/ options.policy = "cms-wins"
                                 \/ \A f \in Fields : value[r][f] = revision[r]
                        /\ result[r] = "cached" /\ r \notin Unverifiable => r \in items
      BY DEF CleanMeansApplied
    <2>1. result[r] = "clean" =>
              /\ r \in items
              /\ \/ r \in Seeded
                 \/ options.policy = "cms-wins"
                 \/ \A f \in Fields : value[r][f] = revision[r]
      BY DEF CleanInv, SavedClean, LeftToAuthor
    <2>2. result[r] = "cached" /\ r \notin Unverifiable => r \in items
      BY DEF HashInv
    <2> QED
      BY <2>1, <2>2
  <1> QED
    BY <1>1, <1>2, <1>3, PTL DEF Spec

------------------------------------------------------------------------------
(* Authors: what they wrote is what the plan compares with, and no rollback *)
(* restores over it.  An item that is adopted unread would be compared with *)
(* a blank, so all content is taken to be comparable.                      *)

NotYetThere == \A r \in Recipes \ items, f \in Fields : value[r][f] = Blank

ItemsSeen == pc = "executing" => items \subseteq seen

(* What is still to be compared is as the tenant has it.                   *)
SnapshotExact ==
    pc = "executing" /\ todo # <<>> /\ snapshot[todo[1]] # <<>> =>
        \A g \in Fields : op <= g + 2 => snapshot[todo[1]][g] = value[todo[1]][g]

CreatedOurs ==
    pc = "executing" =>
        \A r \in created, f \in Fields : value[r][f] # AuthorValue

(* What an entry of the unwind list would restore, no author has written.  *)
EntryOurs(a) ==
    /\ a.kind = "item" => a.recipe \in created
    /\ a.kind = "field" =>
          /\ a.field \in Fields /\ a.field + 2 < op
          /\ value[a.recipe][a.field] # AuthorValue
          /\ a.recipe \in items
          /\ a.recipe \in created => a.prior # AuthorValue

UndoneOurs == pc = "executing" => \A i \in DOMAIN undo : EntryOurs(undo[i])

BaselineOurs ==
    \A r \in Recipes, f \in Fields :
        baseline[r][f] # AuthorValue /\ entries[r][f] # AuthorValue

GuardedKnown == \A r \in Recipes, f \in Fields :
                    <<r, f>> \in guarded => baseline[r][f] # NoEntry

AuthorInv ==
    /\ NotYetThere /\ ItemsSeen /\ SnapshotExact /\ CreatedOurs /\ UndoneOurs
    /\ BaselineOurs /\ GuardedKnown

LEMMA AuthorIsNobody ==
    /\ AuthorValue # Blank /\ AuthorValue # NoEntry
    /\ \A n \in 1 .. MaxRevision : n # AuthorValue
  BY PushAssumption DEF AuthorValue, Blank, NoEntry

(* Whatever an operation does, it does to the recipe that is walked.       *)
LEMMA AuthorKept ==
    ASSUME TypeInv, EntryInv, AuthorInv, Walking, pc' = pc,
           UNCHANGED <<baseline, guarded>>,
           \A r \in Recipes \ {This} :
               /\ value'[r] = value[r] /\ snapshot'[r] = snapshot[r]
               /\ entries'[r] = entries[r],
           \A f \in Fields : entries'[This][f] # AuthorValue,
           NotYetThere', ItemsSeen', CreatedOurs',
           \/ /\ todo' = todo /\ op' = op + 1
              /\ \/ undo' = undo
                 \/ \E a \in UndoEntry : undo' = <<a>> \o undo /\ EntryOurs(a)'
              /\ created \subseteq created' /\ items \subseteq items'
              /\ created' = created \/ op = 2
              /\ \A f \in Fields :
                    value'[This][f] = value[This][f] \/ value'[This][f] # AuthorValue
              /\ snapshot'[This] # <<>> => \A g \in Fields : op + 1 <= g + 2 =>
                    snapshot'[This][g] = value'[This][g]
           \/ todo' = Tail(todo) /\ undo' = <<>>
    PROVE  AuthorInv'
  <1>1. This \in Recipes /\ This = todo[1] /\ op \in Nat
    BY ThisIsRecipe DEF TypeInv, TypeOK
  <1>2. CASE todo' = Tail(todo) /\ undo' = <<>>
    <2>1. SnapshotExact'
      <3> SUFFICES ASSUME todo' # <<>> PROVE snapshot'[todo'[1]] = <<>>
        BY DEF SnapshotExact
      <3>1. 1 \in DOMAIN Tail(todo)
        BY <1>2, ThisIsRecipe, LenProperties DEF TypeInv
      <3>2. /\ 1 + 1 \in DOMAIN todo /\ 1 + 1 > 1 /\ todo'[1] = todo[1 + 1]
            /\ todo[1 + 1] \in Recipes
        BY <1>2, <3>1, ThisIsRecipe DEF TypeInv
      <3>3. todo[1 + 1] # This
        <4>1. 1 + 1 # 1
          OBVIOUS
        <4> QED
          BY <3>2, <4>1, ThisIsRecipe DEF EntryInv, WalkedOnce, Walking, TypeInv
      <3>4. snapshot[todo[1 + 1]] = <<>>
        BY <3>2 DEF EntryInv, WalkedOnce, Walking, Unwalked
      <3> QED
        BY <3>2, <3>3, <3>4
    <2>2. UndoneOurs'
      BY <1>2 DEF UndoneOurs
    <2>3. BaselineOurs' /\ GuardedKnown'
      BY DEF AuthorInv, BaselineOurs, GuardedKnown
    <2> QED
      BY <2>1, <2>2, <2>3 DEF AuthorInv
  <1>3. CASE /\ todo' = todo /\ op' = op + 1
             /\ \/ undo' = undo
                \/ \E a \in UndoEntry : undo' = <<a>> \o undo /\ EntryOurs(a)'
             /\ created \subseteq created' /\ items \subseteq items'
             /\ created' = created \/ op = 2
             /\ \A f \in Fields :
                   value'[This][f] = value[This][f] \/ value'[This][f] # AuthorValue
             /\ snapshot'[This] # <<>> => \A g \in Fields : op + 1 <= g + 2 =>
                   snapshot'[This][g] = value'[This][g]
    <2>1. SnapshotExact'
      BY <1>1, <1>3 DEF SnapshotExact
    <2>2. ASSUME NEW e \in UndoEntry, EntryOurs(e)
          PROVE  EntryOurs(e)'
      <3>1. e.recipe \in Recipes
        BY DEF UndoEntry
      <3>2. ASSUME e.kind = "item" PROVE e.recipe \in created'
        BY <1>3, <2>2, <3>2 DEF EntryOurs
      <3>3. ASSUME e.kind = "field"
            PROVE  /\ e.field \in Fields /\ e.field + 2 < op'
                   /\ value'[e.recipe][e.field] # AuthorValue
                   /\ e.recipe \in items'
                   /\ e.recipe \in created' => e.prior # AuthorValue
        <4>1. /\ e.field \in Fields /\ e.field + 2 < op
              /\ value[e.recipe][e.field] # AuthorValue
              /\ e.recipe \in items
              /\ e.recipe \in created => e.prior # AuthorValue
          BY <2>2, <3>3 DEF EntryOurs
        <4>2. e.field + 2 < op + 1 /\ op # 2
          BY <1>1, <4>1 DEF Fields
        <4>3. value'[e.recipe][e.field] # AuthorValue
          BY <1>3, <3>1, <4>1
        <4>4. op' = op + 1 /\ created' = created /\ items \subseteq items'
          BY <1>3, <4>2
        <4> QED
          BY <4>1, <4>2, <4>3, <4>4
      <3> QED
        BY <3>2, <3>3 DEF EntryOurs
    <2>3. ASSUME NEW i \in DOMAIN undo'
          PROVE  EntryOurs(undo[i])'
      <3>1. PICK e : e = undo'[i]
        OBVIOUS
      <3>2. EntryOurs(e)'
        <4>1. ASSUME NEW j \in DOMAIN undo, e = undo[j]
              PROVE  EntryOurs(e)'
          <5>1. e \in UndoEntry
            BY <4>1 DEF TypeInv, UndoTyped
          <5>2. EntryOurs(undo[j])
            BY DEF AuthorInv, UndoneOurs, Walking
          <5>3. EntryOurs(e)
            BY <4>1, <5>2
          <5> QED
            BY <2>2, <5>1, <5>3
        <4>2. CASE undo' = undo
          BY <3>1, <4>1, <4>2
        <4>3. CASE \E a \in UndoEntry : undo' = <<a>> \o undo /\ EntryOurs(a)'
          <5>1. PICK a \in UndoEntry : undo' = <<a>> \o undo /\ EntryOurs(a)'
            BY <4>3
          <5>2. CASE e = a
            BY <5>1, <5>2
          <5>3. CASE \E j \in DOMAIN undo : e = undo[j]
            BY <4>1, <5>3
          <5> QED
            BY <3>1, <5>1, <5>2, <5>3, Pushed DEF TypeInv
        <4> QED
          BY <1>3, <4>2, <4>3
      <3> QED
        BY <3>1, <3>2 DEF EntryOurs
    <2>4. BaselineOurs' /\ GuardedKnown'
      BY DEF AuthorInv, BaselineOurs, GuardedKnown
    <2> QED
      BY <2>1, <2>3, <2>4 DEF AuthorInv, UndoneOurs
  <1> QED
    BY <1>2, <1>3

(* A rollback takes nothing back that an author has written.               *)
LEMMA RollbackSpares ==
    ASSUME TypeInv, EntryInv, CleanInv, AuthorInv, Walking, RolledBack(undo)
    PROVE  /\ \A r \in Recipes, f \in Fields :
                 value[r][f] = AuthorValue => value'[r][f] = AuthorValue
           /\ \A r \in created, f \in Fields : value'[r][f] # AuthorValue
           /\ \A r \in Recipes \ items', f \in Fields : value'[r][f] = Blank
  <1> DEFINE gone == {undo[i].recipe : i \in {j \in DOMAIN undo : undo[j].kind = "item"}}
             kept(r) == {j \in DOMAIN undo : undo[j].kind = "field" /\ undo[j].recipe = r}
             oldest(f) == {j \in kept(This) : undo[j].field = f}
             now == [f \in Fields |->
                       IF This \in gone THEN Blank
                       ELSE IF oldest(f) = {} THEN value[This][f]
                       ELSE undo[CHOOSE j \in oldest(f) : TRUE].prior]
  <1>1. /\ items' = items \ gone
        /\ value' = [value EXCEPT ![This] = now]
    BY DEF RolledBack
  <1>2. /\ This \in Recipes /\ \A i \in DOMAIN undo : undo[i].recipe = This
        /\ \A i \in DOMAIN undo : EntryOurs(undo[i])
        /\ \A r \in created, f \in Fields : value[r][f] # AuthorValue
        /\ value \in [Recipes -> [Fields -> Values]]
        /\ created \subseteq Recipes
        /\ \A r \in Recipes \ items, f \in Fields : value[r][f] = Blank
    BY CleanOfThis
    DEF AuthorInv, UndoneOurs, CreatedOurs, NotYetThere, Walking, TypeInv, TypeOK
  <1>3. gone \subseteq {This} /\ (This \in gone => This \in created)
    BY <1>2 DEF EntryOurs
  <1>4. ASSUME NEW f \in Fields, oldest(f) # {}
        PROVE  /\ value[This][f] # AuthorValue /\ This \in items
               /\ This \in created => now[f] # AuthorValue
    <2>1. PICK j : j = CHOOSE i \in oldest(f) : TRUE
      OBVIOUS
    <2>2. j \in DOMAIN undo /\ undo[j].kind = "field" /\ undo[j].field = f
          /\ undo[j].recipe = This
      BY <1>4, <2>1
    <2>3. /\ value[This][f] # AuthorValue /\ This \in items
          /\ This \in created => undo[j].prior # AuthorValue
      BY <1>2, <2>2 DEF EntryOurs
    <2> QED
      BY <1>4, <2>1, <2>3, AuthorIsNobody
  <1>5. \A f \in Fields :
           /\ value[This][f] = AuthorValue => now[f] = AuthorValue
           /\ This \in created => now[f] # AuthorValue
           /\ This \in gone \/ This \notin items => now[f] = Blank
    BY <1>2, <1>3, <1>4, AuthorIsNobody
  <1>6. /\ \A f \in Fields : value'[This][f] = now[f]
        /\ \A r \in Recipes \ {This} : value'[r] = value[r]
    BY <1>1, <1>2
  <1> HIDE DEF now, gone, oldest, kept
  <1>7. \A r \in Recipes \ items' : r \notin items \/ (r = This /\ This \in gone)
    BY <1>1, <1>3
  <1> QED
    BY <1>2, <1>5, <1>6, <1>7

LEMMA AdvanceSteps ==
    ASSUME TypeInv, Walking, NEW res \in Outcome, NEW undoing \in Seq(UndoEntry),
           Advance(res, undoing)
    PROVE  \/ todo' = todo /\ op' = op + 1 /\ undo' = undoing \o undo
           \/ todo' = Tail(todo) /\ undo' = <<>>
  BY DEF Advance, Finish

LEMMA NoWriteKeepsAuthors ==
    ASSUME TypeInv, EntryInv, AuthorInv, Walking, NEW res \in Outcome, NoWrite(res),
           UNCHANGED <<seen, created>>,
           \A r \in Recipes \ {This} :
               snapshot'[r] = snapshot[r] /\ entries'[r] = entries[r],
           snapshot'[This] # <<>> => \A g \in Fields : op + 1 <= g + 2 =>
               snapshot'[This][g] = value[This][g],
           \A f \in Fields : entries'[This][f] # AuthorValue
    PROVE  AuthorInv'
  <1>1. UNCHANGED <<pc, value, items, baseline, guarded>>
    BY DEF NoWrite, Untouched, tenant, stores
  <1>2. NotYetThere' /\ ItemsSeen' /\ CreatedOurs'
    BY <1>1 DEF AuthorInv, NotYetThere, ItemsSeen, CreatedOurs
  <1>3. \/ todo' = todo /\ op' = op + 1 /\ undo' = undo
        \/ todo' = Tail(todo) /\ undo' = <<>>
    BY EmptyUndo, NothingPushed, AdvanceSteps DEF NoWrite, TypeInv
  <1> QED
    BY <1>1, <1>2, <1>3, AuthorKept

LEMMA SnapshotOfThisExact ==
    ASSUME TypeInv, AuthorInv, Walking
    PROVE  /\ snapshot[This] # <<>> => \A g \in Fields : op + 1 <= g + 2 =>
                 snapshot[This][g] = value[This][g]
           /\ \A g \in Fields : op <= g + 2 => Before[g] = value[This][g]
           /\ \A f \in Fields : entries[This][f] # AuthorValue
  <1>1. \A g \in Fields : op + 1 <= g + 2 => op <= g + 2
    BY PushAssumption DEF Fields, TypeInv, TypeOK
  <1> QED
    BY <1>1, ThisIsRecipe
    DEF AuthorInv, SnapshotExact, BaselineOurs, Walking, Before, TypeInv

LEMMA FailKeepsAuthors ==
    ASSUME TypeInv, EntryInv, CleanInv, AuthorInv, Walking, OpFails,
           \A r \in Recipes \ {This} : snapshot'[r] = snapshot[r],
           snapshot'[This] # <<>> => \A g \in Fields : op + 1 <= g + 2 =>
               snapshot'[This][g] = value[This][g]
    PROVE  AuthorInv'
  <1>1. UNCHANGED <<pc, seen, created, entries, baseline, guarded>>
    BY DEF OpFails, Untouched, stores
  <1>2. \A f \in Fields : entries'[This][f] # AuthorValue
    BY <1>1, SnapshotOfThisExact
  <1>3. CASE Advance("error", <<>>) /\ UNCHANGED tenant
    <2>1. UNCHANGED <<items, value>>
      BY <1>3 DEF tenant
    <2>2. NotYetThere' /\ ItemsSeen' /\ CreatedOurs'
      BY <1>1, <2>1 DEF AuthorInv, NotYetThere, ItemsSeen, CreatedOurs
    <2>3. \/ todo' = todo /\ op' = op + 1 /\ undo' = undo
          \/ todo' = Tail(todo) /\ undo' = <<>>
      BY <1>3, EmptyUndo, NothingPushed, AdvanceSteps DEF TypeInv, Outcome
    <2> QED
      BY <1>1, <1>2, <2>1, <2>2, <2>3, AuthorKept
  <1>4. CASE RolledBack(undo) /\ Finish("aborted")
    <2>1. /\ items' \subseteq items
          /\ \A r \in Recipes \ {This} : value'[r] = value[r]
          /\ \A r \in created, f \in Fields : value'[r][f] # AuthorValue
          /\ \A r \in Recipes \ items', f \in Fields : value'[r][f] = Blank
          /\ items \ {This} \subseteq items'
      BY <1>4, RolledBackTyped, RolledBackOurs, RollbackSpares
    <2>2. todo' = Tail(todo) /\ undo' = <<>>
      BY <1>4 DEF Finish
    <2>3. NotYetThere' /\ ItemsSeen' /\ CreatedOurs'
      BY <1>1, <2>1 DEF AuthorInv, NotYetThere, ItemsSeen, CreatedOurs
    <2> QED
      BY <1>1, <1>2, <2>1, <2>2, <2>3, AuthorKept
  <1> QED
    BY <1>3, <1>4 DEF OpFails

LEMMA CreateFolderKeepsAuthors ==
    ASSUME TypeInv, EntryInv, CleanInv, AuthorInv, CreateFolder
    PROVE  AuthorInv'
  <1>1. Walking /\ This \in Recipes /\ op = 1
    BY ThisIsRecipe DEF CreateFolder, Executing, Walking, TypeInv
  <1>2. CASE NoWrite("clean") /\ UNCHANGED <<caches, entries>>
    BY <1>1, <1>2, NoWriteKeepsAuthors, SnapshotOfThisExact DEF Outcome, caches
  <1> DEFINE made == [kind |-> "folder", recipe |-> This, field |-> 0, prior |-> Blank]
  <1>3. CASE /\ Advance("clean", <<made>>)
             /\ seen' = seen \cup {"folder"}
             /\ UNCHANGED <<items, value, snapshot, created, entries>>
             /\ Untouched
    <2>1. UNCHANGED <<pc, baseline, guarded>>
      BY <1>3 DEF Untouched, stores
    <2>2. PICK a \in UndoEntry : a = made /\ a.kind = "folder"
      <3>1. 0 \in 0 .. FieldCount
        BY PushAssumption
      <3>2. made \in UndoEntry
        BY <1>1, <3>1, BlankTyped DEF UndoEntry
      <3> QED
        BY <3>2
    <2> HIDE DEF made
    <2>3. EntryOurs(a)'
      BY <2>2 DEF EntryOurs
    <2>4. \/ todo' = todo /\ op' = op + 1 /\ undo' = <<a>> \o undo
          \/ todo' = Tail(todo) /\ undo' = <<>>
      <3>1. "clean" \in Outcome /\ <<a>> \in Seq(UndoEntry)
        BY <2>2 DEF Outcome
      <3> QED
        BY <1>1, <1>3, <2>2, <3>1, AdvanceSteps
    <2>5. NotYetThere' /\ ItemsSeen' /\ CreatedOurs'
      BY <1>3, <2>1 DEF AuthorInv, NotYetThere, ItemsSeen, CreatedOurs
    <2> QED
      BY <1>1, <1>3, <2>1, <2>3, <2>4, <2>5, SnapshotOfThisExact, AuthorKept
  <1>4. CASE OpFails /\ UNCHANGED snapshot
    BY <1>1, <1>4, FailKeepsAuthors, SnapshotOfThisExact
  <1> QED
    BY <1>2, <1>3, <1>4 DEF CreateFolder, made

LEMMA CreateItemKeepsAuthors ==
    ASSUME Unverifiable = {}, TypeInv, EntryInv, CleanInv, AuthorInv, CreateItem
    PROVE  AuthorInv'
  <1>1. Walking /\ This \in Recipes /\ op = 2
    BY ThisIsRecipe DEF CreateItem, Executing, Walking, TypeInv
  <1>2. CASE NoWrite("clean") /\ UNCHANGED <<caches, entries>>
    BY <1>1, <1>2, NoWriteKeepsAuthors, SnapshotOfThisExact DEF Outcome, caches
  <1> DEFINE made == [kind |-> "item", recipe |-> This, field |-> 0, prior |-> Blank]
  <1>3. CASE /\ PlannedAsCreate(This)
             /\ Advance("clean", <<made>>)
             /\ items' = items \cup {This}
             /\ seen' = seen \cup {This}
             /\ snapshot' = [snapshot EXCEPT ![This] = BlankItem]
             /\ created' = created \cup {This}
             /\ UNCHANGED <<value, entries>>
             /\ Untouched
    <2>1. UNCHANGED <<pc, baseline, guarded>>
      BY <1>3 DEF Untouched, stores
    <2>2. PICK a \in UndoEntry : a = made /\ a.kind = "item" /\ a.recipe = This
      <3>1. 0 \in 0 .. FieldCount
        BY PushAssumption
      <3>2. made \in UndoEntry
        BY <1>1, <3>1, BlankTyped DEF UndoEntry
      <3> QED
        BY <3>2
    <2> HIDE DEF made
    <2>3. EntryOurs(a)'
      BY <1>3, <2>2 DEF EntryOurs
    <2>4. \/ todo' = todo /\ op' = op + 1 /\ undo' = <<a>> \o undo
          \/ todo' = Tail(todo) /\ undo' = <<>>
      <3>1. "clean" \in Outcome /\ <<a>> \in Seq(UndoEntry)
        BY <2>2 DEF Outcome
      <3> QED
        BY <1>1, <1>3, <2>2, <3>1, AdvanceSteps
    <2>5. This \notin items
      BY <1>1, <1>3 DEF PlannedAsCreate, AuthorInv, ItemsSeen, Walking
    <2>6. \A f \in Fields : value[This][f] = Blank
      BY <1>1, <2>5 DEF AuthorInv, NotYetThere
    <2>7. NotYetThere' /\ ItemsSeen' /\ CreatedOurs'
      BY <1>3, <2>1, <2>6, AuthorIsNobody
      DEF AuthorInv, NotYetThere, ItemsSeen, CreatedOurs
    <2>8. /\ \A r \in Recipes \ {This} : snapshot'[r] = snapshot[r]
          /\ \A g \in Fields : snapshot'[This][g] = Blank
      BY <1>1, <1>3 DEF BlankItem, TypeInv, TypeOK
    <2> QED
      BY <1>1, <1>3, <2>1, <2>3, <2>4, <2>6, <2>7, <2>8, SnapshotOfThisExact, AuthorKept
  <1>4. CASE OpFails /\ UNCHANGED snapshot
    BY <1>1, <1>4, FailKeepsAuthors, SnapshotOfThisExact
  <1> QED
    BY <1>2, <1>3, <1>4 DEF CreateItem, made

(* The value a step writes is the revision, which is not an author's.      *)
LEMMA RevisionIsNoAuthor ==
    ASSUME TypeInv, Walking
    PROVE  revision[This] # AuthorValue
  BY ThisIsRecipe, AuthorIsNobody DEF TypeInv, TypeOK

LEMMA SetFieldKeepsAuthors ==
    ASSUME TypeInv, EntryInv, CleanInv, AuthorInv, NEW f \in Fields, SetField(f)
    PROVE  AuthorInv'
  <1>1. /\ Walking /\ This \in Recipes /\ op = f + 2 /\ result[This] # "cached"
        /\ This \in seen /\ UNCHANGED <<seen, created>>
    BY ThisIsRecipe DEF SetField, Executing, Walking, TypeInv
  <1>2. This \in items
    BY <1>1, CleanOfThis
  <1>3. Before \in [Fields -> Values]
    BY <1>1, BeforeTyped
  <1>4. /\ snapshot \in [Recipes -> {<<>>} \cup [Fields -> Values]]
        /\ entries \in [Recipes -> [Fields -> Values \cup {NoEntry}]]
        /\ value \in [Recipes -> [Fields -> Values]]
    BY DEF TypeInv, TypeOK
  <1>5. \A r \in Recipes \ {This} : snapshot'[r] = snapshot[r]
    BY <1>1, <1>4 DEF SetField
  <1>6. \A g \in Fields : op + 1 <= g + 2 => g # f /\ op <= g + 2
    BY <1>1, PushAssumption DEF Fields
  <1>7. \A g \in Fields : op + 1 <= g + 2 => snapshot'[This][g] = value[This][g]
    <2>1. \A g \in Fields : g # f => snapshot'[This][g] = Before[g]
      BY <1>1, <1>3, <1>4 DEF SetField
    <2> QED
      BY <1>1, <1>6, <2>1, SnapshotOfThisExact
  <1>8. /\ \A r \in Recipes \ {This} : Evidence(f, Status(f))[r] = entries[r]
        /\ \A g \in Fields : Evidence(f, Status(f))[This][g] # AuthorValue
    <2>1. \A g \in Fields : entries[This][g] # AuthorValue
      BY <1>1, SnapshotOfThisExact
    <2> QED
      BY <1>1, <1>4, <2>1, RevisionIsNoAuthor DEF Evidence
  <1>9. CASE /\ entries' = Evidence(f, Status(f))
             /\ NoWrite(IF Status(f) = "error" THEN "conflict" ELSE "clean")
    <2> DEFINE res == IF Status(f) = "error" THEN "conflict" ELSE "clean"
    <2>1. res \in Outcome /\ NoWrite(res)
      BY <1>9 DEF Outcome
    <2> HIDE DEF res
    <2> QED
      BY <1>1, <1>5, <1>7, <1>8, <1>9, <2>1, NoWriteKeepsAuthors
  <1> DEFINE made == [kind |-> "field", recipe |-> This, field |-> f, prior |-> Before[f]]
  <1>10. CASE /\ value' = [value EXCEPT ![This][f] = revision[This]]
              /\ entries' = Evidence(f, Status(f))
              /\ Advance("clean", <<made>>)
              /\ UNCHANGED items
              /\ Untouched
    <2>1. UNCHANGED <<pc, baseline, guarded>>
      BY <1>10 DEF Untouched, stores
    <2>2. PICK a \in UndoEntry :
             a = made /\ a.kind = "field" /\ a.recipe = This /\ a.field = f /\ a.prior = Before[f]
      <3>1. made \in UndoEntry
        BY <1>1, <1>3 DEF UndoEntry, Fields
      <3> QED
        BY <3>1
    <2> HIDE DEF made
    <2>3. \/ todo' = todo /\ op' = op + 1 /\ undo' = <<a>> \o undo
          \/ todo' = Tail(todo) /\ undo' = <<>>
      <3>1. "clean" \in Outcome /\ <<a>> \in Seq(UndoEntry)
        BY <2>2 DEF Outcome
      <3> QED
        BY <1>1, <1>10, <2>2, <3>1, AdvanceSteps
    <2>4. /\ \A r \in Recipes \ {This} : value'[r] = value[r]
          /\ \A g \in Fields : g # f => value'[This][g] = value[This][g]
          /\ value'[This][f] = revision[This]
      BY <1>1, <1>4, <1>10
    <2>5. revision[This] # AuthorValue
      BY <1>1, RevisionIsNoAuthor
    <2>6. ASSUME op' = op + 1 PROVE EntryOurs(a)'
      <3>1. f + 2 < op'
        BY <1>1, <2>6 DEF Fields
      <3>2. This \in created => Before[f] # AuthorValue
        <4>1. Before[f] = value[This][f]
          BY <1>1, SnapshotOfThisExact DEF Fields
        <4> QED
          BY <1>1, <4>1 DEF AuthorInv, CreatedOurs, Walking
      <3> QED
        BY <1>1, <1>2, <1>10, <2>2, <2>4, <2>5, <3>1, <3>2 DEF EntryOurs
    <2>7. NotYetThere' /\ ItemsSeen' /\ CreatedOurs'
      <3>1. NotYetThere' /\ ItemsSeen'
        BY <1>1, <1>2, <1>10, <2>1, <2>4 DEF AuthorInv, NotYetThere, ItemsSeen
      <3>2. created \subseteq Recipes
        BY DEF TypeInv, TypeOK
      <3>3. CreatedOurs'
        BY <1>1, <2>1, <2>4, <2>5, <3>2 DEF AuthorInv, CreatedOurs
      <3> QED
        BY <3>1, <3>3
    <2>8. \A g \in Fields : op + 1 <= g + 2 => snapshot'[This][g] = value'[This][g]
      BY <1>6, <1>7, <2>4
    <2>9. \A g \in Fields :
             value'[This][g] = value[This][g] \/ value'[This][g] # AuthorValue
      BY <2>4, <2>5
    <2>10. \A r \in Recipes \ {This} :
              /\ value'[r] = value[r] /\ snapshot'[r] = snapshot[r]
              /\ entries'[r] = entries[r]
      BY <1>5, <1>8, <1>10, <2>4
    <2>11. \A g \in Fields : entries'[This][g] # AuthorValue
      BY <1>8, <1>10
    <2> QED
      BY <1>1, <1>10, <2>1, <2>3, <2>6, <2>7, <2>8, <2>9, <2>10, <2>11, AuthorKept
  <1>11. CASE OpFails
    BY <1>1, <1>5, <1>7, <1>11, FailKeepsAuthors
  <1> QED
    BY <1>9, <1>10, <1>11 DEF SetField, made

LEMMA AuthorStep ==
    ASSUME Unverifiable = {}, TypeInv, EntryInv, CleanInv, AuthorInv, [Next]_vars
    PROVE  AuthorInv'
  <1>1. ASSUME pc' # "executing", NotYetThere', BaselineOurs', GuardedKnown'
        PROVE  AuthorInv'
    BY <1>1 DEF AuthorInv, ItemsSeen, SnapshotExact, CreatedOurs, UndoneOurs
  <1>2. CASE UNCHANGED vars
    BY <1>2
    DEF vars, tenant, stores, caches, outcome, AuthorInv, NotYetThere, ItemsSeen,
        SnapshotExact, CreatedOurs, UndoneOurs, EntryOurs, BaselineOurs, GuardedKnown
  <1>3. ASSUME NEW r \in Recipes, NEW f \in Fields, AuthorEdit(r, f)
        PROVE  AuthorInv'
    <2>1. /\ pc' = "idle" /\ r \in items
          /\ UNCHANGED <<items, baseline, entries>>
          /\ value' = [value EXCEPT ![r][f] = AuthorValue]
          /\ guarded' = guarded \/ (guarded' = guarded \cup {<<r, f>>} /\ baseline[r][f] # NoEntry)
      BY <1>3 DEF AuthorEdit, stores, outcome
    <2>2. NotYetThere'
      BY <2>1 DEF AuthorInv, NotYetThere, TypeInv, TypeOK
    <2>3. BaselineOurs' /\ GuardedKnown'
      BY <2>1 DEF AuthorInv, BaselineOurs, GuardedKnown
    <2> QED
      BY <1>1, <2>1, <2>2, <2>3
  <1>4. ASSUME NEW r \in Recipes, NEW n \in 1 .. MaxRevision, Revise(r, n)
        PROVE  AuthorInv'
    BY <1>1, <1>4
    DEF Revise, tenant, outcome, AuthorInv, NotYetThere, BaselineOurs, GuardedKnown
  <1>5. ASSUME NEW o \in Options, StartPush(o)
        PROVE  AuthorInv'
    <2>1. /\ pc' = "executing" /\ undo' = <<>> /\ created' = {} /\ seen' = Prefetched
          /\ UNCHANGED <<items, value, baseline, guarded>>
          /\ \A r \in Recipes : snapshot'[r] = <<>> /\ entries'[r] = Nothing
          /\ todo' = Order
      BY <1>5 DEF StartPush, tenant, stores
    <2>2. todo' # <<>> => todo'[1] \in Recipes
      <3>1. todo' # <<>> => 1 \in DOMAIN todo'
        BY <2>1, PushAssumption, LenProperties
      <3> QED
        BY <2>1, <3>1 DEF Recipes
    <2>3. BaselineOurs'
      BY <2>1, AuthorIsNobody DEF AuthorInv, BaselineOurs, Nothing
    <2> QED
      BY <2>1, <2>2, <2>3
      DEF AuthorInv, NotYetThere, ItemsSeen, SnapshotExact, CreatedOurs, UndoneOurs,
          GuardedKnown, Prefetched
  <1>6. CASE SkipCached
    <2>1. /\ Walking /\ todo' = Tail(todo)
          /\ UNCHANGED <<pc, op, undo, seen, created, items, value, snapshot, entries,
                         baseline, guarded>>
          /\ result[This] = "cached"
      BY <1>6 DEF SkipCached, Walking, tenant, stores, caches, outcome
    <2>2. op \in Nat /\ op >= 1 /\ (op > 1 => result[This] \in Outcome) /\ (op = 1 => undo = <<>>)
      BY <2>1, CleanOfThis DEF TypeInv, TypeOK
    <2>3. undo' = <<>>
      BY <2>1, <2>2 DEF Outcome
    <2>4. NotYetThere' /\ ItemsSeen' /\ CreatedOurs'
      BY <2>1 DEF AuthorInv, NotYetThere, ItemsSeen, CreatedOurs
    <2> QED
      BY <2>1, <2>3, <2>4, SnapshotOfThisExact, AuthorKept
  <1>7. CASE CreateFolder
    BY <1>7, CreateFolderKeepsAuthors
  <1>8. CASE CreateItem
    BY <1>8, CreateItemKeepsAuthors
  <1>9. ASSUME NEW f \in Fields, SetField(f)
        PROVE  AuthorInv'
    BY <1>9, SetFieldKeepsAuthors
  <1>10. ASSUME NEW f \in Fields, SetUnresolved(f)
         PROVE  AuthorInv'
    <2>1. Walking /\ NoWrite("clean") /\ UNCHANGED <<seen, created, snapshot, entries>>
      BY <1>10 DEF SetUnresolved, Executing, Walking, caches
    <2>2. "clean" \in Outcome
      BY DEF Outcome
    <2> QED
      BY <2>1, <2>2, NoWriteKeepsAuthors, SnapshotOfThisExact
  <1>11. CASE PersistCache \/ EndPush
    BY <1>1, <1>11
    DEF PersistCache, EndPush, tenant, stores, outcome, AuthorInv, NotYetThere,
        BaselineOurs, GuardedKnown
  <1>12. CASE PersistBaseline
    <2>1. /\ pc' = "saving" /\ UNCHANGED <<items, value, entries>>
      BY <1>12 DEF PersistBaseline, tenant, outcome
    <2>2. \/ UNCHANGED <<baseline, guarded>>
          \/ /\ baseline' = baseline \/ baseline' = [baseline EXCEPT ![This] = entries[This]]
             /\ guarded' = {e \in guarded : baseline'[e[1]][e[2]] # NoEntry}
      BY <1>12 DEF PersistBaseline
    <2>3. This \in Recipes
      BY <1>12, HeadTailProperties DEF PersistBaseline, This, TypeInv, TypeOK
    <2>4. BaselineOurs'
      BY <2>1, <2>2, <2>3 DEF AuthorInv, BaselineOurs, TypeInv, TypeOK
    <2>5. GuardedKnown'
      BY <2>2 DEF AuthorInv, GuardedKnown
    <2> QED
      BY <1>1, <2>1, <2>4, <2>5 DEF AuthorInv, NotYetThere
  <1>13. CASE Forget
    <2>1. /\ pc' = "idle" /\ UNCHANGED <<items, value, baseline, guarded>>
          /\ \A r \in Recipes : entries'[r] = Nothing
      BY <1>13 DEF Forget, tenant, stores
    <2> QED
      BY <1>1, <2>1, AuthorIsNobody
      DEF AuthorInv, NotYetThere, BaselineOurs, GuardedKnown, Nothing
  <1> QED
    BY <1>2, <1>3, <1>4, <1>5, <1>6, <1>7, <1>8, <1>9, <1>10, <1>11, <1>12, <1>13
    DEF Next, Execute, Exit, Crash

LEMMA AuthorInit ==
    ASSUME Init
    PROVE  TypeInv /\ EntryInv /\ CleanInv /\ AuthorInv
  <1>1. pc = "idle"
    BY DEF Init
  <1>2. CleanInv
    BY <1>1 DEF CleanInv, SeenExist, UndoOurs, OutcomeKnown, WalkedClean, SavedClean, Walking
  <1>3. NotYetThere /\ BaselineOurs /\ GuardedKnown
    BY AuthorIsNobody
    DEF Init, NotYetThere, BaselineOurs, GuardedKnown, BlankItem, Nothing
  <1>4. AuthorInv
    BY <1>1, <1>3 DEF AuthorInv, ItemsSeen, SnapshotExact, CreatedOurs, UndoneOurs
  <1> QED
    BY <1>2, <1>4, TypeInit, EntryInit

AuthorsInv == TypeInv /\ EntryInv /\ CleanInv /\ AuthorInv

LEMMA AuthorsInvariant ==
    ASSUME Unverifiable = {}
    PROVE  Spec => []AuthorsInv
  <1>1. Init => AuthorsInv
    BY AuthorInit DEF AuthorsInv
  <1>2. AuthorsInv /\ [Next]_vars => AuthorsInv'
    BY TypeStep, EntryStep, CleanStep, AuthorStep DEF AuthorsInv
  <1> QED
    BY <1>1, <1>2, PTL DEF Spec

(* Who takes an author's value away: only a write of the field itself.     *)
LEMMA OnlyWritesClobber ==
    ASSUME AuthorsInv, [Next]_vars, NEW r \in Recipes, NEW f \in Fields,
           value[r][f] = AuthorValue, value'[r][f] # AuthorValue
    PROVE  Walking /\ r = This /\ op = f + 2 /\ Status(f) = "update"
  <1>1. CASE value' = value
    BY <1>1
  <1>2. ASSUME NEW q \in Recipes, NEW g \in Fields, AuthorEdit(q, g)
        PROVE  FALSE
    BY <1>2 DEF AuthorEdit, AuthorsInv, TypeInv, TypeOK
  <1>3. ASSUME Walking, OpFails
        PROVE  FALSE
    BY <1>3, RollbackSpares DEF OpFails, AuthorsInv, tenant
  <1>4. ASSUME NEW g \in Fields, SetField(g), ~OpFails
        PROVE  Walking /\ r = This /\ op = f + 2 /\ Status(f) = "update"
    <2>1. Walking /\ This \in Recipes /\ op = g + 2
      BY <1>4, ThisIsRecipe DEF SetField, Executing, Walking, AuthorsInv, TypeInv
    <2>2. CASE NoWrite(IF Status(g) = "error" THEN "conflict" ELSE "clean")
      BY <1>1, <2>2 DEF NoWrite, tenant
    <2>3. CASE Status(g) = "update" /\ value' = [value EXCEPT ![This][g] = revision[This]]
      <3>1. r = This /\ f = g
        BY <2>1, <2>3 DEF AuthorsInv, TypeInv, TypeOK
      <3> QED
        BY <2>1, <2>3, <3>1
    <2> QED
      BY <1>4, <2>2, <2>3 DEF SetField
  <1>5. \/ value' = value
        \/ \E q \in Recipes, g \in Fields : AuthorEdit(q, g)
        \/ Walking /\ OpFails
        \/ \E g \in Fields : SetField(g)
    BY DEF Next, Execute, vars, tenant, Revise, StartPush, SkipCached, CreateFolder,
           CreateItem, SetUnresolved, NoWrite, PersistCache, PersistBaseline, EndPush,
           Exit, Crash, Forget, Executing, Walking
  <1>6. \A g \in Fields : SetField(g) => Walking
    BY DEF SetField, Executing, Walking
  <1> QED
    BY <1>1, <1>2, <1>3, <1>4, <1>5, <1>6

LEMMA BeforeIsTenant ==
    ASSUME AuthorsInv, Walking, NEW f \in Fields, op = f + 2
    PROVE  Before[f] = value[This][f]
  <1>1. op <= f + 2
    BY DEF Fields
  <1> QED
    BY <1>1, SnapshotOfThisExact DEF AuthorsInv

SeedsLeft ==
    \A r \in Seeded, f \in Fields : value[r][f] = AuthorValue => value'[r][f] = AuthorValue

(* Content is seeded once: under every policy, in every order and after    *)
(* every failure, crash and rollback, what an author put into a field of a *)
(* CreateOnly recipe stays, as long as its template can be compared.       *)
THEOREM SeedsStayWithAuthors ==
    ASSUME Unverifiable = {}
    PROVE  Spec => SeedsAreLeftToAuthors
  <1>1. AuthorsInv /\ [Next]_vars => [SeedsLeft]_vars
    <2> SUFFICES ASSUME AuthorsInv, [Next]_vars, NEW r \in Seeded, NEW f \in Fields,
                        value[r][f] = AuthorValue, value'[r][f] # AuthorValue
                 PROVE  FALSE
      BY DEF SeedsLeft
    <2>1. r \in Recipes
      BY PushAssumption
    <2>2. Walking /\ r = This /\ op = f + 2 /\ Status(f) = "update"
      BY <2>1, OnlyWritesClobber
    <2>3. Before[f] = AuthorValue /\ revision[This] # AuthorValue
      BY <2>2, BeforeIsTenant, RevisionIsNoAuthor DEF AuthorsInv
    <2>4. ~InSync(f) /\ SeedKept(f)
      BY <2>2, <2>3, AuthorIsNobody DEF InSync, SeedKept
    <2> QED
      BY <2>2, <2>4 DEF Status
  <1> QED
    BY <1>1, AuthorsInvariant, PTL DEF Spec, SeedsAreLeftToAuthors, SeedsLeft

EditsLeft ==
    \A r \in Recipes, f \in Fields :
        <<r, f>> \in guarded /\ value[r][f] = AuthorValue /\ value'[r][f] # AuthorValue
        => options.policy = "recipe-wins" \/ loaded[r] # baseline[r]

(* An author's edit of a field some baseline knows is overwritten only by  *)
(* a push that was told that recipes win, or could not read the baseline,  *)
(* however many pushes failed, crashed, skipped or were rolled back since. *)
THEOREM EditsOutliveFailures ==
    ASSUME Unverifiable = {}
    PROVE  Spec => AuthorEditsSurvive
  <1>1. AuthorsInv /\ [Next]_vars => [EditsLeft]_vars
    <2> SUFFICES ASSUME AuthorsInv, [Next]_vars, NEW r \in Recipes, NEW f \in Fields,
                        <<r, f>> \in guarded, value[r][f] = AuthorValue,
                        value'[r][f] # AuthorValue,
                        options.policy # "recipe-wins", loaded[r] = baseline[r]
                 PROVE  FALSE
      BY DEF EditsLeft
    <2>1. Walking /\ r = This /\ op = f + 2 /\ Status(f) = "update"
      BY OnlyWritesClobber
    <2>2. Before[f] = AuthorValue /\ revision[This] # AuthorValue
      BY <2>1, BeforeIsTenant, RevisionIsNoAuthor DEF AuthorsInv
    <2>3. This \notin created
      BY <2>1 DEF AuthorsInv, AuthorInv, CreatedOurs, Walking
    <2>4. EntryFor(This, f) \notin {NoEntry, AuthorValue}
      BY <2>1, <2>3 DEF EntryFor, AuthorsInv, AuthorInv, BaselineOurs, GuardedKnown
    <2>5. ~InSync(f) /\ TenantMoved(f)
      BY <2>2, <2>4 DEF InSync, TenantMoved
    <2>6. options.policy # "update"
      BY PushAssumption DEF AuthorsInv, TypeInv, TypeOK, Options
    <2> QED
      BY <2>1, <2>5, <2>6 DEF Status
  <1> QED
    BY <1>1, AuthorsInvariant, PTL DEF Spec, AuthorEditsSurvive, EditsLeft

==============================================================================
