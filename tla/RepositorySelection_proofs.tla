--------------------- MODULE RepositorySelection_proofs ---------------------
(***************************************************************************)
(* RepositorySelection for every set of repositories, trees and concurrent *)
(* calls: types, the workers' loyalty to the selection, and the uniqueness *)
(* of stored paths.                                                        *)
(***************************************************************************)
EXTENDS RepositorySelection, TLAPS

\* TypeOK in three parts, by what disturbs them.
StoreType ==
  /\ stored \in [Repo -> Maybe(Object)]
  /\ \A r \in Repo : stored[r] # Nothing => stored[r].id = r
  /\ emitQueued \in BOOLEAN

WorkerType ==
  /\ fetcher \in Maybe(Object) /\ updater \in Maybe(Object)
  /\ pruner \in Maybe(Object)

CallType ==
  /\ selected \in Maybe(Object)
  /\ selectedBy \in Call \cup {Nothing, Adopted}
  /\ pc \in [Call -> {"idle", "selecting", "recover", "tasks", "associate"}]
  /\ target \in [Call -> Maybe(Object)]
  /\ \A c \in Call : pc[c] # "idle" => target[c] # Nothing

RestType ==
  /\ repositories \in [Repo -> Maybe(Object)]
  /\ \A r \in Repo : repositories[r] # Nothing => repositories[r].id = r
  /\ lastSelected \in Maybe(Repo)
  /\ refreshing \subseteq [obj : Object, at : RefreshStep]
  /\ focused \in BOOLEAN
  /\ gone \subseteq Tree /\ moves \in 0 .. MaxMoves

LEMMA TypeParts == TypeOK <=> StoreType /\ WorkerType /\ CallType /\ RestType
BY DEF TypeOK, StoreType, WorkerType, CallType, RestType

LEMMA TypePartsNext ==
  TypeOK' <=> StoreType' /\ WorkerType' /\ CallType' /\ RestType'
BY DEF TypeOK, StoreType, WorkerType, CallType, RestType

-----------------------------------------------------------------------------
(* Objects and records.                                                    *)

LEMMA ObjectFields ==
  ASSUME NEW o \in Object
  PROVE  /\ o # Nothing /\ o.id \in Repo /\ o.tree \in Tree
         /\ [o EXCEPT !.gh = TRUE] \in Object
         /\ [o EXCEPT !.gh = TRUE].id = o.id
         /\ Healed(o) \in Object /\ Healed(o).id = o.id
         /\ \A flag \in BOOLEAN :
              /\ [o EXCEPT !.missing = flag] \in Object
              /\ [o EXCEPT !.missing = flag].id = o.id
         /\ o.alias < MaxAlias =>
              /\ [o EXCEPT !.alias = @ + 1] \in Object
              /\ [o EXCEPT !.alias = @ + 1].id = o.id
<1>1. o # Nothing
  BY NothingIsNoObject
<1>2. o.id \in Repo /\ o.tree \in Tree /\ o.alias \in 0 .. MaxAlias
  BY DEF Object
<1>3. /\ [o EXCEPT !.gh = TRUE] \in Object
      /\ [o EXCEPT !.gh = TRUE].id = o.id
  BY DEF Object
<1>4. Healed(o) \in Object /\ Healed(o).id = o.id
  BY DEF Object, Healed
<1>5. ASSUME NEW flag \in BOOLEAN
      PROVE  /\ [o EXCEPT !.missing = flag] \in Object
             /\ [o EXCEPT !.missing = flag].id = o.id
  BY DEF Object
<1>6. ASSUME o.alias < MaxAlias
      PROVE  /\ [o EXCEPT !.alias = @ + 1] \in Object
             /\ [o EXCEPT !.alias = @ + 1].id = o.id
  <2>1. o.alias + 1 \in 0 .. MaxAlias
    BY <1>2, <1>6, ConstantsOK
  <2> QED
    BY <2>1 DEF Object
<1> QED
  BY <1>1, <1>2, <1>3, <1>4, <1>5, <1>6

\* A field of a record is overwritten by a value of the same id.
LEMMA SetFieldType ==
  ASSUME StoreType, NEW r \in Repo, NEW o, SetField(r, o),
         stored[r] # Nothing => o \in Object /\ o.id = r
  PROVE  StoreType'
<1>1. CASE stored[r] = Nothing
  BY <1>1 DEF StoreType, SetField, Write
<1>2. CASE stored[r] # Nothing
  <2>1. stored' = [stored EXCEPT ![r] = o] /\ emitQueued' = TRUE
    BY <1>2 DEF SetField, Write
  <2> QED
    BY <1>2, <2>1 DEF StoreType, Maybe
<1> QED
  BY <1>1, <1>2

LEMMA SetMissingType ==
  ASSUME StoreType, NEW r \in Repo, NEW flag \in BOOLEAN, SetMissing(r, flag)
  PROVE  StoreType'
<1>1. stored[r] # Nothing =>
        /\ [stored[r] EXCEPT !.missing = flag] \in Object
        /\ [stored[r] EXCEPT !.missing = flag].id = r
  BY ObjectFields DEF StoreType, Maybe
<1> QED
  BY <1>1, SetFieldType DEF SetMissing

LEMMA HealType ==
  ASSUME StoreType, NEW o \in Object, Heal(o) PROVE StoreType'
<1> DEFINE others == {r \in Present(stored) \ {o.id} :
                        stored[r].tree = o.tree /\ ~stored[r].inGit}
           kept   == [r \in Repo |-> IF r \in others THEN Nothing
                                                     ELSE stored[r]]
           fixed  == [stored[o.id] EXCEPT !.tree = o.tree, !.inGit = FALSE,
                                          !.missing = FALSE]
<1>1. o.id \in Repo /\ o.tree \in Tree
  BY ObjectFields
<1>2. /\ kept \in [Repo -> Maybe(Object)] /\ kept[o.id] = stored[o.id]
      /\ \A r \in Repo : kept[r] # Nothing => kept[r].id = r
  BY <1>1 DEF StoreType, Maybe
<1>3. CASE stored[o.id] = Nothing
  <2>1. stored' = kept /\ emitQueued' = TRUE
    BY <1>3 DEF Heal, Write
  <2> QED
    BY <1>2, <2>1 DEF StoreType
<1>4. CASE stored[o.id] # Nothing
  <2>1. stored[o.id] \in Object /\ stored[o.id].id = o.id
    BY <1>1, <1>4 DEF StoreType, Maybe
  <2>2. fixed \in Object /\ fixed.id = o.id
    BY <1>1, <2>1 DEF Object
  <2>3. stored' = [kept EXCEPT ![o.id] = fixed] /\ emitQueued' = TRUE
    BY <1>2, <1>4 DEF Heal, Write
  <2> QED
    BY <1>1, <1>2, <2>2, <2>3 DEF StoreType, Maybe
<1> QED
  BY <1>3, <1>4

-----------------------------------------------------------------------------
(* The shared parts of the actions.                                        *)

LEMMA BeginSelectType ==
  ASSUME WorkerType, CallType, NEW c \in Call, NEW o \in Maybe(Object),
         BeginSelect(c, o)
  PROVE  WorkerType' /\ CallType'
BY DEF WorkerType, CallType, BeginSelect, StopWorkers, Maybe

LEMMA ReturnType ==
  ASSUME CallType, NEW c \in Call, Return(c), UNCHANGED <<selected, selectedBy>>
  PROVE  CallType'
BY DEF CallType, Return, Maybe

LEMMA ReselectType ==
  ASSUME TypeOK, NEW c \in Call, NEW records, Reselect(c, records),
         records \in [Repo -> Maybe(Object)]
  PROVE  WorkerType' /\ CallType'
<1>1. Choices(records) \subseteq Maybe(Object)
  BY DEF TypeOK, Choices, Present, Object, Maybe
<1>2. WorkerType /\ CallType
  BY TypeParts
<1>3. ASSUME NEW o \in Choices(records), BeginSelect(c, o)
      PROVE  WorkerType' /\ CallType'
  BY <1>1, <1>2, <1>3, BeginSelectType
<1>4. CASE UNCHANGED <<selected, selectedBy, pc, target, workers>>
  BY <1>2, <1>4 DEF WorkerType, CallType, workers
<1> QED
  BY <1>3, <1>4 DEF Reselect

LEMMA BecomesType ==
  ASSUME RestType, NEW x, NEW rest, Becomes(x, rest),
         rest \subseteq [obj : Object, at : RefreshStep]
  PROVE  refreshing' \subseteq [obj : Object, at : RefreshStep]
BY DEF RestType, Becomes

LEMMA InitType == Init => TypeOK
<1> SUFFICES ASSUME Init PROVE TypeOK
  OBVIOUS
<1>1. \A r \in Repo : stored[r] \in Object
  BY DEF Init
<1>2. StoreType
  BY <1>1 DEF Init, StoreType, Maybe
<1>3. WorkerType /\ CallType
  BY DEF Init, WorkerType, CallType, Maybe
<1>4. RestType
  BY <1>1, <1>2, ConstantsOK DEF Init, RestType, StoreType, Maybe, RefreshStep
<1> QED
  BY <1>2, <1>3, <1>4, TypeParts

-----------------------------------------------------------------------------
LEMMA SelectStepType ==
  ASSUME TypeOK, NEW c \in Call, SelectStep(c) PROVE TypeOK'
<1> USE TypeParts, TypePartsNext
<1>1. /\ StoreType /\ WorkerType /\ CallType /\ RestType
      /\ pc[c] # "idle" => target[c] \in Object
  BY DEF CallType, Maybe
<1>2. CASE ContinueSelect(c)
  <2>1. target[c] \in Object /\ target[c].id \in Repo
    BY <1>1, <1>2, ObjectFields DEF ContinueSelect
  <2>2. StoreType' /\ WorkerType'
    BY <1>1, <1>2 DEF ContinueSelect, StoreType, WorkerType, store, workers
  <2>3. CallType'
    BY <1>1, <1>2 DEF ContinueSelect, CallType
  <2>4. RestType'
    BY <1>1, <1>2, <2>1 DEF ContinueSelect, RestType, Maybe, world
  <2> QED
    BY <2>2, <2>3, <2>4
<1>3. CASE RecoverMissing(c)
  <2>1. target[c] \in Object /\ target[c].id \in Repo
        /\ [target[c] EXCEPT !.missing = FALSE] \in Object
        /\ [target[c] EXCEPT !.missing = FALSE] # Nothing
    BY <1>1, <1>3, ObjectFields DEF RecoverMissing
  <2>2. WorkerType' /\ RestType'
    BY <1>1, <1>3 DEF RecoverMissing, WorkerType, RestType, workers, world
  <2>3. CASE target[c].tree \in gone
    BY <1>1, <1>3, <2>2, <2>3, ReturnType
    DEF RecoverMissing, StoreType, store
  <2>4. CASE target[c].tree \notin gone
    <3>1. StoreType'
      BY <1>1, <1>3, <2>1, <2>4, SetMissingType DEF RecoverMissing
    <3>2. CallType'
      BY <1>1, <1>3, <2>1, <2>4 DEF RecoverMissing, CallType, Maybe
    <3> QED
      BY <2>2, <3>1, <3>2
  <2> QED
    BY <2>3, <2>4
<1>4. CASE RunTasks(c)
  <2>1. target[c] \in Object
    BY <1>1, <1>4 DEF RunTasks
  <2>2. StoreType'
    BY <1>1, <1>4 DEF RunTasks, StoreType, store
  <2>3. [obj |-> target[c], at |-> "start"] \in [obj : Object, at : RefreshStep]
    BY <2>1 DEF RefreshStep
  <2>4. RestType'
    BY <1>1, <1>4, <2>3 DEF RunTasks, RestType, world
  <2>5. CASE StartWorkers(target[c]) /\ pc' = [pc EXCEPT ![c] = "associate"]
             /\ UNCHANGED target
    <3>1. WorkerType'
      BY <1>1, <2>1, <2>5 DEF WorkerType, StartWorkers, Maybe
    <3>2. CallType'
      BY <1>1, <1>4, <2>1, <2>5, ObjectFields DEF RunTasks, CallType
    <3> QED
      BY <2>2, <2>4, <3>1, <3>2
  <2>6. CASE Return(c) /\ UNCHANGED workers
    <3>1. WorkerType'
      BY <1>1, <2>6 DEF WorkerType, workers
    <3>2. CallType'
      BY <1>1, <1>4, <2>6, ReturnType DEF RunTasks
    <3> QED
      BY <2>2, <2>4, <3>1, <3>2
  <2> QED
    BY <1>4, <2>5, <2>6 DEF RunTasks
<1>5. CASE Associate(c)
  <2>1. target[c].id \in Repo
    BY <1>1, <1>5, ObjectFields DEF Associate
  <2>2. stored[target[c].id] # Nothing =>
          /\ [stored[target[c].id] EXCEPT !.gh = TRUE] \in Object
          /\ [stored[target[c].id] EXCEPT !.gh = TRUE].id = target[c].id
    BY <1>1, <2>1, ObjectFields DEF StoreType, Maybe
  <2>3. StoreType'
    <3>1. CASE UNCHANGED store
      BY <1>1, <3>1 DEF StoreType, store
    <3>2. CASE SetField(target[c].id,
                        [stored[target[c].id] EXCEPT !.gh = TRUE])
      BY <1>1, <2>1, <2>2, <3>2, SetFieldType
    <3> QED
      BY <1>5, <3>1, <3>2 DEF Associate
  <2>4. CallType'
    BY <1>1, <1>5, ReturnType DEF Associate
  <2>5. WorkerType' /\ RestType'
    BY <1>1, <1>5 DEF Associate, WorkerType, RestType, workers, world
  <2> QED
    BY <2>3, <2>4, <2>5
<1> QED
  BY <1>2, <1>3, <1>4, <1>5 DEF SelectStep

LEMMA RefreshType ==
  ASSUME TypeOK, NEW x \in refreshing, RefreshOne(x) PROVE TypeOK'
<1> USE TypeParts, TypePartsNext
<1>1. StoreType /\ WorkerType /\ CallType /\ RestType
  OBVIOUS
<1>2. /\ x \in [obj : Object, at : RefreshStep] /\ x.obj \in Object
      /\ x.obj.id \in Repo
  BY <1>1, ObjectFields DEF RestType
<1>3. WorkerType'
  BY <1>1 DEF RefreshOne, WorkerType, workers
<1>4. ASSUME refreshing' \subseteq [obj : Object, at : RefreshStep]
      PROVE  RestType'
  BY <1>1, <1>4 DEF RefreshOne, RestType, world
<1>5. ASSUME UNCHANGED <<selected, selectedBy>> PROVE CallType'
  BY <1>1, <1>5 DEF RefreshOne, CallType
<1>6. /\ \A label \in RefreshStep :
           [x EXCEPT !.at = label] \in [obj : Object, at : RefreshStep]
      /\ {"start", "heal", "status"} \subseteq RefreshStep
  BY <1>2 DEF RefreshStep
<1>7. /\ Healed(x.obj) \in Object
      /\ [obj |-> Healed(x.obj), at |-> "status"] \in
           [obj : Object, at : RefreshStep]
      /\ [obj |-> [x.obj EXCEPT !.missing = FALSE], at |-> "start"] \in
           [obj : Object, at : RefreshStep]
  BY <1>2, <1>6, ObjectFields
<1>8. ASSUME UNCHANGED store PROVE StoreType'
  BY <1>1, <1>8 DEF StoreType, store
<1>9. CASE CheckExists(x)
  <2>1. StoreType'
    BY <1>1, <1>2, <1>8, <1>9, SetMissingType DEF CheckExists
  <2>2. refreshing' \subseteq [obj : Object, at : RefreshStep]
    BY <1>1, <1>6, <1>9, BecomesType DEF CheckExists
  <2> QED
    BY <1>3, <1>4, <1>5, <1>9, <2>1, <2>2 DEF CheckExists
<1>10. CASE HealPath(x)
  <2>1. StoreType'
    BY <1>1, <1>2, <1>10, HealType DEF HealPath
  <2>2. refreshing' \subseteq [obj : Object, at : RefreshStep]
    BY <1>1, <1>7, <1>10, BecomesType DEF HealPath
  <2>3. CallType'
    BY <1>1, <1>5, <1>7, <1>10 DEF HealPath, Adopt, RefreshOne, CallType, Maybe
  <2> QED
    BY <1>3, <1>4, <2>1, <2>2, <2>3
<1>11. CASE HealFails(x)
  <2>1. refreshing' \subseteq [obj : Object, at : RefreshStep]
    BY <1>1, <1>6, <1>11, BecomesType DEF HealFails
  <2> QED
    BY <1>3, <1>4, <1>5, <1>8, <1>11, <2>1 DEF HealFails
<1>12. CASE LoadStatus(x)
  <2>1. StoreType'
    BY <1>1, <1>2, <1>8, <1>12, SetMissingType DEF LoadStatus
  <2>2. refreshing' \subseteq [obj : Object, at : RefreshStep]
    BY <1>1, <1>12, BecomesType DEF LoadStatus
  <2> QED
    BY <1>3, <1>4, <1>5, <1>12, <2>1, <2>2 DEF LoadStatus
<1>13. CASE RecoverThenRefresh(x)
  <2>1. StoreType'
    BY <1>1, <1>2, <1>8, <1>13, SetMissingType DEF RecoverThenRefresh
  <2>2. refreshing' \subseteq [obj : Object, at : RefreshStep]
    BY <1>1, <1>7, <1>13, BecomesType DEF RecoverThenRefresh
  <2> QED
    BY <1>3, <1>4, <1>5, <1>13, <2>1, <2>2 DEF RecoverThenRefresh
<1>14. CASE SweepPath(x)
  <2>1. StoreType'
    BY <1>1, <1>2, <1>8, <1>14, HealType DEF SweepPath
  <2>2. refreshing' \subseteq [obj : Object, at : RefreshStep]
    BY <1>1, <1>14, BecomesType DEF SweepPath
  <2> QED
    BY <1>3, <1>4, <1>5, <1>14, <2>1, <2>2 DEF SweepPath
<1> QED
  BY <1>9, <1>10, <1>11, <1>12, <1>13, <1>14 DEF RefreshOne

LEMMA UserType == ASSUME TypeOK, UserOrDisk PROVE TypeOK'
<1> USE TypeParts, TypePartsNext
<1>1. /\ StoreType /\ WorkerType /\ CallType /\ RestType
      /\ Move => moves' \in 0 .. MaxMoves
  BY ConstantsOK DEF RestType, Move
<1>2. ASSUME NEW c \in Call, NEW r \in Repo, UserSelects(c, r) PROVE TypeOK'
  <2>1. repositories[r] \in Maybe(Object)
    BY <1>1 DEF RestType
  <2>2. WorkerType' /\ CallType'
    BY <1>1, <1>2, <2>1, BeginSelectType DEF UserSelects
  <2>3. StoreType' /\ RestType'
    BY <1>1, <1>2 DEF UserSelects, StoreType, RestType, store
  <2> QED
    BY <2>2, <2>3
<1>3. ASSUME NEW r \in Repo, ChangeAlias(r) PROVE TypeOK'
  <2>1. /\ [stored[r] EXCEPT !.alias = @ + 1] \in Object
        /\ [stored[r] EXCEPT !.alias = @ + 1].id = r
    BY <1>1, <1>3, ObjectFields DEF ChangeAlias, StoreType, Maybe
  <2>2. StoreType'
    BY <1>1, <1>3, <2>1, SetFieldType DEF ChangeAlias
  <2> QED
    BY <1>1, <1>3, <2>2
    DEF ChangeAlias, WorkerType, CallType, RestType, workers
<1>4. ASSUME NEW r \in Repo, Remove(r) PROVE TypeOK'
  <2>1. StoreType'
    BY <1>1, <1>4 DEF Remove, Write, StoreType, Maybe
  <2> QED
    BY <1>1, <1>4, <2>1 DEF Remove, WorkerType, CallType, RestType, workers
<1>5. ASSUME NEW t \in Tree, DiskChanges(t) PROVE TypeOK'
  BY <1>1, <1>5
  DEF DiskChanges, StoreType, WorkerType, CallType, RestType, store, workers
<1>6. CASE RefreshSelected
  <2>1. \A label \in {"recover", "start"} :
          [obj |-> selected, at |-> label] \in [obj : Object, at : RefreshStep]
    BY <1>1, <1>6 DEF RefreshSelected, CallType, Maybe, RefreshStep
  <2>2. RestType'
    BY <1>1, <1>6, <2>1 DEF RefreshSelected, RestType
  <2> QED
    BY <1>1, <1>6, <2>2
    DEF RefreshSelected, StoreType, WorkerType, CallType, store, workers
<1>7. CASE Focus
  <2>1. updater' \in Maybe(Object)
    BY <1>1, <1>7 DEF Focus, CallType, WorkerType, Maybe
  <2> QED
    BY <1>1, <1>7, <2>1
    DEF Focus, StoreType, WorkerType, CallType, RestType, store
<1>8. CASE Blur
  BY <1>1, <1>8
  DEF Blur, StoreType, WorkerType, CallType, RestType, Maybe, store
<1> QED
  BY <1>2, <1>3, <1>4, <1>5, <1>6, <1>7, <1>8 DEF UserOrDisk

LEMMA NextType == ASSUME TypeOK, [Next]_vars PROVE TypeOK'
<1> USE TypeParts, TypePartsNext
<1>1. ASSUME NEW c \in Call, Start(c) PROVE TypeOK'
  <2>1. repositories \in [Repo -> Maybe(Object)]
    BY DEF RestType
  <2>2. WorkerType' /\ CallType'
    BY <1>1, <2>1, ReselectType DEF Start
  <2> QED
    BY <1>1, <2>2 DEF Start, Reselect, StoreType, RestType, store, world
<1>2. ASSUME NEW c \in Call, Emit(c) PROVE TypeOK'
  <2>1. stored \in [Repo -> Maybe(Object)]
    BY DEF StoreType
  <2>2. WorkerType' /\ CallType'
    BY <1>2, <2>1, ReselectType DEF Emit
  <2> QED
    BY <1>2, <2>2 DEF Emit, Reselect, StoreType, RestType, world
<1>3. CASE UNCHANGED vars
  BY <1>3
  DEF vars, StoreType, WorkerType, CallType, RestType, store, workers, world
<1> QED
  BY <1>1, <1>2, <1>3, SelectStepType, RefreshType, UserType
  DEF Next, RefreshAny

\* The variables of the selection keep their types.
THEOREM TypeCorrect == Spec => []TypeOK
BY InitType, NextType, PTL DEF Spec

-----------------------------------------------------------------------------
(* Workers follow the selection.  Stopped workers trivially do; they start *)
(* only for the object a call still finds selected, and an adopted object  *)
(* has the id of the one it replaces.                                      *)

LEMMA StoppedFollow ==
  ASSUME NEW c, NEW o, BeginSelect(c, o) PROVE WorkersFollowSelection'
BY DEF BeginSelect, StopWorkers, WorkersFollowSelection

LEMMA SameFollow ==
  ASSUME WorkersFollowSelection, UNCHANGED <<fetcher, updater, pruner>>,
         selected' = selected
           \/ (selected # Nothing /\ selected' # Nothing
               /\ selected'.id = selected.id)
  PROVE  WorkersFollowSelection'
BY DEF WorkersFollowSelection

LEMMA NextFollow ==
  ASSUME TypeOK, WorkersFollowSelection, [Next]_vars
  PROVE  WorkersFollowSelection'
<1>1. ASSUME NEW c \in Call, NEW records, Reselect(c, records)
      PROVE  WorkersFollowSelection'
  BY <1>1, StoppedFollow, SameFollow DEF Reselect, workers
<1>2. ASSUME NEW c \in Call, SelectStep(c) PROVE WorkersFollowSelection'
  <2>1. selected' = selected
    BY <1>2
    DEF SelectStep, ContinueSelect, RecoverMissing, RunTasks, Associate
  <2>2. CASE UNCHANGED workers
    BY <2>1, <2>2, SameFollow DEF workers
  <2>3. CASE RunTasks(c) /\ MaybeSelected(c) /\ StartWorkers(target[c])
    <3>1. selected = target[c] /\ selected # Nothing
      BY <2>3 DEF RunTasks, MaybeSelected, TypeOK
    <3>2. \A w \in {fetcher', updater', pruner'} : w \in {target[c], Nothing}
      BY <2>3 DEF StartWorkers
    <3> QED
      BY <2>1, <3>1, <3>2 DEF WorkersFollowSelection
  <2> QED
    BY <1>2, <2>2, <2>3
    DEF SelectStep, ContinueSelect, RecoverMissing, RunTasks, Associate
<1>3. ASSUME NEW x \in refreshing, RefreshOne(x) PROVE WorkersFollowSelection'
  <2>1. UNCHANGED <<fetcher, updater, pruner>>
    BY <1>3 DEF RefreshOne, workers
  <2>2. CASE UNCHANGED selected
    BY <2>1, <2>2, SameFollow
  <2>3. CASE HealPath(x)
    <3>1. Healed(x.obj) # Nothing /\ Healed(x.obj).id = x.obj.id
      BY ObjectFields DEF TypeOK
    <3> QED
      BY <2>1, <2>3, <3>1, SameFollow DEF HealPath, Adopt
  <2> QED
    BY <1>3, <2>2, <2>3
    DEF RefreshOne, CheckExists, HealFails, LoadStatus, RecoverThenRefresh,
        SweepPath
<1>4. CASE UserOrDisk
  <2>1. ASSUME NEW c \in Call, NEW r \in Repo, UserSelects(c, r)
        PROVE  WorkersFollowSelection'
    BY <2>1, StoppedFollow DEF UserSelects
  <2>2. CASE Focus
    BY <2>2 DEF Focus, WorkersFollowSelection
  <2>3. CASE Blur
    BY <2>3 DEF Blur, WorkersFollowSelection
  <2>4. CASE UNCHANGED <<selected, workers>>
    BY <2>4, SameFollow DEF workers
  <2> QED
    BY <1>4, <2>1, <2>2, <2>3, <2>4
    DEF UserOrDisk, ChangeAlias, Remove, DiskChanges, RefreshSelected
<1>5. CASE UNCHANGED vars
  BY <1>5, SameFollow DEF vars, workers
<1> QED
  BY <1>1, <1>2, <1>3, <1>4, <1>5 DEF Next, Start, Emit, RefreshAny

\* Whatever selections, refreshes, corrections and emissions interleave, a
\* worker is never active for a repository that is not selected.
THEOREM LoyalWorkers == Spec => []WorkersFollowSelection
<1>1. Init => TypeOK /\ WorkersFollowSelection
  BY InitType DEF Init, WorkersFollowSelection
<1>2. TypeOK /\ WorkersFollowSelection /\ [Next]_vars
        => (TypeOK /\ WorkersFollowSelection)'
  BY NextType, NextFollow
<1> QED
  BY <1>1, <1>2, PTL DEF Spec

-----------------------------------------------------------------------------
(* Stored paths stay distinct: every write but healing keeps the path of   *)
(* the record, and healing first drops the record that has the path.       *)

LEMMA SetFieldPaths ==
  ASSUME PathsAreUnique, StoreType, NEW r \in Repo, NEW o, SetField(r, o),
         stored[r] # Nothing =>
           o.tree = stored[r].tree /\ o.inGit = stored[r].inGit
  PROVE  PathsAreUnique'
<1>1. CASE stored[r] = Nothing
  BY <1>1 DEF SetField, Write, PathsAreUnique, Present
<1>2. CASE stored[r] # Nothing
  <2>1. /\ Present(stored)' \subseteq Present(stored)
        /\ \A s \in Present(stored)' : /\ stored'[s].tree = stored[s].tree
                                       /\ stored'[s].inGit = stored[s].inGit
    BY <1>2 DEF SetField, Write, StoreType, Present
  <2> QED
    BY <2>1 DEF PathsAreUnique
<1> QED
  BY <1>1, <1>2

LEMMA SetMissingPaths ==
  ASSUME PathsAreUnique, StoreType, NEW r \in Repo, NEW flag \in BOOLEAN,
         SetMissing(r, flag)
  PROVE  PathsAreUnique'
<1>1. stored[r] # Nothing =>
        /\ [stored[r] EXCEPT !.missing = flag].tree = stored[r].tree
        /\ [stored[r] EXCEPT !.missing = flag].inGit = stored[r].inGit
  BY DEF StoreType, Maybe, Object
<1> QED
  BY <1>1, SetFieldPaths DEF SetMissing

LEMMA HealPaths ==
  ASSUME PathsAreUnique, StoreType, NEW o \in Object, Heal(o)
  PROVE  PathsAreUnique'
<1> DEFINE others == {r \in Present(stored) \ {o.id} :
                        stored[r].tree = o.tree /\ ~stored[r].inGit}
           kept   == [r \in Repo |-> IF r \in others THEN Nothing
                                                     ELSE stored[r]]
           fixed  == [stored[o.id] EXCEPT !.tree = o.tree, !.inGit = FALSE,
                                          !.missing = FALSE]
<1>1. o.id \in Repo
  BY ObjectFields
<1>2. CASE stored[o.id] = Nothing
  <2>1. stored' = kept
    BY <1>2 DEF Heal, Write
  <2>2. \A r \in Present(stored)' : r \in Present(stored)
                                    /\ stored'[r] = stored[r]
    BY <2>1 DEF Present
  <2> QED
    BY <2>2 DEF PathsAreUnique
<1>3. CASE stored[o.id] # Nothing
  <2>1. stored[o.id] \in Object
    BY <1>1, <1>3 DEF StoreType, Maybe
  <2>2. fixed.tree = o.tree /\ fixed.inGit = FALSE
    BY <2>1 DEF Object
  <2>3. stored' = [kept EXCEPT ![o.id] = fixed]
    BY <1>1, <1>3 DEF Heal, Write
  <2>4. stored'[o.id] = fixed
    BY <1>1, <2>3
  <2>5. \A r \in Present(stored)' \ {o.id} :
          /\ r \in Present(stored) /\ stored'[r] = stored[r]
          /\ ~(stored[r].tree = o.tree /\ ~stored[r].inGit)
    BY <2>3 DEF Present
  <2>6. \A r \in Present(stored) : stored[r].inGit \in BOOLEAN
    BY DEF StoreType, Maybe, Object, Present
  <2>7. ASSUME NEW r \in Present(stored)', NEW s \in Present(stored)',
               stored'[r].tree = stored'[s].tree,
               stored'[r].inGit = stored'[s].inGit
        PROVE  r = s
    <3>1. CASE r # o.id /\ s # o.id
      BY <2>5, <2>7, <3>1 DEF PathsAreUnique
    <3>2. CASE r = o.id /\ s # o.id
      <4>1. stored'[s].tree = o.tree /\ stored'[s].inGit = FALSE
        BY <2>2, <2>4, <2>7, <3>2
      <4>2. ~(stored'[s].tree = o.tree /\ ~stored'[s].inGit)
        BY <2>5, <2>7, <3>2
      <4> QED
        BY <4>1, <4>2
    <3>3. CASE r # o.id /\ s = o.id
      BY <2>2, <2>4, <2>5, <2>6, <2>7, <3>3
    <3> QED
      BY <3>1, <3>2, <3>3
  <2> QED
    BY <2>7 DEF PathsAreUnique
<1> QED
  BY <1>2, <1>3

LEMMA NextPaths ==
  ASSUME TypeOK, PathsAreUnique, [Next]_vars PROVE PathsAreUnique'
<1>1. StoreType /\ CallType /\ RestType
  BY TypeParts
<1>2. ASSUME UNCHANGED stored PROVE PathsAreUnique'
  BY <1>2 DEF PathsAreUnique, Present
<1>3. ASSUME NEW c \in Call, SelectStep(c) PROVE PathsAreUnique'
  <2>1. pc[c] # "idle" => target[c].id \in Repo
    BY <1>1, ObjectFields DEF CallType, Maybe
  <2>2. CASE RecoverMissing(c)
    BY <1>1, <1>2, <2>1, <2>2, SetMissingPaths DEF RecoverMissing, store
  <2>3. CASE Associate(c)
    <3>1. target[c].id \in Repo
      BY <2>1, <2>3 DEF Associate
    <3>2. stored[target[c].id] # Nothing =>
            /\ [stored[target[c].id] EXCEPT !.gh = TRUE].tree =
                 stored[target[c].id].tree
            /\ [stored[target[c].id] EXCEPT !.gh = TRUE].inGit =
                 stored[target[c].id].inGit
      BY <1>1, <3>1 DEF StoreType, Maybe, Object
    <3> QED
      BY <1>1, <1>2, <2>3, <3>1, <3>2, SetFieldPaths DEF Associate, store
  <2> QED
    BY <1>2, <1>3, <2>2, <2>3 DEF SelectStep, ContinueSelect, RunTasks, store
<1>4. ASSUME NEW x \in refreshing, RefreshOne(x) PROVE PathsAreUnique'
  <2>1. x.obj \in Object /\ x.obj.id \in Repo
    BY <1>1, ObjectFields DEF RestType
  <2> QED
    BY <1>1, <1>2, <1>4, <2>1, SetMissingPaths, HealPaths
    DEF RefreshOne, CheckExists, HealPath, HealFails, LoadStatus,
        RecoverThenRefresh, SweepPath, store
<1>5. CASE UserOrDisk
  <2>1. ASSUME NEW r \in Repo, ChangeAlias(r) PROVE PathsAreUnique'
    <3>1. /\ [stored[r] EXCEPT !.alias = @ + 1].tree = stored[r].tree
          /\ [stored[r] EXCEPT !.alias = @ + 1].inGit = stored[r].inGit
      BY <1>1, <2>1 DEF ChangeAlias, StoreType, Maybe, Object
    <3> QED
      BY <1>1, <2>1, <3>1, SetFieldPaths DEF ChangeAlias
  <2>2. ASSUME NEW r \in Repo, Remove(r) PROVE PathsAreUnique'
    <3>1. \A s \in Present(stored)' : s \in Present(stored)
                                      /\ stored'[s] = stored[s]
      BY <1>1, <2>2 DEF Remove, Write, Present, StoreType
    <3> QED
      BY <3>1 DEF PathsAreUnique
  <2> QED
    BY <1>2, <1>5, <2>1, <2>2
    DEF UserOrDisk, UserSelects, DiskChanges, RefreshSelected, Focus, Blur,
        store
<1> QED
  BY <1>2, <1>3, <1>4, <1>5 DEF Next, Start, Emit, RefreshAny, vars, store

\* Healing, recovering, renaming and removing records in any order never gives
\* two records one path, which is what the unique index would refuse.
THEOREM UniquePaths == Spec => []PathsAreUnique
<1>1. Init => TypeOK /\ PathsAreUnique
  BY InitType DEF Init, PathsAreUnique, Present
<1>2. TypeOK /\ PathsAreUnique /\ [Next]_vars => (TypeOK /\ PathsAreUnique)'
  BY NextType, NextPaths
<1> QED
  BY <1>1, <1>2, PTL DEF Spec
=============================================================================
