------------------------- MODULE RepositorySelection -------------------------
(***************************************************************************)
(* Which repository the app store has selected, and the background workers *)
(* that follow the selection: the fetcher, the pull request updater and    *)
(* the branch pruner.  RepositoriesStore keeps the records; a change is    *)
(* announced by one emission, which replaces the app store's list and      *)
(* reselects when the hash of the selected Repository is no longer that of *)
(* its record.  A selection starts a refresh, a refresh may correct the    *)
(* record, and a corrected record reselects.                               *)
(*                                                                         *)
(* A Repository object is a snapshot of a record; every field modelled is  *)
(* part of its hash.  `selectedBy` tells two objects of equal content      *)
(* apart: the code compares references when a selection resumes.           *)
(***************************************************************************)
EXTENDS Naturals, FiniteSets

CONSTANTS Repo,      \* repository ids
          Tree,      \* working trees on disk
          BadPaths,  \* ids first stored with a path inside the .git directory
          Call,      \* slots for concurrent _selectRepository calls
          Nothing, Adopted,
          MaxAlias,  \* bound: aliases given to a repository
          MaxMoves   \* bound: moves of the user and of the disk

ASSUME ConstantsOK ==
  /\ BadPaths \subseteq Repo
  /\ Nothing \notin Call /\ Adopted \notin Call /\ Nothing # Adopted
  /\ MaxAlias \in Nat /\ MaxMoves \in Nat

Object == [id : Repo, tree : Tree, inGit : BOOLEAN, missing : BOOLEAN,
           alias : 0 .. MaxAlias, gh : BOOLEAN]

ASSUME NothingIsNoObject == Nothing \notin Object

Maybe(S)    == S \cup {Nothing}
RefreshStep == {"start", "recover", "heal", "status", "sweep"}

VARIABLES
  stored,        \* the records of RepositoriesStore
  emitQueued,    \* an emission is due
  repositories,  \* the app store's copy of the records
  selected, selectedBy,
  lastSelected,  \* LastSelectedRepositoryIDKey
  pc, target,    \* _selectRepository calls and the object each works on
  refreshing,    \* _refreshRepository calls in flight
  fetcher, updater, pruner,  \* the Repository each current worker works on
  focused,       \* appIsFocused
  gone,          \* working trees that are not on disk
  moves          \* moves made

store   == <<stored, emitQueued>>
workers == <<fetcher, updater, pruner>>
world   == <<focused, gone, moves>>
vars    == <<store, repositories, selected, selectedBy, lastSelected, pc,
             target, refreshing, workers, world>>

Present(records) == {r \in Repo : records[r] # Nothing}

\* The paths first stored are distinct.
Init ==
  /\ stored \in [Repo -> {o \in Object : ~o.missing /\ o.alias = 0}]
  /\ \A r \in Repo : stored[r].id = r /\ (stored[r].inGit <=> r \in BadPaths)
  /\ \A r, s \in Repo :
       stored[r].tree = stored[s].tree /\ stored[r].inGit = stored[s].inGit
         => r = s
  /\ emitQueued = FALSE
  /\ repositories = stored
  /\ selected = Nothing /\ selectedBy = Nothing /\ lastSelected = Nothing
  /\ pc = [c \in Call |-> "idle"]
  /\ target = [c \in Call |-> Nothing]
  /\ refreshing = {[obj |-> stored[r], at |-> "sweep"] : r \in BadPaths}
  /\ fetcher = Nothing /\ updater = Nothing /\ pruner = Nothing
  /\ focused \in BOOLEAN /\ gone = {} /\ moves = 0

-----------------------------------------------------------------------------
(* RepositoriesStore.                                                      *)

\* One emission covers every change made before it.
Write(records) == stored' = records /\ emitQueued' = TRUE

\* Updating a record that has been removed changes nothing.
SetField(r, newRecord) ==
  Write(IF stored[r] = Nothing THEN stored
                               ELSE [stored EXCEPT ![r] = newRecord])

SetMissing(r, flag) == SetField(r, [stored[r] EXCEPT !.missing = flag])

Healed(o) == [o EXCEPT !.inGit = FALSE, !.missing = FALSE]

\* Mutant: the record that has the path already is left where it is.
MutantHeal(o) ==
  Write(IF stored[o.id] = Nothing THEN stored
        ELSE [stored EXCEPT ![o.id] =
                [@ EXCEPT !.tree = o.tree, !.inGit = FALSE, !.missing = FALSE]])
\* updateRepositoryPath: a record that already has the path is dropped first.
Heal(o) ==
  LET others == {r \in Present(stored) \ {o.id} :
                   stored[r].tree = o.tree /\ ~stored[r].inGit}
      kept   == [r \in Repo |-> IF r \in others THEN Nothing ELSE stored[r]]
  IN Write(IF stored[o.id] = Nothing THEN kept
           ELSE [kept EXCEPT ![o.id] =
                   [@ EXCEPT !.tree = o.tree, !.inGit = FALSE,
                             !.missing = FALSE]])

-----------------------------------------------------------------------------
(* The workers.                                                            *)

\* Mutant: the pruner of the previous repository goes on.
MutantStopWorkers ==
  fetcher' = Nothing /\ updater' = Nothing /\ UNCHANGED pruner
StopWorkers == fetcher' = Nothing /\ updater' = Nothing /\ pruner' = Nothing

\* Mutant: a selection made in the background fetches nothing.
MutantStartWorkers(o) ==
  /\ fetcher' = IF o.gh /\ focused THEN o ELSE Nothing
  /\ updater' = IF o.gh /\ focused THEN o ELSE Nothing
  /\ pruner' = o
StartWorkers(o) ==
  /\ fetcher' = IF o.gh THEN o ELSE Nothing
  /\ updater' = IF o.gh /\ focused THEN o ELSE Nothing
  /\ pruner' = o

-----------------------------------------------------------------------------
(* _selectRepository.                                                      *)

\* Up to the first await: everything that belonged to the previous selection
\* stops.
BeginSelect(c, o) ==
  /\ pc[c] = "idle"
  /\ selected' = o /\ selectedBy' = c
  /\ StopWorkers
  /\ IF o = Nothing
       THEN UNCHANGED <<pc, target>>
       ELSE /\ pc' = [pc EXCEPT ![c] = "selecting"]
            /\ target' = [target EXCEPT ![c] = o]

Return(c) ==
  /\ pc' = [pc EXCEPT ![c] = "idle"]
  /\ target' = [target EXCEPT ![c] = Nothing]

ContinueSelect(c) ==
  /\ pc[c] = "selecting"
  /\ lastSelected' = target[c].id
  /\ pc' = [pc EXCEPT ![c] = IF target[c].missing THEN "recover" ELSE "tasks"]
  /\ UNCHANGED <<store, repositories, selected, selectedBy, target, refreshing,
                 workers, world>>

\* recoverMissingRepository: the returned object is a new one.
RecoverMissing(c) ==
  /\ pc[c] = "recover"
  /\ IF target[c].tree \in gone
       THEN Return(c) /\ UNCHANGED store
       ELSE /\ SetMissing(target[c].id, FALSE)
            /\ pc' = [pc EXCEPT ![c] = "tasks"]
            /\ target' = [target EXCEPT ![c] = [@ EXCEPT !.missing = FALSE]]
  /\ UNCHANGED <<repositories, selected, selectedBy, lastSelected, refreshing,
                 workers, world>>

\* The object is the very one that is selected, or one of equal content that
\* another call was given, which may or may not be the very one.
MaybeSelected(c)  == selected = target[c] /\ selectedBy \in Call
SurelySelected(c) == selected = target[c] /\ selectedBy = c

RunTasks(c) ==
  /\ pc[c] = "tasks"
  /\ refreshing' = refreshing \cup {[obj |-> target[c], at |-> "start"]}
  /\ \/ /\ MaybeSelected(c)
        /\ StartWorkers(target[c])
        /\ pc' = [pc EXCEPT ![c] = "associate"]
        /\ UNCHANGED target
     \/ /\ ~SurelySelected(c)
        /\ Return(c) /\ UNCHANGED workers
  /\ UNCHANGED <<store, repositories, selected, selectedBy, lastSelected, world>>

\* repositoryWithRefreshedGitHubRepository: the association may be new.
Associate(c) ==
  /\ pc[c] = "associate"
  /\ Return(c)
  /\ \/ UNCHANGED store
     \/ /\ ~target[c].gh
        /\ SetField(target[c].id, [stored[target[c].id] EXCEPT !.gh = TRUE])
  /\ UNCHANGED <<repositories, selected, selectedBy, lastSelected, refreshing,
                 workers, world>>

SelectStep(c) ==
  ContinueSelect(c) \/ RecoverMissing(c) \/ RunTasks(c) \/ Associate(c)

-----------------------------------------------------------------------------
(* The emission and the reselection it causes.                             *)

\* What should be selected once `records` is the list.
Choices(records) ==
  LET own  == IF selected = Nothing THEN Nothing ELSE records[selected.id]
      last == IF lastSelected = Nothing THEN Nothing ELSE records[lastSelected]
  IN IF own # Nothing THEN {own}
     ELSE IF last # Nothing THEN {last}
     ELSE IF Present(records) = {} THEN {Nothing}
     ELSE {records[r] : r \in Present(records)}

\* Mutant: the selection is kept when only its record changed.
MutantReselect(c, records) ==
  /\ \E o \in Choices(records) :
       \/ /\ (IF selected = Nothing THEN Nothing ELSE selected.id) #
             (IF o = Nothing THEN Nothing ELSE o.id)
          /\ BeginSelect(c, o)
       \/ /\ (IF selected = Nothing THEN Nothing ELSE selected.id) =
             (IF o = Nothing THEN Nothing ELSE o.id)
          /\ UNCHANGED <<selected, selectedBy, pc, target, workers>>
  /\ UNCHANGED <<lastSelected, refreshing>>
Reselect(c, records) ==
  /\ \E o \in Choices(records) :
       \/ o # selected /\ BeginSelect(c, o)
       \/ o = selected /\ UNCHANGED <<selected, selectedBy, pc, target, workers>>
  /\ UNCHANGED <<lastSelected, refreshing>>

Emit(c) ==
  /\ emitQueued /\ pc[c] = "idle"
  /\ emitQueued' = FALSE
  /\ repositories' = stored
  /\ Reselect(c, stored)
  /\ UNCHANGED <<stored, world>>

\* loadInitialState
Start(c) ==
  /\ selected = Nothing /\ selectedBy = Nothing
  /\ Reselect(c, repositories)
  /\ UNCHANGED <<store, repositories, world>>

-----------------------------------------------------------------------------
(* _refreshRepository.                                                     *)

\* The refresh x goes on as the refreshes in `rest`.
Becomes(x, rest) == refreshing' = (refreshing \ {x}) \cup rest

CheckExists(x) ==
  /\ x.at = "start"
  /\ \/ /\ x.obj.missing
        /\ Becomes(x, {}) /\ UNCHANGED store
     \/ /\ ~x.obj.missing /\ x.obj.tree \in gone
        /\ Becomes(x, {}) /\ SetMissing(x.obj.id, TRUE)
     \/ /\ ~x.obj.missing /\ x.obj.tree \notin gone
        /\ Becomes(x, {[x EXCEPT !.at = IF x.obj.inGit THEN "heal"
                                                       ELSE "status"]})
        /\ UNCHANGED store
  /\ UNCHANGED <<selected, selectedBy>>

\* adoptRefreshedSelectedRepository: no reselection.
Adopt(o) ==
  IF selected # Nothing /\ selected # o /\ selected.id = o.id
    THEN selected' = o /\ selectedBy' = Adopted
    ELSE UNCHANGED <<selected, selectedBy>>

\* Mutant: the record is corrected, and the refresh starts over with the
\* object it was given.
MutantHealPath(x) ==
  /\ x.at = "heal" /\ x.obj.tree \notin gone
  /\ Heal(x.obj)
  /\ Becomes(x, {[x EXCEPT !.at = "start"]})
  /\ UNCHANGED <<selected, selectedBy>>
\* healRepositoryPath, which needs the working tree on disk.
HealPath(x) ==
  /\ x.at = "heal" /\ x.obj.tree \notin gone
  /\ Heal(x.obj)
  /\ Becomes(x, {[obj |-> Healed(x.obj), at |-> "status"]})
  /\ Adopt(Healed(x.obj))

HealFails(x) ==
  /\ x.at = "heal" /\ x.obj.tree \in gone
  /\ Becomes(x, {[x EXCEPT !.at = "status"]})
  /\ UNCHANGED <<store, selected, selectedBy>>

LoadStatus(x) ==
  /\ x.at = "status"
  /\ Becomes(x, {})
  /\ IF x.obj.tree \in gone THEN SetMissing(x.obj.id, TRUE) ELSE UNCHANGED store
  /\ UNCHANGED <<selected, selectedBy>>

\* _refreshOrRecoverRepository of a missing repository.
RecoverThenRefresh(x) ==
  /\ x.at = "recover"
  /\ IF x.obj.tree \in gone
       THEN Becomes(x, {}) /\ UNCHANGED store
       ELSE /\ SetMissing(x.obj.id, FALSE)
            /\ Becomes(x, {[obj |-> [x.obj EXCEPT !.missing = FALSE],
                            at |-> "start"]})
  /\ UNCHANGED <<selected, selectedBy>>

\* healStoredRepositoryPaths, at startup: nothing is adopted.
SweepPath(x) ==
  /\ x.at = "sweep"
  /\ Becomes(x, {})
  /\ IF x.obj.tree \in gone THEN UNCHANGED store ELSE Heal(x.obj)
  /\ UNCHANGED <<selected, selectedBy>>

RefreshOne(x) ==
  /\ \/ CheckExists(x) \/ HealPath(x) \/ HealFails(x) \/ LoadStatus(x)
     \/ RecoverThenRefresh(x) \/ SweepPath(x)
  /\ UNCHANGED <<repositories, lastSelected, pc, target, workers, world>>

RefreshAny == \E x \in refreshing : RefreshOne(x)

-----------------------------------------------------------------------------
(* The user and the disk.                                                  *)

Move == moves < MaxMoves /\ moves' = moves + 1

UserSelects(c, r) ==
  /\ Move /\ selectedBy # Nothing
  /\ repositories[r] # Nothing
  /\ BeginSelect(c, repositories[r])
  /\ UNCHANGED <<store, repositories, lastSelected, refreshing, focused, gone>>

\* The window is focused, or the user asks for a refresh.
RefreshSelected ==
  /\ Move /\ selected # Nothing
  /\ refreshing' = refreshing \cup
       {[obj |-> selected, at |-> IF selected.missing THEN "recover"
                                                      ELSE "start"]}
  /\ UNCHANGED <<store, repositories, selected, selectedBy, lastSelected, pc,
                 target, workers, focused, gone>>

ChangeAlias(r) ==
  /\ Move /\ stored[r] # Nothing /\ stored[r].alias < MaxAlias
  /\ SetField(r, [stored[r] EXCEPT !.alias = @ + 1])
  /\ UNCHANGED <<repositories, selected, selectedBy, lastSelected, pc, target,
                 refreshing, workers, focused, gone>>

Remove(r) ==
  /\ Move /\ stored[r] # Nothing
  /\ Write([stored EXCEPT ![r] = Nothing])
  /\ UNCHANGED <<repositories, selected, selectedBy, lastSelected, pc, target,
                 refreshing, workers, focused, gone>>

DiskChanges(t) ==
  /\ Move
  /\ gone' = IF t \in gone THEN gone \ {t} ELSE gone \cup {t}
  /\ UNCHANGED <<store, repositories, selected, selectedBy, lastSelected, pc,
                 target, refreshing, workers, focused>>

\* _setAppFocusState
Focus ==
  /\ Move /\ ~focused /\ focused' = TRUE
  /\ updater' = IF selected # Nothing /\ selected.gh THEN selected
                ELSE IF selected # Nothing THEN Nothing ELSE updater
  /\ UNCHANGED <<store, repositories, selected, selectedBy, lastSelected, pc,
                 target, refreshing, fetcher, pruner, gone>>

Blur ==
  /\ Move /\ focused /\ focused' = FALSE
  /\ updater' = Nothing
  /\ UNCHANGED <<store, repositories, selected, selectedBy, lastSelected, pc,
                 target, refreshing, fetcher, pruner, gone>>

UserOrDisk ==
  \/ \E c \in Call, r \in Repo : UserSelects(c, r)
  \/ \E r \in Repo : ChangeAlias(r) \/ Remove(r)
  \/ \E t \in Tree : DiskChanges(t)
  \/ RefreshSelected \/ Focus \/ Blur

-----------------------------------------------------------------------------
Next ==
  \/ \E c \in Call : Start(c) \/ SelectStep(c) \/ Emit(c)
  \/ RefreshAny \/ UserOrDisk

\* Every asynchronous step of the app is eventually taken.
Fairness ==
  /\ WF_vars(\E c \in Call : Start(c))
  /\ WF_vars(\E c \in Call : Emit(c))
  /\ \A c \in Call : WF_vars(SelectStep(c))
  /\ WF_vars(RefreshAny)

Spec     == Init /\ [][Next]_vars
FairSpec == Spec /\ Fairness

-----------------------------------------------------------------------------
(* Properties.                                                             *)

TypeOK ==
  /\ stored \in [Repo -> Maybe(Object)]
  /\ repositories \in [Repo -> Maybe(Object)]
  /\ \A r \in Repo : /\ stored[r] # Nothing => stored[r].id = r
                     /\ repositories[r] # Nothing => repositories[r].id = r
  /\ emitQueued \in BOOLEAN
  /\ selected \in Maybe(Object)
  /\ selectedBy \in Call \cup {Nothing, Adopted}
  /\ lastSelected \in Maybe(Repo)
  /\ pc \in [Call -> {"idle", "selecting", "recover", "tasks", "associate"}]
  /\ target \in [Call -> Maybe(Object)]
  /\ \A c \in Call : pc[c] # "idle" => target[c] # Nothing
  /\ refreshing \subseteq [obj : Object, at : RefreshStep]
  /\ fetcher \in Maybe(Object) /\ updater \in Maybe(Object)
  /\ pruner \in Maybe(Object)
  /\ focused \in BOOLEAN
  /\ gone \subseteq Tree /\ moves \in 0 .. MaxMoves

\* Whatever selections, refreshes and emissions interleave, a worker only ever
\* works for the repository that is selected.
WorkersFollowSelection ==
  \A w \in {fetcher, updater, pruner} :
    w # Nothing => selected # Nothing /\ w.id = selected.id

\* The unique index on paths is never violated, healing included.
PathsAreUnique ==
  \A r, s \in Present(stored) :
    stored[r].tree = stored[s].tree /\ stored[r].inGit = stored[s].inGit
      => r = s

Quiet == /\ \A c \in Call : pc[c] = "idle"
         /\ refreshing = {} /\ ~emitQueued

\* The cascade of reselecting, refreshing and correcting records ends.
CascadeEnds == <>[]Quiet

\* In the end the selection is the current record of its repository, and
\* nothing is selected only when there is nothing to select.
SelectionSettles ==
  <>[](IF selected = Nothing THEN Present(stored) = {}
                             ELSE selected = stored[selected.id])

Served == /\ selected.gh => fetcher # Nothing
          /\ pruner # Nothing

\* In the end the selected repository, if it is on disk, is fetched and pruned.
WorkersRun ==
  <>[](selected # Nothing /\ ~selected.missing => Served)

\* The same for a repository that _selectRepository itself selected last, and
\* not a refresh that healed a path.
OwnSelectionIsServed ==
  <>[](selected # Nothing /\ ~selected.missing /\ selectedBy # Adopted
         => Served)
=============================================================================
