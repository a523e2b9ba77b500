--------------------------- MODULE Workers_proofs ---------------------------
(* Theorems about the background workers of the selected repository:        *)
(* BranchPruner, for any branches and any number of pruners at work at      *)
(* once; PullRequestUpdater, for any updaters and any two intervals; and    *)
(* BackgroundFetcher, for any fetchers.                                     *)
EXTENDS BranchPruner, PullRequestUpdater, BackgroundFetcher, TLAPS

-----------------------------------------------------------------------------
(* BranchPruner.                                                            *)

(* The variables keep their types; a pruner whose interval is set is out of *)
(* start(), and what is checked out exists.                                 *)
LEMMA InitTypes == Init => TypeOK
  BY ConstantsOK DEF Init, TypeOK, Running, Reads

(* The life of the pruners: selecting, ticking and returning.               *)
LEMMA LifeTypes ==
  ASSUME TypeOK, NEW p \in Pruner,
         Select(p) \/ Deselect \/ Tick(p) \/ NotOnGitHub(p) \/ Fail(p)
  PROVE  TypeOK'
<1>1. CASE Select(p)
  BY <1>1, ConstantsOK DEF TypeOK, Select, Stopped, git, Running, Reads
<1>2. CASE Deselect
  BY <1>2, ConstantsOK DEF TypeOK, Deselect, Stopped, git
<1>3. CASE Tick(p)
  BY <1>3 DEF TypeOK, Tick, git, Running, Reads
<1>4. CASE NotOnGitHub(p)
  BY <1>4 DEF TypeOK, NotOnGitHub, Return, End, git, Running, Reads
<1>5. CASE Throw(p)
  BY <1>5 DEF TypeOK, Throw, End, git, Running, Reads
<1>6. CASE NoDefaultBranch(p)
  BY <1>6 DEF TypeOK, NoDefaultBranch, Return, End, git, Running, Reads
<1>7. CASE ReadMergedFails(p)
  BY <1>7 DEF TypeOK, ReadMergedFails, Return, End, git, Running, Reads
<1> QED BY <1>1, <1>2, <1>3, <1>4, <1>5, <1>6, <1>7 DEF Fail

LEMMA PruneTypes ==
  ASSUME TypeOK, NEW p \in Pruner, Prune(p)
  PROVE  TypeOK'
<1> USE DEF TypeOK, git, Running, Reads
<1>1. CASE CheckDate(p) BY <1>1 DEF CheckDate, Return, End, Proceed
<1>2. CASE UpdateDate(p) BY <1>2 DEF UpdateDate, Proceed
<1>3. CASE ReadMerged(p) BY <1>3 DEF ReadMerged, Proceed
<1>4. CASE ReadHead(p) BY <1>4 DEF ReadHead, Spare, Proceed
<1>5. CASE ReadReflog(p) BY <1>5 DEF ReadReflog, Spare, Proceed
<1>6. CASE ReadRemotes(p) BY <1>6 DEF ReadRemotes, Spare, Proceed
<1>7. CASE ReadWorktrees(p) BY <1>7 DEF ReadWorktrees, Spare, Proceed
<1>8. CASE DeleteOne(p)
  <2>1. PICK b \in doomed[p] :
          /\ doomed' = [doomed EXCEPT ![p] = @ \ {b}]
          /\ local' = IF b \in {head} \cup linked THEN local ELSE local \ {b}
    BY <1>8 DEF DeleteOne
  <2> QED BY <1>8, <2>1 DEF DeleteOne
<1>9. CASE Finish(p) BY <1>9 DEF Finish, Return, End
<1>10. CASE NotOnGitHub(p) BY <1>10, LifeTypes
<1> QED BY <1>1, <1>2, <1>3, <1>4, <1>5, <1>6, <1>7, <1>8, <1>9, <1>10
        DEF Prune

LEMMA EnvironmentTypes ==
  ASSUME TypeOK, Environment
  PROVE  TypeOK'
<1> USE DEF TypeOK, worker
<1>1. CASE Commit BY <1>1 DEF Commit
<1>2. CASE DayPasses BY <1>2 DEF DayPasses, git
<1>3. CASE FortnightPasses BY <1>3 DEF FortnightPasses
<1>4. ASSUME NEW b \in Branch \cup {Trunk}, Checkout(b) PROVE TypeOK'
  BY <1>4 DEF Checkout
<1>5. ASSUME NEW b \in Branch, AddWorktree(b) PROVE TypeOK'
  BY <1>5 DEF AddWorktree
<1>6. ASSUME NEW b \in Branch, RemoveWorktree(b) PROVE TypeOK'
  BY <1>6 DEF RemoveWorktree
<1>7. ASSUME NEW b \in Branch, Merge(b) PROVE TypeOK'
  BY <1>7 DEF Merge
<1>8. ASSUME NEW b \in Branch, UpstreamGoes(b) PROVE TypeOK'
  BY <1>8 DEF UpstreamGoes
<1> QED BY <1>1, <1>2, <1>3, <1>4, <1>5, <1>6, <1>7, <1>8 DEF Environment

(* The variables of the pruners and of git keep their types, and no pruner   *)
(* has its interval before start() is over.                                 *)
THEOREM PrunerTypesCorrect == Spec => []TypeOK
<1>1. Init => TypeOK BY InitTypes
<1>2. TypeOK /\ [Next]_vars => TypeOK'
  <2> SUFFICES ASSUME TypeOK, [Next]_vars PROVE TypeOK' OBVIOUS
  <2>1. CASE UNCHANGED vars BY <2>1 DEF TypeOK, vars, worker, git
  <2>2. ASSUME NEW p \in Pruner, Select(p) \/ Tick(p) \/ Fail(p) PROVE TypeOK'
    BY <2>2, LifeTypes
  <2>3. ASSUME NEW p \in Pruner, Prune(p) PROVE TypeOK' BY <2>3, PruneTypes
  <2>4. CASE Deselect
    BY <2>4, ConstantsOK DEF TypeOK, Deselect, Stopped, git
  <2>5. CASE Environment BY <2>5, EnvironmentTypes
  <2> QED BY <2>1, <2>2, <2>3, <2>4, <2>5 DEF Next
<1> QED BY <1>1, <1>2, PTL DEF Spec

-----------------------------------------------------------------------------
(* What a prune has read stays true until it deletes, when the user waits:  *)
(* commits land in the default branch and upstreams go, never the reverse,  *)
(* and only the user commits and checks out.                                *)
StillSpent(p) ==
  /\ pc[p] \in Reads \cup {"delete"} => doomed[p] \subseteq merged
  /\ pc[p] \in {"remotes", "worktrees", "delete"}
       => doomed[p] \cap visited = {}
  /\ pc[p] \in {"worktrees", "delete"}
       => doomed[p] \subseteq tracking \ remote
ReadsHold == \A p \in Pruner : StillSpent(p)

LEMMA InitHolds == Init => ReadsHold
  BY DEF Init, ReadsHold, StillSpent, Reads

(* A step that moves one pruner only disturbs what that pruner has read.    *)
LEMMA OneMoves ==
  ASSUME ReadsHold, NEW p \in Pruner,
         UNCHANGED <<merged, visited, tracking, remote>>,
         \A q \in Pruner \ {p} : pc'[q] = pc[q] /\ doomed'[q] = doomed[q],
         StillSpent(p)'
  PROVE  ReadsHold'
  BY DEF ReadsHold, StillSpent

LEMMA PruneHolds ==
  ASSUME TypeOK, ReadsHold, NEW p \in Pruner, Prune(p)
  PROVE  ReadsHold'
<1>1. /\ UNCHANGED <<merged, visited, tracking, remote>>
      /\ \A q \in Pruner \ {p} : pc'[q] = pc[q] /\ doomed'[q] = doomed[q]
  <2> USE DEF TypeOK, git
  <2>1. CASE CheckDate(p) BY <2>1 DEF CheckDate, Return, End, Proceed
  <2>2. CASE UpdateDate(p) \/ ReadMerged(p)
    BY <2>2 DEF UpdateDate, ReadMerged, Proceed
  <2>3. CASE ReadHead(p) \/ ReadReflog(p) \/ ReadRemotes(p) \/ ReadWorktrees(p)
    BY <2>3 DEF ReadHead, ReadReflog, ReadRemotes, ReadWorktrees, Spare, Proceed
  <2>4. CASE DeleteOne(p) BY <2>4 DEF DeleteOne
  <2>5. CASE Finish(p) \/ NotOnGitHub(p)
    BY <2>5 DEF Finish, NotOnGitHub, Return, End
  <2> QED BY <2>1, <2>2, <2>3, <2>4, <2>5 DEF Prune
<1>2. StillSpent(p)'
  <2>0. StillSpent(p) BY DEF ReadsHold
  <2> USE <2>0 DEF TypeOK, git, StillSpent, Reads
  <2>1. CASE CheckDate(p) BY <2>1 DEF CheckDate, Return, End, Proceed
  <2>2. CASE UpdateDate(p) BY <2>2 DEF UpdateDate, Proceed
  <2>3. CASE ReadMerged(p) BY <2>3 DEF ReadMerged, Proceed
  <2>4. CASE ReadHead(p) BY <2>4 DEF ReadHead, Spare, Proceed
  <2>5. CASE ReadReflog(p) BY <2>5 DEF ReadReflog, Spare, Proceed
  <2>6. CASE ReadRemotes(p) BY <2>6 DEF ReadRemotes, Spare, Proceed
  <2>7. CASE ReadWorktrees(p) BY <2>7 DEF ReadWorktrees, Spare, Proceed
  <2>8. CASE DeleteOne(p) BY <2>8 DEF DeleteOne
  <2>9. CASE Finish(p) BY <2>9 DEF Finish, Return, End
  <2>10. CASE NotOnGitHub(p) BY <2>10 DEF NotOnGitHub, Return, End
  <2> QED BY <2>1, <2>2, <2>3, <2>4, <2>5, <2>6, <2>7, <2>8, <2>9, <2>10
          DEF Prune
<1> QED BY <1>1, <1>2, OneMoves

LEMMA LifeHolds ==
  ASSUME TypeOK, ReadsHold, NEW p \in Pruner,
         Select(p) \/ Tick(p) \/ Fail(p)
  PROVE  ReadsHold'
<1>1. /\ UNCHANGED <<merged, visited, tracking, remote>>
      /\ \A q \in Pruner \ {p} : pc'[q] = pc[q] /\ doomed'[q] = doomed[q]
      /\ pc'[p] \in {"date", "started", "idle"}
  <2> USE DEF TypeOK, git
  <2>1. CASE Select(p) BY <2>1 DEF Select
  <2>2. CASE Tick(p) BY <2>2 DEF Tick
  <2>3. CASE Throw(p) BY <2>3 DEF Throw, End
  <2>4. CASE NoDefaultBranch(p) BY <2>4 DEF NoDefaultBranch, Return, End
  <2>5. CASE ReadMergedFails(p) BY <2>5 DEF ReadMergedFails, Return, End
  <2> QED BY <2>1, <2>2, <2>3, <2>4, <2>5 DEF Fail
<1>2. StillSpent(p)' BY <1>1 DEF StillSpent, Reads
<1> QED BY <1>1, <1>2, OneMoves

LEMMA EnvironmentHolds ==
  ASSUME UserWaits, TypeOK, ReadsHold, Environment
  PROVE  ReadsHold'
<1> USE DEF ReadsHold, StillSpent, Reads, worker
<1>1. CASE Commit
  BY <1>1 DEF Commit, UserMay, Running
<1>2. CASE DayPasses BY <1>2 DEF DayPasses, git
<1>3. CASE FortnightPasses BY <1>3 DEF FortnightPasses
<1>4. ASSUME NEW b \in Branch \cup {Trunk}, Checkout(b) PROVE ReadsHold'
  BY <1>4 DEF Checkout, UserMay, Running
<1>5. ASSUME NEW b \in Branch, AddWorktree(b) \/ RemoveWorktree(b)
      PROVE  ReadsHold'
  BY <1>5 DEF AddWorktree, RemoveWorktree
<1>6. ASSUME NEW b \in Branch, Merge(b) PROVE ReadsHold'
  BY <1>6 DEF Merge
<1>7. ASSUME NEW b \in Branch, UpstreamGoes(b) PROVE ReadsHold'
  BY <1>7 DEF UpstreamGoes
<1> QED BY <1>1, <1>2, <1>3, <1>4, <1>5, <1>6, <1>7 DEF Environment

(* However many prunes overlap, of pruners current or stopped, a branch is  *)
(* only deleted when its commits are in the default branch, its upstream is *)
(* gone and two weeks have passed since it was checked out, provided that   *)
(* the user leaves git alone while a prune runs.                            *)
THEOREM OnlySpentBranchesGo ==
  ASSUME UserWaits
  PROVE  Spec => DeletesOnlySpentBranches
<1>1. Init => ReadsHold BY InitHolds
<1>2. TypeOK /\ ReadsHold /\ [Next]_vars => ReadsHold'
  <2> SUFFICES ASSUME TypeOK, ReadsHold, [Next]_vars PROVE ReadsHold' OBVIOUS
  <2>1. CASE UNCHANGED vars
    BY <2>1 DEF ReadsHold, StillSpent, vars, worker, git
  <2>2. ASSUME NEW p \in Pruner, Select(p) \/ Tick(p) \/ Fail(p)
        PROVE  ReadsHold'
    BY <2>2, LifeHolds
  <2>3. ASSUME NEW p \in Pruner, Prune(p) PROVE ReadsHold' BY <2>3, PruneHolds
  <2>4. CASE Deselect
    BY <2>4 DEF Deselect, git, ReadsHold, StillSpent
  <2>5. CASE Environment BY <2>5, EnvironmentHolds
  <2> QED BY <2>1, <2>2, <2>3, <2>4, <2>5 DEF Next
<1>3. TypeOK /\ ReadsHold /\ [Next]_vars
        => [\A b \in local \ local' :
              b \in merged /\ b \in tracking \ remote /\ b \notin visited]_vars
  <2> SUFFICES ASSUME TypeOK, ReadsHold, Next, NEW b \in local \ local'
               PROVE  b \in merged /\ b \in tracking \ remote /\ b \notin visited
    OBVIOUS
  <2>1. PICK p \in Pruner : DeleteOne(p)
    <3>1. \A p \in Pruner : Select(p) \/ Tick(p) \/ Fail(p) => local' = local
      BY DEF Select, Tick, Fail, Throw, NoDefaultBranch, ReadMergedFails, git
    <3>2. \A p \in Pruner : Prune(p) => DeleteOne(p) \/ local' = local
      BY DEF Prune, CheckDate, UpdateDate, ReadMerged, ReadHead, ReadReflog,
             ReadRemotes, ReadWorktrees, Finish, NotOnGitHub, Spare, Proceed,
             git
    <3>3. Deselect \/ Environment => local' = local
      BY DEF Deselect, Environment, Commit, DayPasses, FortnightPasses,
             Checkout, AddWorktree, RemoveWorktree, Merge, UpstreamGoes, git
    <3> QED BY <3>1, <3>2, <3>3 DEF Next
  <2>2. b \in doomed[p] /\ pc[p] = "delete" BY <2>1 DEF DeleteOne
  <2> QED BY <2>2 DEF ReadsHold, StillSpent
<1>4. Spec => []TypeOK BY PrunerTypesCorrect
<1> QED BY <1>1, <1>2, <1>3, <1>4, PTL DEF Spec, DeletesOnlySpentBranches

-----------------------------------------------------------------------------
(* PullRequestUpdater.                                                      *)

TimersOf == [Due -> 0 .. MaxTimers]

LEMMA CountType ==
  ASSUME UpdaterConstants, NEW n \in Nat PROVE Count(n) \in 0 .. MaxTimers
BY DEF UpdaterConstants, Count

LEMMA DueInType ==
  ASSUME UpdaterConstants, UpdaterTypeOK
  PROVE  0 \in Due /\ DueIn(Often) \in Due /\ DueIn(Interval) \in Due
BY DEF UpdaterConstants, UpdaterTypeOK, Due, DueIn

LEMMA AddType ==
  ASSUME UpdaterConstants, NEW ts \in TimersOf, NEW d \in Due, NEW n \in Nat
  PROVE  Add(ts, d, n) \in TimersOf
<1>1. ts[d] + n \in Nat BY DEF TimersOf, UpdaterConstants
<1>2. Count(ts[d] + n) \in 0 .. MaxTimers BY <1>1, CountType
<1> QED BY <1>2 DEF Add, TimersOf

LEMMA DropType ==
  ASSUME NEW ts \in TimersOf, NEW d \in Due \cup {Null}, MaxTimers \in Nat
  PROVE  Drop(ts, d) \in TimersOf
BY DEF Drop, TimersOf

LEMMA ClearedType ==
  ASSUME UpdaterConstants, UpdaterTypeOK
  PROVE  Cleared \in [Updater -> TimersOf]
<1>1. CASE updater = Null BY <1>1 DEF Cleared, UpdaterTypeOK, TimersOf
<1>2. CASE updater # Null
  <2>1. updater \in Updater BY <1>2 DEF UpdaterTypeOK
  <2>2. Drop(timers[updater], handle[updater]) \in TimersOf
    BY <2>1, DropType DEF UpdaterTypeOK, UpdaterConstants, TimersOf
  <2> QED BY <1>2, <2>2 DEF Cleared, UpdaterTypeOK, TimersOf
<1> QED BY <1>1, <1>2

LEMMA InitUpdaterTypes ==
  ASSUME UpdaterConstants, UpdaterInit PROVE UpdaterTypeOK
<1>1. 0 \in 0 .. MaxTimers /\ 0 \in Due /\ Interval \in Due
  BY DEF UpdaterConstants, Due
<1>2. running = {updater} \ {Null} BY DEF UpdaterInit
<1> QED BY <1>1, <1>2 DEF UpdaterInit, UpdaterTypeOK, NoTimers

LEMMA FireTypes ==
  ASSUME UpdaterConstants, UpdaterTypeOK, NEW u \in Updater, Fire(u)
  PROVE  UpdaterTypeOK'
<1>1. timers[u] \in TimersOf BY DEF UpdaterTypeOK, TimersOf
<1>2. Drop(timers[u], 0) \in TimersOf
  BY <1>1, DropType, DueInType DEF UpdaterConstants
<1>3. Add(Drop(timers[u], 0), DueIn(Interval), 1) \in TimersOf
  BY <1>2, AddType, DueInType
<1>4. timers' \in [Updater -> TimersOf]
  BY <1>2, <1>3 DEF Fire, UpdaterTypeOK, TimersOf
<1>5. handle' \in [Updater -> Due \cup {Null}]
  BY DueInType DEF Fire, UpdaterTypeOK
<1>6. Count(waiting[u] + 1) \in 0 .. MaxTimers
  <2>1. waiting[u] + 1 \in Nat BY DEF UpdaterTypeOK
  <2> QED BY <2>1, CountType
<1>7. age' \in Due BY DueInType DEF Fire, UpdaterTypeOK
<1> QED BY <1>4, <1>5, <1>6, <1>7 DEF Fire, UpdaterTypeOK, TimersOf

LEMMA PassTimeTypes ==
  ASSUME UpdaterConstants, UpdaterTypeOK, PassTime PROVE UpdaterTypeOK'
<1>1. age' \in Due
  BY DEF PassTime, UpdaterTypeOK, UpdaterConstants, Due
<1>2. timers' \in [Updater -> TimersOf]
  <2> SUFFICES ASSUME NEW u \in Updater, NEW d \in Due
               PROVE  timers'[u][d] \in 0 .. MaxTimers
    BY DEF PassTime, TimersOf
  <2>1. CASE d = 0 /\ Interval > 0
    <3>1. 0 \in Due /\ 1 \in Due BY <2>1 DEF Due, UpdaterConstants
    <3>2. timers[u][0] \in Nat /\ timers[u][1] \in Nat
      BY <3>1 DEF UpdaterTypeOK
    <3>3. Count(timers[u][0] + timers[u][1]) \in 0 .. MaxTimers
      BY <3>2, CountType
    <3> QED BY <2>1, <3>3 DEF PassTime
  <2>2. CASE ~(d = 0 /\ Interval > 0) /\ d < Interval
    <3>1. d + 1 \in Due BY <2>2 DEF Due, UpdaterConstants
    <3>2. timers[u][d + 1] \in 0 .. MaxTimers BY <3>1 DEF UpdaterTypeOK
    <3> QED BY <2>2, <3>2 DEF PassTime
  <2>3. CASE ~(d = 0 /\ Interval > 0) /\ ~(d < Interval)
    <3>1. timers'[u][d] = 0 BY <2>3 DEF PassTime
    <3> QED BY <3>1 DEF UpdaterConstants
  <2> QED BY <2>1, <2>2, <2>3
<1>3. handle' \in [Updater -> Due \cup {Null}]
  BY DEF PassTime, UpdaterTypeOK, UpdaterConstants, Sooner, Due
<1> QED BY <1>1, <1>2, <1>3 DEF PassTime, UpdaterTypeOK, TimersOf

LEMMA StepUpdaterTypes ==
  ASSUME UpdaterConstants, UpdaterTypeOK, [UpdaterNext]_puVars
  PROVE  UpdaterTypeOK'
<1>1. ASSUME NEW u \in Updater, Start(u) PROVE UpdaterTypeOK'
  <2>1. Add(Cleared[u], DueIn(Often), 1) \in TimersOf
    BY ClearedType, AddType, DueInType
  <2>2. timers' \in [Updater -> TimersOf]
    BY <1>1, <2>1, ClearedType DEF Start
  <2>3. updater' = u /\ running' = {u} /\ u # Null
    BY <1>1 DEF Start, WithoutLast, UpdaterTypeOK, UpdaterConstants
  <2> QED
    BY <1>1, <2>2, <2>3, DueInType DEF Start, UpdaterTypeOK, TimersOf
<1>2. CASE Stop
  BY <1>2, ClearedType DEF Stop, WithoutLast, UpdaterTypeOK, TimersOf
<1>3. ASSUME NEW u \in Updater, FireStopped(u) PROVE UpdaterTypeOK'
  <2>1. Drop(timers[u], 0) \in TimersOf
    BY DropType, DueInType DEF UpdaterTypeOK, TimersOf, UpdaterConstants
  <2> QED BY <1>3, <2>1 DEF FireStopped, UpdaterTypeOK, TimersOf
<1>4. ASSUME NEW u \in Updater, Fire(u) PROVE UpdaterTypeOK'
  BY <1>4, FireTypes
<1>5. CASE UserRefreshes
  BY <1>5, DueInType DEF UserRefreshes, UpdaterTypeOK
<1>6. CASE EndRefresh
  <2>1. \A u \in Updater :
          Add(timers[u], DueIn(Interval), waiting[u]) \in TimersOf
    BY AddType, DueInType DEF UpdaterTypeOK, TimersOf
  <2>2. timers' \in [Updater -> TimersOf]
    BY <1>6, <2>1 DEF EndRefresh, UpdaterTypeOK, TimersOf
  <2>3. handle' \in [Updater -> Due \cup {Null}]
    BY <1>6, DueInType DEF EndRefresh, UpdaterTypeOK
  <2>4. waiting' \in [Updater -> 0 .. MaxTimers]
    BY <1>6 DEF EndRefresh, UpdaterConstants
  <2> QED
    BY <1>6, <2>2, <2>3, <2>4 DEF EndRefresh, UpdaterTypeOK, TimersOf
<1>7. CASE PassTime BY <1>7, PassTimeTypes
<1>8. CASE UNCHANGED puVars BY <1>8 DEF puVars, UpdaterTypeOK
<1> QED BY <1>1, <1>2, <1>3, <1>4, <1>5, <1>6, <1>7, <1>8 DEF UpdaterNext

\* The timers and handles keep their types, and the updater that runs is the
\* one the app store holds.
THEOREM UpdaterTypesCorrect ==
  ASSUME UpdaterConstants PROVE UpdaterSpec => []UpdaterTypeOK
<1>1. UpdaterInit => UpdaterTypeOK BY InitUpdaterTypes
<1>2. UpdaterTypeOK /\ [UpdaterNext]_puVars => UpdaterTypeOK'
  BY StepUpdaterTypes
<1> QED BY <1>1, <1>2, PTL DEF UpdaterSpec

\* However the starts, stops, ticks and answers interleave, and however many
\* timers of stopped updaters are still to fire, only the current updater asks
\* for a refresh.
THEOREM OnlyCurrentAsks ==
  ASSUME UpdaterConstants PROVE UpdaterSpec => StoppedIsSilent
<1>1. UpdaterTypeOK /\ [UpdaterNext]_puVars
        => [\A u \in Updater : waiting'[u] > waiting[u] => u = updater]_puVars
  <2> SUFFICES ASSUME UpdaterTypeOK, UpdaterNext, NEW u \in Updater,
                      waiting'[u] > waiting[u]
               PROVE  u = updater
    OBVIOUS
  <2>1. waiting[u] \in Nat BY DEF UpdaterTypeOK
  <2>2. waiting' # waiting BY <2>1
  <2>3. ~EndRefresh BY <2>1 DEF EndRefresh
  <2>4. PICK v \in Updater : Fire(v)
    BY <2>2, <2>3 DEF UpdaterNext, Start, Stop, FireStopped, UserRefreshes,
       PassTime
  <2>5. v = updater BY <2>4 DEF Fire, UpdaterTypeOK
  <2>6. CASE u # v
    <3>1. waiting'[u] = waiting[u] BY <2>4, <2>6 DEF Fire, UpdaterTypeOK
    <3> QED BY <2>1, <3>1
  <2> QED BY <2>5, <2>6
<1> QED BY <1>1, UpdaterTypesCorrect, PTL DEF UpdaterSpec, StoppedIsSilent

-----------------------------------------------------------------------------
(* BackgroundFetcher.                                                       *)

\* Only the current fetcher has its flag down.
OneRuns == \A f \in Fetcher : f \notin stopped => f = fetcher

LEMMA StepFetcherTypes ==
  ASSUME FetcherConstants, FetcherTypeOK, OneRuns, [FetcherNext]_fetchVars
  PROVE  FetcherTypeOK' /\ OneRuns'
<1>1. TimerCleared \in [Fetcher -> Chain]
  BY DEF TimerCleared, FetcherTypeOK, Chain
<1>2. ASSUME NEW f \in Fetcher, StartFetching(f)
      PROVE  FetcherTypeOK' /\ OneRuns'
  <2>1. chain' \in [Fetcher -> Chain]
    BY <1>1, <1>2 DEF StartFetching, Chain
  <2>2. fetcher' = f /\ stopped' \subseteq Fetcher
    BY <1>2 DEF StartFetching, Stops, FetcherTypeOK
  <2>3. OneRuns' BY <1>2 DEF StartFetching, Stops, OneRuns, FetcherConstants
  <2> QED BY <1>2, <2>1, <2>2, <2>3 DEF StartFetching, FetcherTypeOK
<1>3. CASE StopFetching
  BY <1>1, <1>3 DEF StopFetching, Stops, FetcherTypeOK, OneRuns,
     FetcherConstants
<1>4. ASSUME NEW f \in Fetcher, Own(f) PROVE FetcherTypeOK' /\ OneRuns'
  <2>1. UNCHANGED <<fetcher, stopped>>
    BY <1>4 DEF Own, TimerFires, ReadFetchHead, BeginFetch, SkipFetch,
       EndFetch, Schedule
  <2>2. chain' \in [Fetcher -> Chain]
    BY <1>4 DEF Own, TimerFires, ReadFetchHead, BeginFetch, SkipFetch,
       EndFetch, Schedule, Goes, FetcherTypeOK, Chain
  <2>3. /\ due' \in [Fetcher -> BOOLEAN] /\ young' \in BOOLEAN
        /\ fetching' \in Fetcher \cup {User, NoFetcher}
    BY <1>4 DEF Own, TimerFires, ReadFetchHead, BeginFetch, SkipFetch,
       EndFetch, Schedule, FetcherTypeOK
  <2> QED BY <2>1, <2>2, <2>3 DEF FetcherTypeOK, OneRuns
<1>5. CASE UserFetches \/ UserFetched \/ FetchHeadAges
  BY <1>5 DEF UserFetches, UserFetched, FetchHeadAges, FetcherTypeOK, OneRuns
<1>6. CASE UNCHANGED fetchVars
  BY <1>6 DEF fetchVars, FetcherTypeOK, OneRuns
<1> QED BY <1>2, <1>3, <1>4, <1>5, <1>6 DEF FetcherNext

LEMMA AlwaysOneRuns ==
  ASSUME FetcherConstants
  PROVE  FetcherSpec => [](FetcherTypeOK /\ OneRuns)
<1>1. FetcherInit => FetcherTypeOK /\ OneRuns
  BY DEF FetcherInit, FetcherTypeOK, OneRuns, Chain
<1>2. FetcherTypeOK /\ OneRuns /\ [FetcherNext]_fetchVars
        => (FetcherTypeOK /\ OneRuns)'
  BY StepFetcherTypes
<1> QED BY <1>1, <1>2, PTL DEF FetcherSpec

\* The variables of the fetchers keep their types.
THEOREM FetcherTypesCorrect ==
  ASSUME FetcherConstants PROVE FetcherSpec => []FetcherTypeOK
BY AlwaysOneRuns, PTL

\* Whatever a fetcher was waiting for when the repository was selected again,
\* it begins no fetch any more: at most one background fetcher fetches a
\* repository.
THEOREM OnlyCurrentBegins ==
  ASSUME FetcherConstants PROVE FetcherSpec => OnlyCurrentFetches
<1>1. FetcherTypeOK /\ OneRuns /\ [FetcherNext]_fetchVars
        => [\A f \in Fetcher :
              fetching' = f /\ fetching # f => f = fetcher]_fetchVars
  <2> SUFFICES ASSUME OneRuns, FetcherNext, NEW f \in Fetcher,
                      fetching' = f, fetching # f
               PROVE  f = fetcher
    OBVIOUS
  <2>1. PICK g \in Fetcher : Own(g)
    BY DEF FetcherNext, FetcherConstants, StartFetching, StopFetching,
       UserFetches, UserFetched, FetchHeadAges
  <2>2. BeginFetch(g)
    BY <2>1 DEF Own, FetcherConstants, TimerFires, ReadFetchHead, SkipFetch,
       EndFetch, Schedule
  <2> QED BY <2>2 DEF BeginFetch, MayFetch, OneRuns
<1> QED BY <1>1, AlwaysOneRuns, PTL DEF FetcherSpec, OnlyCurrentFetches
=============================================================================
