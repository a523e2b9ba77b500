---------------------------- MODULE BranchPruner ----------------------------
(***************************************************************************)
(* The branch pruner: a background worker of the selected repository that  *)
(* deletes local branches merged into the default branch whose upstream is *)
(* gone.  Selecting a repository makes a new pruner; start() awaits a      *)
(* first prune and only then sets the interval, so stop() has nothing to   *)
(* clear before that.  A prune reads git five times, each read an await,   *)
(* and then deletes the branches one `git branch -D` at a time: what was   *)
(* read is what git was at some earlier moment.                            *)
(*                                                                         *)
(* One repository; deselected and selected again, it gets another pruner,  *)
(* while a prune of an earlier one may still be running.  Which branches   *)
(* track an upstream does not change, and no new branch is made.  A prune  *)
(* takes less than the four hours to the next tick.                        *)
(***************************************************************************)
CONSTANTS Branch,    \* local branches that are not reserved
          Trunk,     \* the default branch, which is
          Pruner,    \* BranchPruner objects, one for each selection
          None,
          UserWaits  \* the user leaves git alone while a prune runs

ASSUME ConstantsOK ==
  /\ Trunk \notin Branch /\ None \notin Pruner
  /\ UserWaits \in BOOLEAN

\* What a pruner is suspended at.
Reads   == {"head", "reflog", "remotes", "worktrees"}
Running == Reads \cup {"date", "update", "merged", "delete"}

VARIABLES
  onGitHub,  \* the repository has a GitHub repository: never changes
  current,   \* currentBranchPruner
  pc, timer, \* of each pruner; the timer is its interval
  starting,  \* pruners still in start()
  doomed,    \* of each pruner: the branches no read has spared yet
  recent,    \* lastPruneDate is less than 24 hours ago
  fine,      \* the prune that ended last did not fail: a history variable
  local, head, linked, \* branches; checked out here, and in other worktrees
  merged,    \* branches with no commit that the default branch has not
  tracking,  \* branches with an upstream in their configuration
  remote,    \* those whose upstream still exists
  visited    \* branches checked out in the last two weeks, says the reflog

worker == <<current, pc, timer, starting, doomed, recent, fine>>
git    == <<onGitHub, local, head, linked, merged, tracking, remote, visited>>
vars   == <<worker, git>>

Init ==
  /\ onGitHub \in BOOLEAN
  /\ current = None
  /\ pc = [p \in Pruner |-> "new"]
  /\ timer = [p \in Pruner |-> FALSE]
  /\ starting = {}
  /\ doomed = [p \in Pruner |-> {}]
  /\ recent = FALSE /\ fine = TRUE
  /\ local = Branch /\ head \in Branch \cup {Trunk} /\ linked = {}
  /\ merged \in SUBSET Branch /\ tracking \in SUBSET Branch
  /\ remote = tracking /\ visited \in SUBSET Branch

-----------------------------------------------------------------------------
(* The life of a pruner.                                                   *)

\* stop(): clears the interval, if there is one by now.
Stopped == [p \in Pruner |-> IF p = current THEN FALSE ELSE timer[p]]

Select(p) ==
  /\ pc[p] = "new"
  /\ current' = p
  /\ timer' = Stopped
  /\ starting' = starting \cup {p}
  /\ pc' = [pc EXCEPT ![p] = IF onGitHub THEN "date" ELSE "started"]
  /\ UNCHANGED <<doomed, recent, fine, git>>

Deselect ==
  /\ current # None
  /\ current' = None
  /\ timer' = Stopped
  /\ UNCHANGED <<pc, starting, doomed, recent, fine, git>>

Tick(p) ==
  /\ timer[p] /\ pc[p] = "idle" /\ onGitHub
  /\ pc' = [pc EXCEPT ![p] = "date"]
  /\ UNCHANGED <<current, timer, starting, doomed, recent, fine, git>>

\* A prune ends at an early return, at an error, or at its end.
End(p, well) ==
  /\ pc' = [pc EXCEPT ![p] = "idle"]
  /\ starting' = starting \ {p}
  /\ doomed' = [doomed EXCEPT ![p] = {}]
  /\ fine' = well

\* The first prune returns to start(), which sets the interval.
Return(p, well) ==
  /\ End(p, well)
  /\ timer' = [timer EXCEPT ![p] = @ \/ p \in starting]

NotOnGitHub(p) ==
  /\ pc[p] = "started"
  /\ Return(p, TRUE)
  /\ UNCHANGED <<current, recent, git>>

\* A prune throws, and with the first one so does start().
Throw(p) ==
  /\ pc[p] \in Reads \cup {"date", "update"}
  /\ End(p, FALSE)
  /\ UNCHANGED <<current, timer, recent, git>>

-----------------------------------------------------------------------------
(* pruneLocalBranches.                                                     *)

Proceed(p, label) ==
  /\ pc' = [pc EXCEPT ![p] = label]
  /\ UNCHANGED <<current, timer, starting, fine, git>>

\* A read is over, and spares every branch that is not in `keep`.
Spare(p, keep, label) ==
  /\ doomed' = [doomed EXCEPT ![p] = @ \cap keep]
  /\ Proceed(p, label)
  /\ UNCHANGED recent

\* Mutant: the threshold is compared the wrong way round.
MutantCheckDate(p) ==
  /\ pc[p] = "date"
  /\ IF ~recent THEN Return(p, TRUE) /\ UNCHANGED <<current, git>>
                ELSE Proceed(p, "update") /\ UNCHANGED doomed
  /\ UNCHANGED recent
CheckDate(p) ==
  /\ pc[p] = "date"
  /\ IF recent THEN Return(p, TRUE) /\ UNCHANGED <<current, git>>
               ELSE Proceed(p, "update") /\ UNCHANGED doomed
  /\ UNCHANGED recent

\* "Update the last prune date first thing after we check it!"
UpdateDate(p) ==
  /\ pc[p] = "update"
  /\ recent' = TRUE
  /\ Proceed(p, "merged")
  /\ UNCHANGED doomed

\* The default branch is not known yet, so nothing is pruned today.
NoDefaultBranch(p) ==
  /\ pc[p] = "update"
  /\ recent' = TRUE
  /\ Return(p, FALSE)
  /\ UNCHANGED <<current, git>>

ReadMerged(p) ==
  /\ pc[p] = "merged"
  /\ doomed' = [doomed EXCEPT ![p] = merged \cap local]
  /\ Proceed(p, "head")
  /\ UNCHANGED recent

\* performFailableOperation reports the failure; nothing is merged.
ReadMergedFails(p) ==
  /\ pc[p] = "merged"
  /\ Return(p, FALSE)
  /\ UNCHANGED <<current, recent, git>>

ReadHead(p) ==
  pc[p] = "head" /\ Spare(p, Branch \ {head}, "reflog")

\* Mutant: recent checkouts are read, and not used.
MutantReadReflog(p) ==
  pc[p] = "reflog" /\ Spare(p, Branch, "remotes")
ReadReflog(p) ==
  pc[p] = "reflog" /\ Spare(p, Branch \ visited, "remotes")

ReadRemotes(p) ==
  pc[p] = "remotes" /\ Spare(p, tracking \ remote, "worktrees")

ReadWorktrees(p) ==
  pc[p] = "worktrees" /\ Spare(p, Branch \ linked, "delete")

\* git refuses to delete a branch that is checked out anywhere.
DeleteOne(p) ==
  /\ pc[p] = "delete"
  /\ \E b \in doomed[p] :
       /\ doomed' = [doomed EXCEPT ![p] = @ \ {b}]
       /\ local' = IF b \in {head} \cup linked THEN local ELSE local \ {b}
  /\ UNCHANGED <<current, pc, timer, starting, recent, fine, onGitHub, head,
                 linked, merged, tracking, remote, visited>>

Finish(p) ==
  /\ pc[p] = "delete" /\ doomed[p] = {}
  /\ Return(p, TRUE)
  /\ UNCHANGED <<current, recent, git>>

Prune(p) ==
  \/ CheckDate(p) \/ UpdateDate(p)
  \/ ReadMerged(p) \/ ReadHead(p) \/ ReadReflog(p)
  \/ ReadRemotes(p) \/ ReadWorktrees(p)
  \/ DeleteOne(p) \/ Finish(p) \/ NotOnGitHub(p)

Fail(p) == Throw(p) \/ NoDefaultBranch(p) \/ ReadMergedFails(p)

-----------------------------------------------------------------------------
(* The user, GitHub and the calendar.                                      *)

UserMay == UserWaits => \A p \in Pruner : pc[p] \notin Running

Commit ==
  /\ UserMay
  /\ \E b \in ({head} \cup linked) \cap Branch : merged' = merged \ {b}
  /\ UNCHANGED <<worker, onGitHub, local, head, linked, tracking, remote,
                 visited>>

\* The checkout of a branch adds it to the reflog of this worktree.
Checkout(b) ==
  /\ UserMay
  /\ b \in (local \cup {Trunk}) \ (linked \cup {head})
  /\ head' = b
  /\ visited' = visited \cup ({b} \cap Branch)
  /\ UNCHANGED <<worker, onGitHub, local, linked, merged, tracking, remote>>

AddWorktree(b) ==
  /\ UserMay
  /\ b \in local \ (linked \cup {head})
  /\ linked' = linked \cup {b}
  /\ UNCHANGED <<worker, onGitHub, local, head, merged, tracking, remote,
                 visited>>

RemoveWorktree(b) ==
  /\ UserMay
  /\ b \in linked
  /\ linked' = linked \ {b}
  /\ UNCHANGED <<worker, onGitHub, local, head, merged, tracking, remote,
                 visited>>

\* A pull request is merged, and the default branch pulled.
Merge(b) ==
  /\ b \in local \ merged
  /\ merged' = merged \cup {b}
  /\ UNCHANGED <<worker, onGitHub, local, head, linked, tracking, remote,
                 visited>>

\* A fetch with --prune finds the upstream of a branch deleted.
UpstreamGoes(b) ==
  /\ b \in remote
  /\ remote' = remote \ {b}
  /\ UNCHANGED <<worker, onGitHub, local, head, linked, merged, tracking,
                 visited>>

DayPasses ==
  /\ recent /\ recent' = FALSE
  /\ UNCHANGED <<current, pc, timer, starting, doomed, fine, git>>

FortnightPasses ==
  /\ visited # {} /\ visited' = {}
  /\ UNCHANGED <<worker, onGitHub, local, head, linked, merged, tracking,
                 remote>>

Environment ==
  \/ Commit \/ DayPasses \/ FortnightPasses
  \/ \E b \in Branch \cup {Trunk} : Checkout(b)
  \/ \E b \in Branch : \/ AddWorktree(b) \/ RemoveWorktree(b)
                       \/ Merge(b) \/ UpstreamGoes(b)

Next ==
  \/ \E p \in Pruner : Select(p) \/ Tick(p) \/ Prune(p) \/ Fail(p)
  \/ Deselect \/ Environment

\* Reads end, intervals tick, and days pass.
Fairness ==
  /\ \A p \in Pruner : WF_vars(Prune(p)) /\ WF_vars(Tick(p))
  /\ WF_vars(DayPasses)

Spec     == Init /\ [][Next]_vars
FairSpec == Spec /\ Fairness

-----------------------------------------------------------------------------
(* Properties.                                                             *)

\* The variables have the shape the actions rely on.
TypeOK ==
  /\ current \in Pruner \cup {None}
  /\ pc \in [Pruner -> Running \cup {"new", "started", "idle"}]
  /\ timer \in [Pruner -> BOOLEAN] /\ starting \subseteq Pruner
  /\ doomed \in [Pruner -> SUBSET Branch]
  /\ \A p \in Pruner : timer[p] => p \notin starting /\ pc[p] # "new"
  /\ recent \in BOOLEAN /\ fine \in BOOLEAN /\ onGitHub \in BOOLEAN
  /\ local \subseteq Branch /\ head \in local \cup {Trunk}
  /\ linked \subseteq local \ {head} /\ merged \subseteq Branch
  /\ remote \subseteq tracking /\ tracking \subseteq Branch
  /\ visited \subseteq Branch

\* While the user leaves git alone during a prune, a branch is only deleted
\* when at that moment its commits are in the default branch, its upstream is
\* gone, and it has not been checked out for two weeks: even with several
\* prunes under way at once, some of them of pruners stopped long ago.
DeletesOnlySpentBranches ==
  [][\A b \in local \ local' :
       b \in merged /\ b \in tracking \ remote /\ b \notin visited]_vars

\* A branch does not stay spent for ever while prunes end well and the current
\* pruner, of a GitHub repository, has its interval.
Spent(b) == /\ b \in local \cap merged \cap (tracking \ remote)
            /\ b \notin visited \cup linked \cup {head}
Ticking  == \E p \in Pruner : current = p /\ timer[p] /\ onGitHub
SpentBranchesGo ==
  \A b \in Branch : ~<>[](Spent(b) /\ Ticking /\ fine)

\* The comment of _selectRepository: stopping before starting "ensures we
\* clean up the existing background fetcher correctly".  No pruner but the
\* current one has an interval.
OnlyCurrentTicks == \A p \in Pruner : timer[p] => p = current

\* "Only prune if it's been at least 24 hours since the last time."
OncePerDay ==
  [][\A p \in Pruner :
       pc[p] = "update" /\ pc'[p] = "merged" => ~recent]_vars

\* "Check if a repo needs to be pruned at least every 4 hours."
CurrentKeepsChecking ==
  \A p \in Pruner : current = p ~> (timer[p] \/ current # p)
=============================================================================
