------------------------- MODULE PullRequestsSynced -------------------------
(***************************************************************************)
(* What PullRequests promises when GitHub answers: without GitHubFails and *)
(* TiesSplit, the table is a mirror of the pull requests there.            *)
(***************************************************************************)
EXTENDS PullRequests

\* The updater refreshes again and again, and requests are answered.
Fairness == WF_vars(Refresh) /\ WF_vars(RefreshStep)

FairSpec == Spec /\ Fairness

\* What the table should hold of a pull request.
Wanted(p) == IF remote[p] # NoRow /\ remote[p].state = "open" THEN remote[p]
                                                              ELSE NoRow

\* The promise of incremental fetching: what was last changed before the date
\* is stored exactly as GitHub has it, so that it need not be asked for again.
SyncedBefore ==
  \A p \in PR : remote[p] # NoRow /\ remote[p].at < lastUpdated
                  => table[p] = Wanted(p)

\* Once GitHub is quiet, every refresh leaves the open pull requests in the
\* table.
Converges == <>[](at = "idle" => \A p \in PR : table[p] = Wanted(p))
=============================================================================
