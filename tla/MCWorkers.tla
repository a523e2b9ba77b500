----------------------------- MODULE MCWorkers ------------------------------
(* The three background workers of the selected repository.  They share no   *)
(* state, so `turn` says which of them a behaviour is about, and the others  *)
(* stand still.                                                              *)
EXTENDS BranchPruner, PullRequestUpdater, BackgroundFetcher

VARIABLE turn

ASSUME UpdaterConstants /\ FetcherConstants

allVars == <<turn, puVars, fetchVars, vars>>

\* The others are where they begin.
WorkersInit ==
  /\ turn \in {"updater", "fetcher", "pruner"}
  /\ UpdaterInit /\ FetcherInit /\ Init
  /\ turn # "fetcher" => young = FALSE
  /\ turn # "pruner" => /\ onGitHub /\ head = Trunk
                        /\ tracking = {} /\ merged = {} /\ visited = {}

Updating(A) == turn = "updater" /\ A /\ UNCHANGED <<turn, fetchVars, vars>>
Fetching(A) == turn = "fetcher" /\ A /\ UNCHANGED <<turn, puVars, vars>>
Pruning(A)  == turn = "pruner" /\ A /\ UNCHANGED <<turn, puVars, fetchVars>>

WorkersNext ==
  Updating(UpdaterNext) \/ Fetching(FetcherNext) \/ Pruning(Next)

\* The fairness of each of the modules.
WorkersFairness ==
  /\ \A u \in Updater : WF_allVars(Updating(Fire(u)))
  /\ WF_allVars(Updating(EndRefresh)) /\ WF_allVars(Updating(PassTime))
  /\ \A f \in Fetcher : WF_allVars(Fetching(Own(f)))
  /\ \A p \in Pruner : /\ WF_allVars(Pruning(Prune(p)))
                       /\ WF_allVars(Pruning(Tick(p)))
  /\ WF_allVars(Pruning(DayPasses))

WorkersSpec == WorkersInit /\ [][WorkersNext]_allVars /\ WorkersFairness
=============================================================================
