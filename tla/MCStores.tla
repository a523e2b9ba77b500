------------------------------ MODULE MCStores ------------------------------
(* Three caches in front of GitHub and of git: the commit statuses, the      *)
(* ahead-behind store, and the pull requests with a GitHub that answers.     *)
(* They share no state: `turn` says which of them a behaviour is about, and  *)
(* the others stand still.                                                   *)
EXTENDS AheadBehind, CommitStatus, PullRequestsSynced

VARIABLE turn

ASSUME CommitStatusConstants /\ AheadBehindConstants

allVars == <<turn, csVars, abVars, vars>>

\* The others are where they begin.
StoresInit ==
  /\ turn \in {"status", "ahead", "pull requests"}
  /\ CommitStatusInit /\ AheadBehindInit /\ Init
  /\ turn # "status" => account

Status(X) == turn = "status" /\ X /\ UNCHANGED <<turn, abVars, vars>>
Ahead(X)  == turn = "ahead" /\ X /\ UNCHANGED <<turn, csVars, vars>>
Mirror(X) == turn = "pull requests" /\ X /\ UNCHANGED <<turn, csVars, abVars>>

StoresNext ==
  Status(CommitStatusNext) \/ Ahead(AheadBehindNext) \/ Mirror(Next)

\* The interval, the clock and the limiters run, and git ends; of the requests
\* to GitHub, one that is made again and again is answered some time.  The
\* fairness of the pull requests is that of PullRequestsSynced.
StoresFairness ==
  /\ WF_allVars(Status(Tick)) /\ WF_allVars(Status(RefreshEligible))
  /\ WF_allVars(Status(Age))
  /\ \A i \in 1 .. MaxFetches : /\ WF_allVars(Status(BeginFetch(i)))
                                /\ SF_allVars(Status(Answered(i)))
                                /\ SF_allVars(Status(ActionsAnswered(i)))
  /\ \A c \in Call : WF_allVars(Ahead(Enter(c)))
  /\ \A r \in RevRange : WF_allVars(Ahead(GitEnds(r)))
  /\ WF_allVars(Mirror(Refresh)) /\ WF_allVars(Mirror(RefreshStep))

StoresSpec == StoresInit /\ [][StoresNext]_allVars /\ StoresFairness
=============================================================================
