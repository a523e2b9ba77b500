------------------------------ MODULE MCFlows -------------------------------
(* Flows that share no state: the pull requests, with requests that fail, a  *)
(* merge with conflicts, as far as liveness goes, the hook loadouts of a     *)
(* repository and those of Claude Code.  `turn` says which of them a         *)
(* behaviour is about, and the others stand still.                           *)
EXTENDS PullRequests, ClaudeHooks, HookLoadouts, Conflicts

VARIABLE turn

ASSUME ConflictsConstants /\ LoadoutConstants /\ ClaudeConstants

allVars == <<turn, vars, cfVars, hlVars, chVars>>

\* The others are where they begin.
FlowsInit ==
  /\ turn \in {"pull requests", "conflicts", "loadouts", "claude"}
  /\ Init /\ ConflictsInit /\ LoadoutInit /\ ClaudeInit
  /\ turn # "conflicts" => always
  /\ turn # "loadouts" => theirs
  /\ turn # "claude" => config /\ settings = {}

Mirror(X)   == turn = "pull requests" /\ X
               /\ UNCHANGED <<turn, cfVars, hlVars, chVars>>
Merge(X)    == turn = "conflicts" /\ X
               /\ UNCHANGED <<turn, vars, hlVars, chVars>>
Loadouts(X) == turn = "loadouts" /\ X
               /\ UNCHANGED <<turn, vars, cfVars, chVars>>
Claude(X)   == turn = "claude" /\ X /\ UNCHANGED <<turn, vars, cfVars, hlVars>>

FlowsNext == \/ Mirror(Next) \/ Merge(ConflictsNext)
             \/ Loadouts(LoadoutNext) \/ Claude(ClaudeNext)

\* The status is loaded again and again, and git tells it some time; Copilot
\* answers or fails, which makes room for another run.
FlowsFairness ==
  /\ \A l \in Load : /\ WF_allVars(Merge(BeginLoad(l)))
                     /\ SF_allVars(Merge(EndLoad(l)))
                     /\ SF_allVars(Merge(Trigger(l)))
  /\ \A r \in Run : WF_allVars(Merge(RunAnswers(r)))

FlowsSpec == FlowsInit /\ [][FlowsNext]_allVars /\ FlowsFairness
=============================================================================
