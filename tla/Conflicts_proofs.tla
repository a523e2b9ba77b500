-------------------------- MODULE Conflicts_proofs --------------------------
(***************************************************************************)
(* Theorems about Conflicts, for any number of loads of the status, of     *)
(* runs of Copilot and of merges: types, that whoever is shown Copilot at  *)
(* work has a run at work, that a result is of the merge it is shown for,  *)
(* and that no markers are committed.                                      *)
(***************************************************************************)
EXTENDS Conflicts, TLAPS

(*-------------------------------------------------------------------------*)
(* Types.                                                                  *)

StatusOf(n) == [merge : 0 .. n, file : File]
LoadOf(n) == [at : {"idle", "reading", "triggering"}, status : StatusOf(n),
              use : BOOLEAN]
OperationOf(n) == [step : Step, back : DialogSteps \cup {"none"},
                   use : BOOLEAN, run : Run \cup {NoRun}, result : 0 .. n]
RunOf(n) == [at : {"idle", "going", "stopped"}, merge : 0 .. n]

\* The step, the step to return to and the result of an operation agree.
Coherent(op) ==
  /\ op.step = "none" <=> op = NoOperation
  /\ op.step = "ConfirmAbort" <=> op.back # "none"
  /\ op.step = "CopilotResult" \/ op.back = "CopilotResult" => op.result # 0
Good(op) == op \in OperationOf(merges) /\ Coherent(op)

DiskTypes ==
  /\ merges \in 0 .. MaxMerges /\ disk \in StatusOf(merges)
  /\ swapped \in BOOLEAN
ScreenTypes ==
  /\ Good(mco) /\ popup \in BOOLEAN /\ banner \in {"none", "conflicts", "opens"}
  /\ account \in BOOLEAN /\ always \in BOOLEAN
  /\ merging \in {"no", "yes", "conflict"}
  /\ ending \in {"none", "abort", "apply", "continue", "commit", "finish"}
WorkTypes ==
  /\ seen \in StatusOf(merges) /\ load \in [Load -> LoadOf(merges)]
  /\ run \in [Run -> RunOf(merges)]
Types == DiskTypes /\ ScreenTypes /\ WorkTypes

LEMMA TypesAre == Types <=> ConflictsTypeOK
<1>1. Coherent(mco) <=>
        /\ (mco.step = "none") = (mco = NoOperation)
        /\ (mco.step = "ConfirmAbort") = (mco.back # "none")
        /\ "CopilotResult" \in {mco.step, mco.back} => mco.result # 0
  BY DEF Coherent
<1> QED
  BY <1>1 DEF Types, DiskTypes, ScreenTypes, WorkTypes, Good, StatusOf, LoadOf,
     OperationOf, RunOf, ConflictsTypeOK

LEMMA CleanType == ASSUME NEW n \in Nat
                   PROVE  /\ Clean \in StatusOf(n) /\ NotLoading \in LoadOf(n)
                          /\ NotRunning \in RunOf(n)
BY DEF Clean, At, File, StatusOf, NotLoading, Loading, LoadOf, NotRunning,
   Runs, RunOf

\* The operations the program makes of a kind of step.
LEMMA OperationGood ==
  ASSUME Types,
         NEW step \in {"none", "ChooseBranch", "ShowProgress", "ShowConflicts"}
  PROVE  Good(Operation(step))
<1>1. Operation(step) \in OperationOf(merges)
  BY DEF Types, DiskTypes, Operation, OperationOf, Step, ConflictSteps,
     DialogSteps, CopilotSteps
<1>2. Coherent(Operation(step))
  BY DEF Operation, NoOperation, Coherent
<1> QED BY <1>1, <1>2 DEF Good

LEMMA ToStepGood ==
  ASSUME Types, mco # NoOperation,
         NEW step \in {"CopilotLoading", "ShowConflicts", "HideConflicts"}
  PROVE  /\ Good(ToStep(step)) /\ ToStep(step) # NoOperation
         /\ \A use \in BOOLEAN : /\ Good([ToStep(step) EXCEPT !.use = use])
                                 /\ [ToStep(step) EXCEPT !.use = use]
                                      # NoOperation
<1>1. \A use \in BOOLEAN :
        /\ ToStep(step) \in OperationOf(merges)
        /\ [ToStep(step) EXCEPT !.use = use] \in OperationOf(merges)
  BY DEF Types, ScreenTypes, Good, ToStep, OperationOf, Step, ConflictSteps,
     DialogSteps, CopilotSteps
<1>2. \A use \in BOOLEAN :
        LET op == [ToStep(step) EXCEPT !.use = use]
        IN /\ op.step = step /\ op.back = "none"
           /\ ToStep(step).step = step /\ ToStep(step).back = "none"
  BY DEF Types, ScreenTypes, Good, ToStep, OperationOf
<1>3. NoOperation.step = "none" BY DEF NoOperation, Operation
<1> QED BY <1>1, <1>2, <1>3 DEF Good, Coherent

LEMMA InitTypes == ASSUME ConflictsConstants, ConflictsInit PROVE Types
<1>1. /\ merges = 0 /\ Clean \in StatusOf(0) /\ NotLoading \in LoadOf(0)
      /\ NotRunning \in RunOf(0)
  BY CleanType DEF ConflictsInit
<1>2. DiskTypes
  <2>1. merges \in 0 .. MaxMerges BY <1>1 DEF ConflictsConstants
  <2>2. disk \in StatusOf(merges) /\ swapped \in BOOLEAN
    BY <1>1 DEF ConflictsInit
  <2> QED BY <2>1, <2>2 DEF DiskTypes
<1>3. WorkTypes
  BY <1>1 DEF ConflictsInit, WorkTypes
<1>4. Good(mco)
  BY DEF ConflictsInit, ConflictsConstants, Good, NoOperation, Operation,
     OperationOf, Step, Coherent
<1> QED
  BY <1>2, <1>3, <1>4 DEF ConflictsInit, ScreenTypes, Types

\* A run that starts is one there is room for, and is the one of its operation.
LEMMA StartedGood ==
  ASSUME Types, NEW op, Good(op), Started(op), UNCHANGED merges
  PROVE  Good(mco)' /\ run' \in [Run -> RunOf(merges)]
<1>1. CASE op = NoOperation \/ ~account
  BY <1>1 DEF Started, Types, WorkTypes, Good
<1>2. CASE op # NoOperation /\ account
  <2>1. PICK r \in Run : /\ run' = [run EXCEPT ![r] = Runs("going", seen.merge)]
                         /\ mco' = [op EXCEPT !.run = r]
    BY <1>2 DEF Started
  <2>2. Runs("going", seen.merge) \in RunOf(merges)
    BY DEF Types, WorkTypes, StatusOf, Runs, RunOf
  <2>3. mco' \in OperationOf(merges)
    BY <2>1 DEF Good, OperationOf
  <2>4. /\ mco'.step = op.step /\ mco'.back = op.back
        /\ mco'.result = op.result
    BY <2>1 DEF Good, OperationOf
  <2>5. op.step # "none" /\ NoOperation.step = "none"
    BY <1>2 DEF Good, Coherent, NoOperation, Operation
  <2>6. Coherent(mco')
    BY <2>4, <2>5 DEF Good, Coherent
  <2>7. run' \in [Run -> RunOf(merges)]
    BY <2>1, <2>2 DEF Types, WorkTypes
  <2> QED BY <2>3, <2>6, <2>7 DEF Good
<1> QED BY <1>1, <1>2

LEMMA RunEndsTypes ==
  ASSUME Types, NEW r \in Run, NEW outcome \in {"result", "null", "fails"},
         RunEnds(r, outcome), ConflictsConstants
  PROVE  Types'
<1>1. DiskTypes'
  BY DEF RunEnds, outside, Types, DiskTypes
<1>2. run' \in [Run -> RunOf(merges)]
  BY CleanType DEF RunEnds, Types, WorkTypes, DiskTypes
<1>3. WorkTypes'
  BY <1>2 DEF RunEnds, outside, Types, WorkTypes
<1>4. run[r].merge \in 0 .. merges BY DEF Types, WorkTypes, RunOf
<1>5. Good(mco)'
  <2>1. CASE mco.run # r
    BY <2>1 DEF RunEnds, outside, Owns, Types, ScreenTypes, Good
  <2>2. CASE mco.run = r
    <3>1. mco # NoOperation /\ mco.step # "none" /\ NoOperation.step = "none"
      BY <2>2 DEF ConflictsConstants, NoOperation, Operation, Types,
         ScreenTypes, Good, Coherent
    <3>2. Good([mco EXCEPT !.run = NoRun])
      BY <3>1 DEF Types, ScreenTypes, Good, OperationOf, Coherent
    <3>3. /\ Good([Manual EXCEPT !.run = NoRun])
          /\ Good([Manual EXCEPT !.run = NoRun, !.result = 0])
      <4> DEFINE first == [Manual EXCEPT !.run = NoRun]
                 other == [Manual EXCEPT !.run = NoRun, !.result = 0]
      <4>1. first \in OperationOf(merges) /\ other \in OperationOf(merges)
        <5>1. 0 \in 0 .. merges BY DEF Types, DiskTypes
        <5>2. Manual \in OperationOf(merges)
          BY DEF Types, ScreenTypes, Good, OperationOf, Manual, ToStep, Step,
             ConflictSteps, DialogSteps
        <5>3. first \in OperationOf(merges)
          BY <5>2 DEF OperationOf
        <5>4. other = [first EXCEPT !.result = 0]
          BY <5>2 DEF OperationOf
        <5> HIDE DEF first, other
        <5>5. other \in OperationOf(merges)
          BY <5>1, <5>3, <5>4 DEF OperationOf
        <5> QED BY <5>3, <5>5
      <4>2. /\ first.step = "ShowConflicts" /\ first.back = "none"
            /\ other.step = "ShowConflicts" /\ other.back = "none"
        BY DEF Types, ScreenTypes, Good, OperationOf, Manual, ToStep
      <4> QED BY <4>1, <4>2, <3>1 DEF Good, Coherent
    <3>4. CASE outcome = "result" /\ run[r].at = "going"
      <4>1. run[r].merge # 0 /\ Answered(r)
        BY <2>2, <3>4 DEF RunEnds, Owns
      <4>2. CASE mco.step = "CopilotLoading"
        <5>1. mco' = [ToStep("CopilotResult") EXCEPT !.result = run[r].merge,
                                                     !.run = NoRun]
          BY <4>1, <4>2 DEF Answered
        <5>2. mco' \in OperationOf(merges)
          BY <5>1, <1>4 DEF Types, ScreenTypes, Good, OperationOf, ToStep,
             Step, ConflictSteps, DialogSteps, CopilotSteps
        <5>3. /\ mco'.step = "CopilotResult" /\ mco'.back = "none"
              /\ mco'.result = run[r].merge
          BY <5>1 DEF Types, ScreenTypes, Good, OperationOf, ToStep
        <5> QED
          BY <5>2, <5>3, <4>1, <3>1 DEF RunEnds, outside, Good, Coherent
      <4>3. CASE mco.step # "CopilotLoading" /\ AwaitsResult
        <5>1. mco' = [mco EXCEPT !.back = "CopilotResult",
                                 !.result = run[r].merge, !.run = NoRun]
          BY <4>1, <4>3 DEF Answered
        <5>2. mco' \in OperationOf(merges)
          BY <5>1, <1>4 DEF Types, ScreenTypes, Good, OperationOf,
             DialogSteps, CopilotSteps
        <5>3. /\ mco'.step = "ConfirmAbort" /\ mco'.back = "CopilotResult"
              /\ mco'.result = run[r].merge
          BY <5>1, <4>3 DEF Types, ScreenTypes, Good, OperationOf,
             AwaitsResult
        <5> QED
          BY <5>2, <5>3, <4>1, <3>1 DEF RunEnds, outside, Good, Coherent
      <4>4. CASE ~AwaitsResult
        BY <4>1, <4>4 DEF AwaitsResult, Answered, RunEnds, outside, Types,
           ScreenTypes, Good
      <4> QED BY <4>2, <4>3, <4>4
    <3>5. CASE ~(outcome = "result" /\ run[r].at = "going")
      BY <3>2, <3>3, <3>5, <2>2 DEF RunEnds, outside, Owns, Types,
         ScreenTypes, Good
    <3> QED BY <3>4, <3>5
  <2> QED BY <2>1, <2>2
<1>6. ScreenTypes'
  BY <1>5 DEF RunEnds, fixed, Types, ScreenTypes
<1> QED BY <1>1, <1>3, <1>6 DEF Types

LEMMA OutsideTypes ==
  ASSUME Types, ConflictsConstants,
         \/ NewConflict
         \/ disk' \in {Clean, disk} /\ UNCHANGED <<merges, swapped>>
         \/ \E file \in File :
              disk' = [disk EXCEPT !.file = file] /\ UNCHANGED <<merges, swapped>>
  PROVE  DiskTypes' /\ merges \in Nat /\ merges' \in Nat /\ merges <= merges'
<1>1. merges \in Nat /\ merges <= MaxMerges /\ MaxMerges \in Nat
  BY DEF Types, DiskTypes, ConflictsConstants
<1>2. CASE NewConflict
  <2>1. merges' = merges + 1 /\ merges' \in 0 .. MaxMerges
    BY <1>1, <1>2 DEF NewConflict
  <2>2. At(merges + 1, "markers") \in StatusOf(merges + 1)
    BY <1>1 DEF At, StatusOf, File
  <2>3. swapped' \in BOOLEAN BY <1>2 DEF NewConflict, Types, DiskTypes
  <2> QED BY <1>1, <1>2, <2>1, <2>2, <2>3 DEF NewConflict, DiskTypes
<1>3. CASE disk' \in {Clean, disk} /\ UNCHANGED <<merges, swapped>>
  BY <1>1, <1>3, CleanType DEF Types, DiskTypes
<1>4. CASE \E file \in File :
              disk' = [disk EXCEPT !.file = file] /\ UNCHANGED <<merges, swapped>>
  BY <1>1, <1>4 DEF Types, DiskTypes, StatusOf
<1> QED BY <1>2, <1>3, <1>4

\* More merges leave everything else in its type.
LEMMA MoreMerges ==
  ASSUME Types, merges \in Nat, merges' \in Nat, merges <= merges',
         UNCHANGED <<seen, load, run>>
  PROVE  WorkTypes' /\ (UNCHANGED mco => Good(mco)')
<1>1. 0 .. merges \subseteq 0 .. merges' OBVIOUS
<1>2. \A x \in StatusOf(merges) : x \in StatusOf(merges')
  BY <1>1 DEF StatusOf
<1>3. \A x \in LoadOf(merges) : x \in LoadOf(merges')
  BY <1>2 DEF LoadOf
<1>4. \A x \in RunOf(merges) : x \in RunOf(merges')
  BY <1>1 DEF RunOf
<1>5. \A x \in OperationOf(merges) : x \in OperationOf(merges')
  BY <1>1 DEF OperationOf
<1>6. WorkTypes'
  BY <1>2, <1>3, <1>4 DEF Types, WorkTypes
<1>7. UNCHANGED mco => Good(mco)'
  BY <1>5 DEF Types, ScreenTypes, Good
<1> QED BY <1>6, <1>7

\* What happens outside, and in git, moves the operation on at most to one that
\* is good.
LEMMA OutsideKeeps ==
  ASSUME Types, DiskTypes', merges \in Nat, merges' \in Nat,
         merges <= merges', UNCHANGED <<seen, load, run, popup, banner, fixed>>,
         UNCHANGED mco \/ mco' = NoOperation,
         merging' \in {"no", "yes", "conflict"},
         ending' \in {"none", "abort", "apply", "continue", "commit", "finish"}
  PROVE  Types'
<1>1. WorkTypes' /\ (UNCHANGED mco => Good(mco)') BY MoreMerges
<1>2. mco' = NoOperation => Good(mco)'
  BY DEF NoOperation, Operation, Good, OperationOf, Step, Coherent
<1>3. ScreenTypes'
  BY <1>1, <1>2 DEF fixed, Types, ScreenTypes
<1> QED BY <1>1, <1>3 DEF Types

\* An action of the dialogs.
LEMMA DialogKeeps ==
  ASSUME Types, UNCHANGED outside, Good(mco)', popup' \in BOOLEAN,
         banner' \in {"none", "conflicts", "opens"},
         account' \in BOOLEAN, UNCHANGED always,
         merging' \in {"no", "yes", "conflict"},
         ending' \in {"none", "abort", "apply", "continue", "commit", "finish"},
         UNCHANGED <<seen, load>>, run' \in [Run -> RunOf(merges)]
  PROVE  Types'
BY DEF Types, DiskTypes, ScreenTypes, WorkTypes, outside

LEMMA NoOperationGood == Types => Good(NoOperation)
BY OperationGood DEF NoOperation

LEMMA StepNames ==
  ASSUME Types
  PROVE  /\ mco.step \in Step /\ mco.back \in DialogSteps \cup {"none"}
         /\ mco.step # "none" <=> mco # NoOperation
BY DEF Types, ScreenTypes, Good, OperationOf, Coherent

LEMMA CopilotTypes ==
  ASSUME Types, Attempt \/ Stop \/ BackToManual PROVE Types'
<1>1. mco # NoOperation
  BY StepNames DEF Attempt, Stop, BackToManual
<1>2. Good(Manual) BY <1>1, ToStepGood DEF Manual
<1>3. Good([ToStep("CopilotLoading") EXCEPT !.use = TRUE])
  BY <1>1, ToStepGood
<1>4. UNCHANGED <<outside, seen, load, popup, banner, fixed, merging, ending>>
  BY DEF Attempt, Stop, BackToManual
<1>5. merges' = merges BY <1>4 DEF outside
<1>6. Good(mco)' /\ run' \in [Run -> RunOf(merges)]
  <2>1. CASE Attempt
    BY <1>3, <1>5, <2>1, StartedGood DEF Attempt
  <2>2. CASE Stop
    BY <1>2, <1>5, <2>2 DEF Stop, Good, Types, WorkTypes, RunOf
  <2>3. CASE BackToManual
    BY <1>2, <1>5, <2>3 DEF BackToManual, Good, Types, WorkTypes
  <2> QED BY <2>1, <2>2, <2>3
<1>7. /\ popup' \in BOOLEAN /\ banner' \in {"none", "conflicts", "opens"}
      /\ account' \in BOOLEAN /\ always' = always
      /\ merging' \in {"no", "yes", "conflict"}
      /\ ending' \in {"none", "abort", "apply", "continue", "commit", "finish"}
  BY <1>4 DEF fixed, Types, ScreenTypes
<1> QED BY <1>4, <1>6, <1>7, DialogKeeps

LEMMA LoadTypes ==
  ASSUME Types, NEW l \in Load,
         BeginLoad(l) \/ EndLoad(l) \/ LoadFails(l) \/ Trigger(l)
  PROVE  Types'
<1>1. /\ UNCHANGED outside /\ merges' = merges /\ merges \in Nat
      /\ UNCHANGED <<fixed, merging, ending>>
  <2>1. UNCHANGED outside /\ UNCHANGED <<fixed, merging, ending>>
    BY DEF BeginLoad, EndLoad, LoadFails, Trigger
  <2> QED BY <2>1 DEF outside, Types, DiskTypes
<1>2. DiskTypes' BY <1>1 DEF outside, Types, DiskTypes
<1>3. /\ load \in [Load -> LoadOf(merges)] /\ mco.use \in BOOLEAN
      /\ load[l].status \in StatusOf(merges)
      /\ Clean \in StatusOf(merges) /\ NotLoading \in LoadOf(merges)
  BY <1>1, CleanType DEF Types, WorkTypes, LoadOf, ScreenTypes, Good,
     OperationOf
<1>4. load' \in [Load -> LoadOf(merges)]
  <2>1. CASE BeginLoad(l)
    <3>1. Loading("reading", disk, FALSE) \in LoadOf(merges)
      BY DEF Types, DiskTypes, Loading, LoadOf
    <3> QED BY <1>3, <2>1, <3>1 DEF BeginLoad
  <2>2. CASE EndLoad(l)
    <3>1. Loading("triggering", Clean, mco.use) \in LoadOf(merges)
      BY <1>3 DEF Loading, LoadOf
    <3> QED BY <1>3, <2>2, <3>1 DEF EndLoad
  <2>3. CASE LoadFails(l) \/ Trigger(l)
    BY <1>3, <2>3 DEF LoadFails, Trigger
  <2> QED BY <2>1, <2>2, <2>3
<1>5. seen' \in StatusOf(merges)
  BY <1>3 DEF BeginLoad, EndLoad, LoadFails, Trigger, Types, WorkTypes
<1>6. Good(mco)' /\ run' \in [Run -> RunOf(merges)]
  <2>1. CASE Trigger(l)
    <3> DEFINE auto == ~load[l].use /\ always /\ account
               step == IF auto \/ load[l].use THEN "CopilotLoading"
                                             ELSE "ShowConflicts"
               next == IF mco = NoOperation THEN mco
                       ELSE [ToStep(step) EXCEPT !.use = @ \/ auto]
    <3>1. IF step = "CopilotLoading" THEN Started(next)
          ELSE mco' = next /\ UNCHANGED run
      BY <2>1 DEF Trigger
    <3>2. Good(next)
      <4>1. CASE mco = NoOperation
        BY <4>1 DEF Types, ScreenTypes
      <4>2. CASE mco # NoOperation
        <5>1. next = [ToStep(step) EXCEPT !.use = (ToStep(step).use \/ auto)]
          BY <4>2 DEF ToStep
        <5>2. (ToStep(step).use \/ auto) \in BOOLEAN OBVIOUS
        <5>3. step \in {"CopilotLoading", "ShowConflicts", "HideConflicts"}
          OBVIOUS
        <5> HIDE DEF auto, step
        <5> QED BY <4>2, <5>1, <5>2, <5>3, ToStepGood
      <4> QED BY <4>1, <4>2
    <3> HIDE DEF next, step
    <3> QED
      BY <1>1, <3>1, <3>2, StartedGood DEF Types, WorkTypes, Good
  <2>2. CASE EndLoad(l)
    BY <1>1, <2>2, OperationGood DEF EndLoad, Types, WorkTypes, ScreenTypes,
       Good
  <2>3. CASE BeginLoad(l) \/ LoadFails(l)
    BY <1>1, <2>3 DEF BeginLoad, LoadFails, dialog, Types, WorkTypes,
       ScreenTypes, Good
  <2> QED BY <2>1, <2>2, <2>3
<1>7. popup' \in BOOLEAN /\ banner' \in {"none", "conflicts", "opens"}
  BY DEF BeginLoad, EndLoad, LoadFails, Trigger, Cleared, dialog, Types,
     ScreenTypes
<1>8. WorkTypes' BY <1>1, <1>4, <1>5, <1>6 DEF WorkTypes
<1>9. ScreenTypes'
  BY <1>1, <1>6, <1>7 DEF fixed, Types, ScreenTypes
<1> QED BY <1>2, <1>8, <1>9 DEF Types

LEMMA DialogTypes ==
  ASSUME Types, \/ Dismiss \/ OpenBanner \/ LoseBanner \/ ConfirmAbort
                \/ ReturnToConflicts \/ Abort \/ ContinueResult \/ Continue
                \/ FinishMerge \/ StartMerge \/ ChooseNothing
                \/ ChooseBranch \/ HandleConflict \/ SignOut
  PROVE  Types'
<1>1. UNCHANGED <<outside, seen, load, run>>
  BY DEF Dismiss, OpenBanner, LoseBanner, ConfirmAbort, ReturnToConflicts,
     Abort, ContinueResult, Continue, FinishMerge, StartMerge, ChooseNothing,
     ChooseBranch, HandleConflict, SignOut, dialog
<1>2. merges' = merges BY <1>1 DEF outside
<1>3. /\ account' \in BOOLEAN /\ always' = always
      /\ popup' \in BOOLEAN /\ banner' \in {"none", "conflicts", "opens"}
      /\ merging' \in {"no", "yes", "conflict"}
      /\ ending' \in {"none", "abort", "apply", "continue", "commit", "finish"}
  BY DEF Dismiss, OpenBanner, LoseBanner, ConfirmAbort, ReturnToConflicts,
     Abort, ContinueResult, Continue, FinishMerge, StartMerge, ChooseNothing,
     ChooseBranch, HandleConflict, SignOut, dialog, fixed, FlowEnded, Types,
     ScreenTypes
<1>4. Good(mco)'
  <2>1. Good(mco) /\ Good(NoOperation)
    BY NoOperationGood DEF Types, ScreenTypes
  <2>2. CASE Dismiss
    <3>1. \/ mco' = NoOperation \/ mco' = mco
          \/ mco' = ToStep("HideConflicts")
      BY <2>2 DEF Dismiss, FlowEnded
    <3>2. mco # NoOperation
      BY <2>2, StepNames DEF Dismiss, InDialog, DialogSteps, CopilotSteps
    <3> QED BY <1>2, <2>1, <3>1, <3>2, ToStepGood DEF Good
  <2>3. CASE OpenBanner
    <3>1. mco' = mco \/ (mco # NoOperation /\ mco' = ToStep("ShowConflicts"))
      BY <2>3 DEF OpenBanner, Updated
    <3> QED BY <1>2, <2>1, <3>1, ToStepGood DEF Good
  <2>4. CASE ConfirmAbort
    <3>1. /\ mco' = [mco EXCEPT !.step = "ConfirmAbort", !.back = mco.step]
          /\ mco.step \in DialogSteps /\ mco.step # "none"
      BY <2>4 DEF ConfirmAbort, InDialog, DialogSteps, CopilotSteps
    <3>2. mco' \in OperationOf(merges)
      BY <2>1, <3>1 DEF Good, OperationOf, Step, ConflictSteps
    <3>3. /\ mco'.step = "ConfirmAbort" /\ mco'.back = mco.step
          /\ mco'.result = mco.result
      BY <2>1, <3>1 DEF Good, OperationOf
    <3>4. NoOperation.step = "none" BY DEF NoOperation, Operation
    <3> QED BY <1>2, <2>1, <3>1, <3>2, <3>3, <3>4 DEF Good, Coherent
  <2>5. CASE ReturnToConflicts
    <3>1. /\ mco' = ToStep(mco.back) /\ mco.step = "ConfirmAbort"
          /\ mco.back \in DialogSteps
      BY <2>5, <2>1, StepNames DEF ReturnToConflicts, Good, Coherent
    <3>2. mco' \in OperationOf(merges)
      BY <2>1, <3>1 DEF Good, OperationOf, Step, ConflictSteps, ToStep
    <3>3. /\ mco'.step = mco.back /\ mco'.back = "none"
          /\ mco'.result = mco.result
      BY <2>1, <3>1 DEF Good, OperationOf, ToStep
    <3>4. mco.back \notin {"none", "ConfirmAbort"}
      BY <3>1 DEF DialogSteps, CopilotSteps
    <3>5. NoOperation.step = "none" BY DEF NoOperation, Operation
    <3> QED BY <1>2, <2>1, <3>1, <3>2, <3>3, <3>4, <3>5 DEF Good, Coherent
  <2>6. CASE Abort \/ FinishMerge \/ ChooseNothing \/ Continue
    <3>1. mco' = mco \/ mco' = NoOperation
      BY <2>6 DEF Abort, FinishMerge, ChooseNothing, Continue, FlowEnded
    <3> QED BY <1>2, <2>1, <3>1 DEF Good
  <2>7. CASE LoseBanner \/ ContinueResult \/ ChooseBranch \/ SignOut
    <3>1. mco' = mco
      BY <2>7 DEF LoseBanner, ContinueResult, ChooseBranch, SignOut, dialog
    <3> QED BY <1>2, <2>1, <3>1 DEF Good
  <2>8. CASE StartMerge
    BY <1>2, <2>8, OperationGood DEF StartMerge, Good
  <2>9. CASE HandleConflict
    BY <1>2, <2>9, OperationGood, ToStepGood DEF HandleConflict, Good
  <2> QED BY <2>2, <2>3, <2>4, <2>5, <2>6, <2>7, <2>8, <2>9
<1> QED BY <1>1, <1>2, <1>3, <1>4, DialogKeeps DEF Types, WorkTypes

LEMMA MergeTypes ==
  ASSUME Types, ConflictsConstants,
         \/ AbortMerge \/ Apply \/ Commit \/ MergeEnds \/ MergesOutside
         \/ ResolvesOutside \/ EndsOutside
  PROVE  Types'
<1>1. \/ NewConflict
      \/ disk' \in {Clean, disk} /\ UNCHANGED <<merges, swapped>>
      \/ \E file \in File :
           disk' = [disk EXCEPT !.file = file] /\ UNCHANGED <<merges, swapped>>
  <2>1. CASE Apply
    BY <2>1 DEF Apply, File
  <2>2. CASE ResolvesOutside
    BY <2>2 DEF ResolvesOutside, File
  <2>3. CASE AbortMerge \/ Commit \/ MergesOutside \/ EndsOutside
    BY <2>3 DEF AbortMerge, Commit, MergesOutside, EndsOutside
  <2>4. CASE MergeEnds
    BY <2>4 DEF MergeEnds, outside
  <2> QED BY <2>1, <2>2, <2>3, <2>4
<1>2. UNCHANGED <<seen, load, run, popup, banner, fixed>>
  BY DEF AbortMerge, Apply, Commit, MergeEnds, MergesOutside,
     ResolvesOutside, EndsOutside, dialog
<1>3. UNCHANGED mco \/ mco' = NoOperation
  BY DEF AbortMerge, Apply, Commit, MergeEnds, MergesOutside,
     ResolvesOutside, EndsOutside, dialog
<1>4. /\ merging' \in {"no", "yes", "conflict"}
      /\ ending' \in {"none", "abort", "apply", "continue", "commit", "finish"}
  BY DEF AbortMerge, Apply, Commit, MergeEnds, MergesOutside,
     ResolvesOutside, EndsOutside, Types, ScreenTypes
<1> QED BY <1>1, <1>2, <1>3, <1>4, OutsideTypes, OutsideKeeps

LEMMA StepTypes ==
  ASSUME ConflictsConstants, Types, [ConflictsNext]_cfVars PROVE Types'
<1>1. CASE \E r \in Run : RunAnswers(r)
  BY <1>1, RunEndsTypes DEF RunAnswers
<1>2. CASE Attempt \/ Stop \/ BackToManual
  BY <1>2, CopilotTypes
<1>3. CASE \E l \in Load :
             BeginLoad(l) \/ EndLoad(l) \/ LoadFails(l) \/ Trigger(l)
  BY <1>3, LoadTypes
<1>4. CASE \/ Dismiss \/ OpenBanner \/ LoseBanner \/ ConfirmAbort
           \/ ReturnToConflicts \/ Abort \/ ContinueResult \/ Continue
           \/ FinishMerge \/ StartMerge \/ ChooseNothing
           \/ ChooseBranch \/ HandleConflict \/ SignOut
  BY <1>4, DialogTypes
<1>5. CASE \/ AbortMerge \/ Apply \/ Commit \/ MergeEnds \/ MergesOutside
           \/ ResolvesOutside \/ EndsOutside
  BY <1>5, MergeTypes
<1>6. CASE UNCHANGED cfVars
  BY <1>6 DEF cfVars, outside, dialog, fixed, Types, DiskTypes, ScreenTypes,
     WorkTypes, Good
<1> QED BY <1>1, <1>2, <1>3, <1>4, <1>5, <1>6 DEF ConflictsNext

\* The variables of a merge keep their types, and whoever is at the dialog of a
\* result, or about to return to it, has one.
THEOREM ConflictTypesCorrect ==
  ASSUME ConflictsConstants PROVE ConflictsSpec => []ConflictsTypeOK
<1>1. ConflictsInit => Types BY InitTypes
<1>2. Types /\ [ConflictsNext]_cfVars => Types' BY StepTypes
<1>3. Types => ConflictsTypeOK BY TypesAre
<1> QED BY <1>1, <1>2, <1>3, PTL DEF ConflictsSpec

(*-------------------------------------------------------------------------*)
(* What a step does to the operation and its run.                          *)

AtResult == mco.step = "CopilotResult" \/ mco.back = "CopilotResult"
Visible == popup \/ banner # "none"

\* The operation is where Copilot is neither at work nor has been.
Leaves == ~AwaitsResult' /\ ~AtResult'

\* A run starts on what is seen, or nobody is signed in.
Starts ==
  /\ ~AtResult' /\ UNCHANGED <<seen, account>>
  /\ account => /\ mco'.run \in Run
                /\ run'[mco'.run] = Runs("going", seen.merge)

\* The step may change to ConfirmAbort and back.
Stays == /\ UNCHANGED run /\ mco'.run = mco.run /\ mco'.result = mco.result
         /\ AwaitsResult' = AwaitsResult /\ AtResult' = AtResult

\* A run ends that is not of the operation.
OtherEnds ==
  /\ UNCHANGED mco
  /\ \E r \in Run : r # mco.run /\ run' = [run EXCEPT ![r] = NotRunning]

\* Its own ends with a result, which it waits for.
HasResult ==
  /\ AwaitsResult /\ run[mco.run].merge # 0
  /\ ~AwaitsResult' /\ mco'.result = run[mco.run].merge

\* Its own ends, of which it expects nothing any more.
Forgets ==
  /\ mco.run \in Run /\ (run[mco.run].at = "stopped" \/ ~AwaitsResult)
  /\ run' = [run EXCEPT ![mco.run] = NotRunning]
  /\ mco'.result = mco.result
  /\ AwaitsResult' = AwaitsResult /\ AtResult' = AtResult

OperationStep ==
  \/ Leaves \/ Starts
  \/ (Stays \/ OtherEnds \/ HasResult \/ Forgets) /\ (Visible' => Visible)

LEMMA EndingRun ==
  ASSUME Types, ConflictsConstants, NEW r \in Run,
         NEW outcome \in {"result", "null", "fails"}, RunEnds(r, outcome)
  PROVE  OperationStep
<1>1. Visible' = Visible
  BY DEF RunEnds, Visible
<1>2. run' = [run EXCEPT ![r] = NotRunning]
  BY DEF RunEnds
<1>3. CASE mco.run # r
  BY <1>1, <1>2, <1>3 DEF RunEnds, Owns, OperationStep, OtherEnds
<1>4. CASE mco.run = r
  <2>1. CASE mco' = mco \/ mco' = [mco EXCEPT !.run = NoRun]
    <3>1. mco'.step = mco.step /\ mco'.back = mco.back /\ mco'.result = mco.result
      BY <2>1 DEF Types, ScreenTypes, Good, OperationOf
    <3>2. AwaitsResult' = AwaitsResult /\ AtResult' = AtResult
      BY <3>1 DEF AwaitsResult, AtResult
    <3>3. run[r].at = "stopped" \/ ~AwaitsResult
      <4>1. CASE outcome = "result" /\ run[r].at = "going"
        <5>1. Answered(r) BY <1>4, <4>1 DEF RunEnds, Owns
        <5>2. SUFFICES ASSUME AwaitsResult PROVE FALSE OBVIOUS
        <5>3. mco.step = "CopilotLoading" => mco'.step = "CopilotResult"
          BY <5>1 DEF Answered, Types, ScreenTypes, Good, OperationOf, ToStep
        <5>4. mco.step # "CopilotLoading" => mco'.back = "CopilotResult"
          BY <5>1, <5>2 DEF Answered, Types, ScreenTypes, Good, OperationOf
        <5> QED BY <3>1, <5>2, <5>3, <5>4 DEF AwaitsResult
      <4>2. CASE outcome = "null" /\ run[r].at = "going"
        <5>1. AwaitsResult => mco' = [Manual EXCEPT !.run = NoRun]
          BY <1>4, <4>2 DEF RunEnds, Owns
        <5>2. AwaitsResult => mco'.step = "ShowConflicts"
          BY <5>1 DEF Manual, ToStep, Types, ScreenTypes, Good, OperationOf
        <5> QED BY <3>1, <5>2 DEF AwaitsResult
      <4>3. CASE outcome = "fails" /\ run[r].at = "going"
        <5>1. mco' = [Manual EXCEPT !.run = NoRun, !.result = 0]
          BY <1>4, <4>3 DEF RunEnds, Owns
        <5>2. mco'.step = "ShowConflicts"
          BY <5>1 DEF Manual, ToStep, Types, ScreenTypes, Good, OperationOf
        <5> QED BY <3>1, <5>2 DEF AwaitsResult
      <4> QED BY <4>1, <4>2, <4>3 DEF RunEnds
    <3> QED
      BY <1>1, <1>2, <1>4, <3>1, <3>2, <3>3 DEF OperationStep, Forgets
  <2>2. CASE \/ mco' = [Manual EXCEPT !.run = NoRun]
             \/ mco' = [Manual EXCEPT !.run = NoRun, !.result = 0]
    <3>1. mco'.step = "ShowConflicts" /\ mco'.back = "none"
      BY <2>2 DEF Types, ScreenTypes, Good, OperationOf, Manual, ToStep
    <3> QED BY <3>1 DEF OperationStep, Leaves, AwaitsResult, AtResult
  <2>3. CASE outcome = "result" /\ AwaitsResult /\ Answered(r)
    <3>1. CASE mco.step = "CopilotLoading"
      <4>1. mco' = [ToStep("CopilotResult") EXCEPT !.result = run[r].merge,
                                                   !.run = NoRun]
        BY <2>3, <3>1 DEF Answered
      <4>2. mco'.step = "CopilotResult" /\ mco'.result = run[r].merge
        BY <4>1 DEF Types, ScreenTypes, Good, OperationOf, ToStep
      <4> QED
        BY <1>1, <1>4, <2>3, <4>2 DEF RunEnds, OperationStep, HasResult,
           AwaitsResult
    <3>2. CASE mco.step # "CopilotLoading"
      <4>1. mco' = [mco EXCEPT !.back = "CopilotResult",
                               !.result = run[r].merge, !.run = NoRun]
        BY <2>3, <3>2 DEF Answered
      <4>2. /\ mco'.step = mco.step /\ mco'.back = "CopilotResult"
            /\ mco'.result = run[r].merge
        BY <4>1 DEF Types, ScreenTypes, Good, OperationOf
      <4> QED
        BY <1>1, <1>4, <2>3, <3>2, <4>2 DEF RunEnds, OperationStep,
           HasResult, AwaitsResult
    <3> QED BY <3>1, <3>2
  <2>4. \/ mco' = mco \/ mco' = [mco EXCEPT !.run = NoRun]
        \/ mco' = [Manual EXCEPT !.run = NoRun]
        \/ mco' = [Manual EXCEPT !.run = NoRun, !.result = 0]
        \/ outcome = "result" /\ AwaitsResult /\ Answered(r)
    <3>1. CASE outcome = "result" /\ run[r].at = "going"
      <4>1. Answered(r) BY <1>4, <3>1 DEF RunEnds, Owns
      <4>2. ~AwaitsResult => mco' = mco
        BY <4>1 DEF Answered, AwaitsResult
      <4> QED BY <3>1, <4>1, <4>2
    <3>2. CASE ~(outcome = "result" /\ run[r].at = "going")
      BY <1>4, <3>2 DEF RunEnds, Owns
    <3> QED BY <3>1, <3>2
  <2> QED BY <2>1, <2>2, <2>3, <2>4
<1> QED BY <1>3, <1>4

LEMMA StepOf ==
  ASSUME Types, NEW step,
         \/ mco' = Operation(step)
         \/ mco' = ToStep(step)
         \/ \E use \in BOOLEAN : mco' = [ToStep(step) EXCEPT !.use = use]
  PROVE  mco'.step = step /\ mco'.back = "none"
<1>1. CASE mco' = Operation(step)
  BY <1>1 DEF Operation
<1>2. CASE mco' = ToStep(step)
  BY <1>2 DEF Types, ScreenTypes, Good, OperationOf, ToStep
<1>3. ASSUME NEW use \in BOOLEAN, mco' = [ToStep(step) EXCEPT !.use = use]
      PROVE  mco'.step = step /\ mco'.back = "none"
  BY <1>3 DEF Types, ScreenTypes, Good, OperationOf, ToStep
<1> QED BY <1>1, <1>2, <1>3

LEMMA LeavesTo ==
  ASSUME mco'.step \notin CopilotSteps, mco'.back = "none"
  PROVE  OperationStep
BY DEF CopilotSteps, OperationStep, Leaves, AwaitsResult, AtResult

\* A run starts of an operation that waits for one, if there is any.
LEMMA StartsOf ==
  ASSUME Types, NEW op, op \in OperationOf(merges), Started(op),
         op.step \notin {"CopilotResult", "ConfirmAbort"}, op.back = "none",
         op = NoOperation => op.step = "none", UNCHANGED <<seen, account>>
  PROVE  OperationStep
<1>1. CASE op = NoOperation
  BY <1>1, LeavesTo DEF Started, CopilotSteps
<1>2. CASE op # NoOperation /\ ~account
  BY <1>2 DEF Started, OperationStep, Starts, AtResult
<1>3. CASE op # NoOperation /\ account
  <2>1. PICK r \in Run : /\ run[r] = NotRunning
                         /\ run' = [run EXCEPT ![r] = Runs("going", seen.merge)]
                         /\ mco' = [op EXCEPT !.run = r]
    BY <1>3 DEF Started
  <2>2. mco'.step = op.step /\ mco'.back = op.back /\ mco'.run = r
    BY <2>1 DEF OperationOf
  <2>3. run'[r] = Runs("going", seen.merge)
    BY <2>1 DEF Types, WorkTypes
  <2> QED BY <2>2, <2>3 DEF OperationStep, Starts, AtResult
<1> QED BY <1>1, <1>2, <1>3

LEMMA CopilotMoves ==
  ASSUME Types, Attempt \/ Stop \/ BackToManual PROVE OperationStep
<1>1. CASE Attempt
  <2> DEFINE op == [ToStep("CopilotLoading") EXCEPT !.use = TRUE]
  <2>1. Started(op) /\ UNCHANGED <<seen, account>>
    BY <1>1 DEF Attempt, fixed
  <2>2. op \in OperationOf(merges) /\ op # NoOperation
    BY <1>1, StepNames, ToStepGood DEF Attempt, Good
  <2>3. op.step = "CopilotLoading" /\ op.back = "none"
    BY DEF Types, ScreenTypes, Good, OperationOf, ToStep
  <2> HIDE DEF op
  <2> QED BY <2>1, <2>2, <2>3, StartsOf
<1>2. CASE Stop \/ BackToManual
  <2>1. mco' = [ToStep("ShowConflicts") EXCEPT !.use = FALSE]
    BY <1>2 DEF Stop, BackToManual, Manual
  <2>2. mco'.step = "ShowConflicts" /\ mco'.back = "none"
    BY <2>1, StepOf
  <2> QED BY <2>2, LeavesTo DEF CopilotSteps
<1> QED BY <1>1, <1>2

LEMMA LoadMoves ==
  ASSUME Types, NEW l \in Load,
         BeginLoad(l) \/ EndLoad(l) \/ LoadFails(l) \/ Trigger(l)
  PROVE  OperationStep
<1>1. CASE BeginLoad(l) \/ LoadFails(l)
  BY <1>1 DEF BeginLoad, LoadFails, dialog, OperationStep, Stays, Visible,
     AwaitsResult, AtResult
<1>2. CASE EndLoad(l)
  <2>1. CASE mco' = mco
    <3>1. UNCHANGED run BY <1>2 DEF EndLoad
    <3>2. Visible' => Visible
      BY <1>2 DEF EndLoad, Cleared, Visible
    <3> QED
      BY <2>1, <3>1, <3>2 DEF OperationStep, Stays, AwaitsResult, AtResult
  <2>2. CASE mco' = Operation("ShowProgress")
    BY <2>2, StepOf, LeavesTo DEF CopilotSteps
  <2> QED BY <1>2, <2>1, <2>2 DEF EndLoad
<1>3. CASE Trigger(l)
  <2> DEFINE auto == ~load[l].use /\ always /\ account
             step == IF auto \/ load[l].use THEN "CopilotLoading"
                                           ELSE "ShowConflicts"
             next == IF mco = NoOperation THEN mco
                     ELSE [ToStep(step) EXCEPT !.use = @ \/ auto]
  <2>1. IF step = "CopilotLoading" THEN Started(next)
        ELSE mco' = next /\ UNCHANGED run
    BY <1>3 DEF Trigger
  <2>2. UNCHANGED <<seen, account>>
    BY <1>3 DEF Trigger, fixed
  <2>3. /\ next \in OperationOf(merges) /\ next.back = "none"
        /\ next.step = IF mco = NoOperation THEN "none" ELSE step
    <3>1. CASE mco = NoOperation
      BY <3>1 DEF Types, ScreenTypes, Good, NoOperation, Operation
    <3>2. CASE mco # NoOperation
      <4>1. step \in {"CopilotLoading", "ShowConflicts", "HideConflicts"}
        OBVIOUS
      <4> HIDE DEF auto, step
      <4>2. (ToStep(step).use \/ auto) \in BOOLEAN OBVIOUS
      <4>3. next = [ToStep(step) EXCEPT !.use = (ToStep(step).use \/ auto)]
        BY <3>2 DEF ToStep
      <4>4. next \in OperationOf(merges)
        BY <3>2, <4>1, <4>2, <4>3, ToStepGood DEF Good
      <4>5. ToStep(step) \in OperationOf(merges)
        BY <3>2, <4>1, ToStepGood DEF Good
      <4>6. ToStep(step).step = step /\ ToStep(step).back = "none"
        BY DEF Types, ScreenTypes, Good, OperationOf, ToStep
      <4> QED BY <3>2, <4>3, <4>4, <4>5, <4>6 DEF OperationOf
    <3> QED BY <3>1, <3>2
  <2>4. step \in {"CopilotLoading", "ShowConflicts"} OBVIOUS
  <2> HIDE DEF next, step
  <2>5. CASE step = "CopilotLoading"
    <3>1. next = NoOperation => next.step = "none"
      BY DEF NoOperation, Operation
    <3> QED BY <2>1, <2>2, <2>3, <2>5, <3>1, StartsOf
  <2>6. CASE step # "CopilotLoading"
    BY <2>1, <2>3, <2>4, <2>6, LeavesTo DEF CopilotSteps
  <2> QED BY <2>5, <2>6
<1> QED BY <1>1, <1>2, <1>3

LEMMA DialogMoves ==
  ASSUME Types, \/ Dismiss \/ OpenBanner \/ LoseBanner \/ ConfirmAbort
                \/ ReturnToConflicts \/ Abort \/ ContinueResult \/ Continue
                \/ FinishMerge \/ StartMerge \/ ChooseNothing
                \/ ChooseBranch \/ HandleConflict \/ SignOut
  PROVE  OperationStep
<1>1. CASE mco' = NoOperation
  BY <1>1, StepOf, LeavesTo DEF NoOperation, CopilotSteps
<1>2. CASE \E step \in Step \ CopilotSteps :
             mco' = Operation(step) \/ mco' = ToStep(step)
  BY <1>2, StepOf, LeavesTo
<1>3. UNCHANGED run
  BY DEF Dismiss, OpenBanner, LoseBanner, ConfirmAbort, ReturnToConflicts,
     Abort, ContinueResult, Continue, FinishMerge, StartMerge, ChooseNothing,
     ChooseBranch, HandleConflict, SignOut, dialog
<1>4. CASE UNCHANGED mco /\ (Visible' => Visible)
  BY <1>3, <1>4 DEF OperationStep, Stays, AwaitsResult, AtResult
<1>5. CASE ConfirmAbort
  <2>1. /\ mco' = [mco EXCEPT !.step = "ConfirmAbort", !.back = mco.step]
        /\ mco.step \in DialogSteps /\ Visible' = Visible
    BY <1>5 DEF ConfirmAbort, InDialog, Visible
  <2>2. /\ mco'.step = "ConfirmAbort" /\ mco'.back = mco.step
        /\ mco'.run = mco.run /\ mco'.result = mco.result
    BY <2>1 DEF Types, ScreenTypes, Good, OperationOf
  <2>3. mco.step # "ConfirmAbort" /\ mco.back = "none"
    BY <2>1 DEF Types, ScreenTypes, Good, Coherent, DialogSteps, CopilotSteps
  <2> QED
    BY <1>3, <2>1, <2>2, <2>3 DEF OperationStep, Stays, AwaitsResult,
       AtResult
<1>6. CASE ReturnToConflicts
  <2>1. /\ mco' = ToStep(mco.back) /\ mco.step = "ConfirmAbort"
        /\ Visible' = Visible
    BY <1>6 DEF ReturnToConflicts, Visible
  <2>2. /\ mco'.step = mco.back /\ mco'.back = "none"
        /\ mco'.run = mco.run /\ mco'.result = mco.result
    BY <2>1 DEF Types, ScreenTypes, Good, OperationOf, ToStep
  <2>3. mco.back # "ConfirmAbort"
    BY StepNames DEF DialogSteps, CopilotSteps
  <2> QED
    BY <1>3, <2>1, <2>2, <2>3 DEF OperationStep, Stays, AwaitsResult,
       AtResult
<1>7. CASE Dismiss
  <2>1. \/ mco' = NoOperation \/ mco' = ToStep("HideConflicts")
        \/ UNCHANGED mco /\ Visible
    BY <1>7 DEF Dismiss, FlowEnded, InDialog, Visible
  <2> QED BY <1>1, <1>2, <1>4, <2>1 DEF Step, CopilotSteps, ConflictSteps
<1>8. CASE OpenBanner
  <2>1. (UNCHANGED mco /\ Visible) \/ mco' = ToStep("ShowConflicts")
    BY <1>8 DEF OpenBanner, Updated, Visible
  <2> QED
    BY <1>2, <1>4, <2>1 DEF Step, CopilotSteps, ConflictSteps, DialogSteps
<1>9. CASE Abort \/ Continue \/ FinishMerge \/ ChooseNothing
  BY <1>1, <1>4, <1>9 DEF Abort, Continue, FinishMerge, ChooseNothing,
     FlowEnded, Visible
<1>10. CASE StartMerge \/ HandleConflict
  BY <1>2, <1>10 DEF StartMerge, HandleConflict, Step, CopilotSteps,
     ConflictSteps, DialogSteps
<1>11. CASE LoseBanner \/ ContinueResult \/ ChooseBranch \/ SignOut
  BY <1>4, <1>11 DEF LoseBanner, ContinueResult, ChooseBranch, SignOut,
     dialog, Visible
<1> QED BY <1>5, <1>6, <1>7, <1>8, <1>9, <1>10, <1>11

LEMMA StepsOfOperations ==
  ASSUME ConflictsConstants, Types, [ConflictsNext]_cfVars
  PROVE  OperationStep
<1>1. CASE \E r \in Run : RunAnswers(r)
  BY <1>1, EndingRun DEF RunAnswers
<1>2. CASE Attempt \/ Stop \/ BackToManual
  BY <1>2, CopilotMoves
<1>3. CASE \E l \in Load :
             BeginLoad(l) \/ EndLoad(l) \/ LoadFails(l) \/ Trigger(l)
  BY <1>3, LoadMoves
<1>4. CASE \/ Dismiss \/ OpenBanner \/ LoseBanner \/ ConfirmAbort
           \/ ReturnToConflicts \/ Abort \/ ContinueResult \/ Continue
           \/ FinishMerge \/ StartMerge \/ ChooseNothing
           \/ ChooseBranch \/ HandleConflict \/ SignOut
  BY <1>4, DialogMoves
<1>5. CASE \/ AbortMerge \/ Apply \/ Commit \/ MergesOutside
           \/ ResolvesOutside \/ EndsOutside \/ UNCHANGED cfVars
  <2>1. UNCHANGED <<dialog, run>>
    BY <1>5 DEF AbortMerge, Apply, Commit, MergesOutside, ResolvesOutside,
       EndsOutside, cfVars
  <2> QED
    BY <2>1 DEF dialog, OperationStep, Stays, AwaitsResult, AtResult, Visible
<1>6. CASE MergeEnds
  <2>1. CASE mco' = NoOperation
    BY <2>1, StepOf, LeavesTo DEF NoOperation, CopilotSteps
  <2>2. CASE mco' = mco
    BY <1>6, <2>2 DEF MergeEnds, OperationStep, Stays, AwaitsResult,
       AtResult, Visible
  <2> QED BY <1>6, <2>1, <2>2 DEF MergeEnds
<1> QED BY <1>1, <1>2, <1>3, <1>4, <1>5, <1>6 DEF ConflictsNext

LEMMA StepAtWork ==
  ASSUME ConflictsConstants, Types, LoadingIsAtWork, [ConflictsNext]_cfVars
  PROVE  LoadingIsAtWork'
<1> SUFFICES ASSUME AwaitsResult', account'
             PROVE  mco'.run # NoRun /\ run'[mco'.run].at = "going"
  BY DEF LoadingIsAtWork
<1>1. account
  <2>1. account' = account \/ ~account'
    BY DEF ConflictsNext, RunAnswers, RunEnds, Attempt, Stop, BackToManual,
       BeginLoad, EndLoad, LoadFails, Trigger, Dismiss, OpenBanner,
       LoseBanner, ConfirmAbort, ReturnToConflicts, Abort, AbortMerge,
       ContinueResult, Apply, Continue, Commit, FinishMerge, StartMerge,
       ChooseNothing, ChooseBranch, MergeEnds, HandleConflict, MergesOutside,
       ResolvesOutside, EndsOutside, SignOut, cfVars, fixed
  <2> QED BY <2>1
<1>2. OperationStep BY StepsOfOperations
<1>3. CASE Starts
  BY <1>1, <1>3 DEF Starts, Runs, ConflictsConstants
<1>4. CASE Stays
  BY <1>1, <1>4 DEF Stays, LoadingIsAtWork
<1>5. CASE OtherEnds
  <2>1. AwaitsResult BY <1>5 DEF OtherEnds, AwaitsResult
  <2>2. mco.run \in Run /\ run[mco.run].at = "going"
    BY <1>1, <2>1 DEF LoadingIsAtWork, Types, ScreenTypes, Good, OperationOf
  <2>3. run'[mco.run] = run[mco.run]
    BY <1>5, <2>2 DEF OtherEnds, Types, WorkTypes
  <2> QED BY <1>5, <2>2, <2>3 DEF OtherEnds, ConflictsConstants
<1>6. CASE HasResult \/ Leaves
  BY <1>6 DEF HasResult, Leaves
<1>7. CASE Forgets
  BY <1>1, <1>7 DEF Forgets, LoadingIsAtWork
<1> QED BY <1>2, <1>3, <1>4, <1>5, <1>6, <1>7 DEF OperationStep

LEMMA InitAtWork == ConflictsInit => LoadingIsAtWork
BY DEF ConflictsInit, LoadingIsAtWork, AwaitsResult, NoOperation, Operation

\* Whoever is shown that Copilot is at work has a run at work, which was not
\* stopped, unless he signed out.
THEOREM WhoWaitsIsWorkedFor ==
  ASSUME ConflictsConstants PROVE ConflictsSpec => []LoadingIsAtWork
<1> DEFINE Inv == Types /\ LoadingIsAtWork
<1>1. ConflictsInit => Inv BY InitTypes, InitAtWork
<1>2. Inv /\ [ConflictsNext]_cfVars => Inv' BY StepTypes, StepAtWork
<1> QED BY <1>1, <1>2, PTL DEF ConflictsSpec

(*-------------------------------------------------------------------------*)
(* The merge in git, and what the statuses say of it.                      *)

MergeStep ==
  \/ UNCHANGED outside \/ NewConflict
  \/ disk' = Clean /\ UNCHANGED <<merges, swapped>>
  \/ /\ disk.merge # 0 /\ UNCHANGED <<merges, swapped>>
     /\ \E file \in {"user", "copilot"} : disk' = [disk EXCEPT !.file = file]

StatusStep ==
  /\ UNCHANGED outside
  /\ \E l \in Load, new \in LoadOf(merges) :
       /\ load' = [load EXCEPT ![l] = new] /\ new.status \in {disk, Clean}
       /\ seen' \in {seen, load[l].status}

LEMMA LoadsMove ==
  ASSUME Types, NEW l \in Load,
         BeginLoad(l) \/ EndLoad(l) \/ LoadFails(l) \/ Trigger(l)
  PROVE  StatusStep
<1>1. UNCHANGED outside /\ mco.use \in BOOLEAN /\ disk \in StatusOf(merges)
  BY DEF BeginLoad, EndLoad, LoadFails, Trigger, Types, ScreenTypes, Good,
     OperationOf, DiskTypes
<1>2. Clean \in StatusOf(merges) /\ NotLoading \in LoadOf(merges)
  BY CleanType DEF Types, DiskTypes
<1>3. CASE BeginLoad(l)
  <2>1. Loading("reading", disk, FALSE) \in LoadOf(merges)
    BY <1>1 DEF Loading, LoadOf
  <2> QED BY <1>1, <1>3, <2>1 DEF BeginLoad, StatusStep, Loading
<1>4. CASE EndLoad(l)
  <2>1. Loading("triggering", Clean, mco.use) \in LoadOf(merges)
    BY <1>1, <1>2 DEF Loading, LoadOf
  <2>2. seen' = load[l].status
        /\ \/ load' = [load EXCEPT ![l] = NotLoading]
           \/ load' = [load EXCEPT ![l] = Loading("triggering", Clean, mco.use)]
    BY <1>4 DEF EndLoad
  <2> QED BY <1>1, <1>2, <2>1, <2>2 DEF StatusStep, NotLoading, Loading
<1>5. CASE LoadFails(l) \/ Trigger(l)
  <2>1. seen' = seen /\ load' = [load EXCEPT ![l] = NotLoading]
    BY <1>5 DEF LoadFails, Trigger
  <2> QED BY <1>1, <1>2, <2>1 DEF StatusStep, NotLoading, Loading
<1> QED BY <1>3, <1>4, <1>5

LEMMA StepsOfMerges ==
  ASSUME Types, [ConflictsNext]_cfVars
  PROVE  StatusStep \/ (UNCHANGED <<seen, load>> /\ MergeStep)
<1>1. CASE \E l \in Load :
             BeginLoad(l) \/ EndLoad(l) \/ LoadFails(l) \/ Trigger(l)
  BY <1>1, LoadsMove
<1>2. CASE ~\E l \in Load :
             BeginLoad(l) \/ EndLoad(l) \/ LoadFails(l) \/ Trigger(l)
  <2>1. UNCHANGED <<seen, load>>
    BY <1>2 DEF ConflictsNext, RunAnswers, RunEnds, Attempt, Stop,
       BackToManual, Dismiss, OpenBanner, LoseBanner, ConfirmAbort,
       ReturnToConflicts, Abort, AbortMerge, ContinueResult, Apply, Continue,
       Commit, FinishMerge, StartMerge, ChooseNothing, ChooseBranch,
       MergeEnds, HandleConflict, MergesOutside, ResolvesOutside,
       EndsOutside, SignOut, cfVars
  <2>2. \/ UNCHANGED outside
        \/ AbortMerge \/ Apply \/ Commit \/ MergeEnds \/ MergesOutside
        \/ ResolvesOutside \/ EndsOutside
    BY <1>2 DEF ConflictsNext, RunAnswers, RunEnds, Attempt, Stop,
       BackToManual, Dismiss, OpenBanner, LoseBanner, ConfirmAbort,
       ReturnToConflicts, Abort, ContinueResult, Continue, FinishMerge,
       StartMerge, ChooseNothing, ChooseBranch, HandleConflict, SignOut,
       cfVars
  <2>3. CASE AbortMerge \/ Commit \/ EndsOutside
    BY <2>3 DEF AbortMerge, Commit, EndsOutside, MergeStep, outside
  <2>4. CASE Apply \/ ResolvesOutside
    BY <2>4 DEF Apply, ResolvesOutside, MergeStep, outside
  <2>5. CASE MergeEnds \/ MergesOutside
    BY <2>5 DEF MergeEnds, MergesOutside, MergeStep
  <2> QED BY <2>1, <2>2, <2>3, <2>4, <2>5 DEF MergeStep
<1> QED BY <1>1, <1>2

\* As long as no merge began too early, all that is known of one is of the
\* latest.
Latest(number) == number \in {0, merges}
Numbers == ~swapped => /\ Latest(disk.merge) /\ Latest(seen.merge)
                       /\ \A l \in Load : Latest(load[l].status.merge)

\* A status that says that there is no merge has no file, and one that saw the
\* file without its markers is right about the file.
Known(status) ==
  /\ status.merge = 0 => status.file = "markers"
  /\ status.file # "markers" /\ disk.merge # 0 /\ ~swapped
       => disk.file # "markers"
FilesStay == /\ disk.merge = 0 => disk = Clean
             /\ Known(seen) /\ \A l \in Load : Known(load[l].status)

LEMMA StatusFields ==
  ASSUME Types
  PROVE  /\ merges \in Nat /\ disk.merge \in 0 .. merges
         /\ disk.file \in File /\ seen.merge \in 0 .. merges
         /\ Clean.merge = 0 /\ Clean.file = "markers"
         /\ \A l \in Load : load[l].status.merge \in 0 .. merges
BY DEF Types, DiskTypes, WorkTypes, StatusOf, LoadOf, Clean, At

LEMMA StepNumbers ==
  ASSUME Types, Numbers, [ConflictsNext]_cfVars PROVE Numbers'
<1> SUFFICES ASSUME ~swapped'
             PROVE  /\ Latest(disk.merge)' /\ Latest(seen.merge)'
                    /\ \A l \in Load : Latest(load[l].status.merge)'
  BY DEF Numbers
<1>1. StatusStep \/ (UNCHANGED <<seen, load>> /\ MergeStep)
  BY StepsOfMerges
<1>2. CASE StatusStep
  <2>1. PICK l \in Load, new \in LoadOf(merges) :
          /\ load' = [load EXCEPT ![l] = new] /\ new.status \in {disk, Clean}
          /\ seen' \in {seen, load[l].status}
    BY <1>2 DEF StatusStep
  <2>2. /\ Latest(disk.merge) /\ Latest(seen.merge) /\ merges' = merges
        /\ \A k \in Load : Latest(load[k].status.merge)
        /\ disk' = disk
    BY <1>2 DEF StatusStep, outside, Numbers
  <2>3. Latest(Clean.merge) BY StatusFields DEF Latest
  <2>4. \A k \in Load : load'[k] = IF k = l THEN new ELSE load[k]
    BY <2>1 DEF Types, WorkTypes
  <2>5. Latest(seen.merge)'
    BY <2>1, <2>2 DEF Latest
  <2> QED BY <2>1, <2>2, <2>3, <2>4, <2>5 DEF Latest
<1>3. CASE UNCHANGED <<seen, load>> /\ NewConflict
  <2>1. /\ ~swapped /\ seen.merge = 0 /\ disk' = At(merges + 1, "markers")
        /\ \A l \in Load : load[l].status.merge = 0
        /\ merges' = merges + 1
    BY <1>3 DEF NewConflict
  <2>2. disk'.merge = merges' BY <2>1 DEF At
  <2> QED BY <1>3, <2>1, <2>2 DEF Latest
<1>4. CASE UNCHANGED <<seen, load>> /\ MergeStep /\ ~NewConflict
  <2>1. UNCHANGED <<merges, swapped>>
    BY <1>4 DEF MergeStep, outside
  <2>2. disk'.merge \in {0, disk.merge}
    BY <1>4, StatusFields DEF MergeStep, outside, Types, DiskTypes, StatusOf
  <2> QED BY <1>4, <2>1, <2>2 DEF Numbers, Latest
<1> QED BY <1>1, <1>2, <1>3, <1>4

LEMMA StepFiles ==
  ASSUME Types, FilesStay, [ConflictsNext]_cfVars PROVE FilesStay'
<1>1. StatusStep \/ (UNCHANGED <<seen, load>> /\ MergeStep)
  BY StepsOfMerges
<1>2. CASE StatusStep
  <2>1. PICK l \in Load, new \in LoadOf(merges) :
          /\ load' = [load EXCEPT ![l] = new] /\ new.status \in {disk, Clean}
          /\ seen' \in {seen, load[l].status}
    BY <1>2 DEF StatusStep
  <2>2. UNCHANGED <<disk, swapped>> BY <1>2 DEF StatusStep, outside
  <2>3. \A status : Known(status) => Known(status)'
    BY <2>2 DEF Known
  <2>4. Known(disk) /\ Known(Clean)
    BY StatusFields DEF Known, FilesStay
  <2>5. \A k \in Load : load'[k] = IF k = l THEN new ELSE load[k]
    BY <2>1 DEF Types, WorkTypes
  <2>6. \A k \in Load : Known(load'[k].status)
    BY <2>1, <2>4, <2>5 DEF FilesStay
  <2>7. Known(seen')
    BY <2>1 DEF FilesStay
  <2> QED BY <2>2, <2>6, <2>7 DEF FilesStay, Known
<1>3. CASE UNCHANGED <<seen, load>> /\ NewConflict
  <2>1. disk'.merge = merges + 1 /\ disk'.merge # 0
    BY <1>3, StatusFields DEF NewConflict, At
  <2>2. ~swapped' => /\ seen.file = "markers"
                     /\ \A l \in Load : load[l].status.file = "markers"
    BY <1>3 DEF NewConflict, FilesStay, Known
  <2> QED BY <1>3, <2>1, <2>2 DEF FilesStay, Known
<1>4. CASE UNCHANGED <<seen, load>> /\ MergeStep /\ ~NewConflict
  <2>1. CASE disk' = disk
    BY <1>4, <2>1 DEF MergeStep, outside, FilesStay, Known
  <2>2. CASE disk' = Clean
    BY <1>4, <2>2, StatusFields DEF FilesStay, Known
  <2>3. CASE /\ disk.merge # 0
             /\ \E file \in {"user", "copilot"} :
                  disk' = [disk EXCEPT !.file = file]
    <3>1. disk'.merge # 0 /\ disk'.file # "markers"
      BY <2>3 DEF Types, DiskTypes, StatusOf
    <3> QED BY <1>4, <3>1 DEF FilesStay, Known
  <2> QED BY <1>4, <2>1, <2>2, <2>3 DEF MergeStep, outside
<1> QED BY <1>1, <1>2, <1>3, <1>4

\* What an operation on the screen, or behind the banner, shows as resolved is
\* the merge that is seen, and so is what its run is about.
OfThisMerge ==
  Visible /\ ~swapped /\ account =>
    /\ AtResult => seen.merge # 0 /\ mco.result = seen.merge
    /\ AwaitsResult => run[mco.run].merge \in {0, seen.merge}

LEMMA Persists ==
  ASSUME Types, [ConflictsNext]_cfVars
  PROVE  (~swapped' => ~swapped) /\ (account' => account)
<1>1. account' => account
  <2>1. account' = account \/ ~account'
    BY DEF ConflictsNext, RunAnswers, RunEnds, Attempt, Stop, BackToManual,
       BeginLoad, EndLoad, LoadFails, Trigger, Dismiss, OpenBanner,
       LoseBanner, ConfirmAbort, ReturnToConflicts, Abort, AbortMerge,
       ContinueResult, Apply, Continue, Commit, FinishMerge, StartMerge,
       ChooseNothing, ChooseBranch, MergeEnds, HandleConflict, MergesOutside,
       ResolvesOutside, EndsOutside, SignOut, cfVars, fixed
  <2> QED BY <2>1
<1>2. ~swapped' => ~swapped
  BY StepsOfMerges DEF StatusStep, MergeStep, NewConflict, outside
<1> QED BY <1>1, <1>2

LEMMA LoadOfThisMerge ==
  ASSUME Types, Numbers, OfThisMerge, NEW l \in Load, EndLoad(l)
  PROVE  OfThisMerge'
<1> SUFFICES ASSUME Visible', ~swapped', account'
             PROVE  /\ AtResult' => seen'.merge # 0 /\ mco'.result = seen'.merge
                    /\ AwaitsResult' => run'[mco'.run].merge \in {0, seen'.merge}
  BY DEF OfThisMerge
<1>1. /\ ~swapped /\ account /\ UNCHANGED run /\ seen' = load[l].status
  BY DEF EndLoad, outside, fixed
<1>2. CASE mco' # mco
  <2>1. mco' = Operation("ShowProgress") BY <1>2 DEF EndLoad
  <2> QED BY <2>1, StepOf DEF AtResult, AwaitsResult
<1>3. CASE mco' = mco
  <2>1. AtResult' = AtResult /\ AwaitsResult' = AwaitsResult
    BY <1>3 DEF AtResult, AwaitsResult
  <2>2. CASE load[l].status.merge = 0 \/ mco = NoOperation
    <3>1. Cleared BY <2>2 DEF EndLoad
    <3>2. Starting BY <3>1 DEF Cleared, Visible
    <3>3. mco.step \in {"ChooseBranch", "ShowProgress"} /\ mco.back = "none"
      BY <3>2 DEF Starting, Types, ScreenTypes, Good, Coherent
    <3> QED BY <2>1, <3>3 DEF AtResult, AwaitsResult
  <2>3. CASE load[l].status.merge # 0 /\ mco # NoOperation
    <3>1. Visible BY <2>3 DEF EndLoad, Visible
    <3>2. seen'.merge = merges /\ seen.merge \in {0, merges}
      BY <1>1, <2>3 DEF Numbers, Latest
    <3>3. merges # 0 BY <1>1, <2>3, <3>2
    <3>4. AtResult => seen.merge # 0 /\ mco.result = seen.merge
      BY <1>1, <3>1 DEF OfThisMerge
    <3>5. AwaitsResult => run[mco.run].merge \in {0, seen.merge}
      BY <1>1, <3>1 DEF OfThisMerge
    <3> QED BY <1>1, <1>3, <2>1, <3>2, <3>3, <3>4, <3>5
  <2> QED BY <2>2, <2>3
<1> QED BY <1>2, <1>3

LEMMA StepOfThisMerge ==
  ASSUME ConflictsConstants, Types, LoadingIsAtWork, Numbers, OfThisMerge,
         [ConflictsNext]_cfVars
  PROVE  OfThisMerge'
<1>1. CASE \E l \in Load : EndLoad(l)
  BY <1>1, LoadOfThisMerge
<1>2. CASE ~\E l \in Load : EndLoad(l)
  <2>1. UNCHANGED seen
    BY <1>2 DEF ConflictsNext, RunAnswers, RunEnds, Attempt, Stop,
       BackToManual, BeginLoad, LoadFails, Trigger, Dismiss, OpenBanner,
       LoseBanner, ConfirmAbort, ReturnToConflicts, Abort, AbortMerge,
       ContinueResult, Apply, Continue, Commit, FinishMerge, StartMerge,
       ChooseNothing, ChooseBranch, MergeEnds, HandleConflict, MergesOutside,
       ResolvesOutside, EndsOutside, SignOut, cfVars
  <2> SUFFICES ASSUME Visible', ~swapped', account'
      PROVE  /\ AtResult' => seen.merge # 0 /\ mco'.result = seen.merge
             /\ AwaitsResult' => run'[mco'.run].merge \in {0, seen.merge}
    BY <2>1 DEF OfThisMerge
  <2>2. ~swapped /\ account BY Persists
  <2>3. OperationStep BY StepsOfOperations
  <2>4. CASE Leaves
    BY <2>4 DEF Leaves
  <2>5. CASE Starts
    BY <2>2, <2>5 DEF Starts, Runs
  <2>6. CASE Visible /\ Stays
    BY <2>2, <2>6 DEF Stays, OfThisMerge
  <2>7. CASE Visible /\ OtherEnds
    <3>1. AtResult' = AtResult /\ AwaitsResult' = AwaitsResult /\ mco' = mco
      BY <2>7 DEF OtherEnds, AtResult, AwaitsResult
    <3>2. AwaitsResult => run'[mco.run] = run[mco.run]
      <4>1. AwaitsResult => mco.run \in Run
        BY <2>2 DEF LoadingIsAtWork, Types, ScreenTypes, Good, OperationOf
      <4> QED BY <2>7, <4>1 DEF OtherEnds, Types, WorkTypes
    <3> QED BY <2>2, <2>7, <3>1, <3>2 DEF OfThisMerge
  <2>8. CASE Visible /\ HasResult
    BY <2>2, <2>8 DEF HasResult, OfThisMerge
  <2>9. CASE Visible /\ Forgets
    <3>1. ~AwaitsResult BY <2>2, <2>9 DEF Forgets, LoadingIsAtWork
    <3> QED BY <2>2, <2>9, <3>1 DEF Forgets, OfThisMerge
  <2> QED BY <2>3, <2>4, <2>5, <2>6, <2>7, <2>8, <2>9 DEF OperationStep
<1> QED BY <1>1, <1>2

\* Once the user went on, the file of the merge is without markers.
Settled == ending \in {"continue", "commit"} /\ ~swapped /\ disk.merge # 0
             => disk.file # "markers"

LEMMA StepSettled ==
  ASSUME Types, FilesStay, Settled, [ConflictsNext]_cfVars PROVE Settled'
<1> SUFFICES ASSUME ending' \in {"continue", "commit"}, ~swapped',
                    disk'.merge # 0
             PROVE  disk'.file # "markers"
  BY DEF Settled
<1>1. ~swapped BY Persists
<1>2. CASE Apply
  <2>1. disk.merge # 0 BY <1>2 DEF Apply
  <2>2. disk' = [disk EXCEPT !.file = "copilot"] BY <1>2, <2>1 DEF Apply
  <2> QED BY <2>2 DEF Types, DiskTypes, StatusOf
<1>3. CASE ContinueResult \/ Continue
  <2>1. UNCHANGED outside /\ (Kept \/ ending = "continue")
    BY <1>3 DEF ContinueResult, Continue
  <2> QED
    BY <1>1, <2>1 DEF outside, Kept, Settled, FilesStay, Known
<1>4. CASE ending' = ending
  <2>1. \/ UNCHANGED outside \/ NewConflict \/ disk' = Clean
        \/ /\ disk.merge # 0
           /\ \E file \in {"user", "copilot"} :
                disk' = [disk EXCEPT !.file = file]
    BY StepsOfMerges DEF StatusStep, MergeStep
  <2>2. CASE UNCHANGED outside
    BY <1>1, <1>4, <2>2 DEF outside, Settled
  <2>3. CASE NewConflict
    BY <1>4, <2>3 DEF NewConflict
  <2>4. CASE disk' = Clean
    BY <2>4, StatusFields
  <2>5. CASE /\ disk.merge # 0
             /\ \E file \in {"user", "copilot"} :
                  disk' = [disk EXCEPT !.file = file]
    BY <2>5 DEF Types, DiskTypes, StatusOf
  <2> QED BY <2>1, <2>2, <2>3, <2>4, <2>5
<1>5. \/ Apply \/ ContinueResult \/ Continue \/ ending' = ending
      \/ ending' \notin {"continue", "commit"}
  BY DEF ConflictsNext, RunAnswers, RunEnds, Attempt, Stop, BackToManual,
     BeginLoad, EndLoad, LoadFails, Trigger, Dismiss, OpenBanner, LoseBanner,
     ConfirmAbort, ReturnToConflicts, Abort, AbortMerge, Commit, FinishMerge,
     StartMerge, ChooseNothing, ChooseBranch, MergeEnds, HandleConflict,
     MergesOutside, ResolvesOutside, EndsOutside, SignOut, cfVars
<1> QED BY <1>2, <1>3, <1>4, <1>5

Inv == Types /\ LoadingIsAtWork /\ Numbers /\ OfThisMerge /\ FilesStay
         /\ Settled

LEMMA InitInv == ASSUME ConflictsConstants, ConflictsInit PROVE Inv
<1>1. Types /\ LoadingIsAtWork BY InitTypes, InitAtWork
<1>2. Clean.merge = 0 /\ Clean.file = "markers" BY DEF Clean, At
<1>3. NotLoading.status = Clean BY DEF NotLoading, Loading
<1>4. Numbers
  BY <1>2, <1>3 DEF ConflictsInit, Numbers, Latest
<1>5. FilesStay
  BY <1>2, <1>3 DEF ConflictsInit, FilesStay, Known
<1>6. OfThisMerge /\ Settled
  BY DEF ConflictsInit, OfThisMerge, Visible, Settled
<1> QED BY <1>1, <1>4, <1>5, <1>6 DEF Inv

LEMMA StepInv ==
  ASSUME ConflictsConstants, Inv, [ConflictsNext]_cfVars PROVE Inv'
BY StepTypes, StepAtWork, StepNumbers, StepOfThisMerge, StepFiles,
   StepSettled DEF Inv

\* What Copilot is shown to have resolved is the merge that is there, whatever
\* runs were stopped and merges aborted and begun again meanwhile, as long as
\* nobody signs out.
THEOREM ResultsAreOfTheirMerge ==
  ASSUME ConflictsConstants PROVE ConflictsSpec => []ResultIsOfThisMerge
<1>1. ConflictsInit => Inv BY InitInv
<1>2. Inv /\ [ConflictsNext]_cfVars => Inv' BY StepInv
<1>3. Inv => ResultIsOfThisMerge
  BY DEF Inv, OfThisMerge, Visible, AtResult, ResultIsOfThisMerge
<1> QED BY <1>1, <1>2, <1>3, PTL DEF ConflictsSpec

\* A merge is committed without markers, whoever resolved it, and whatever the
\* status said meanwhile.
THEOREM MarkersStayOut ==
  ASSUME ConflictsConstants PROVE ConflictsSpec => NoMarkersCommitted
<1>1. ConflictsInit => Inv BY InitInv
<1>2. Inv /\ [ConflictsNext]_cfVars => Inv' BY StepInv
<1>3. Inv /\ [ConflictsNext]_cfVars
        => [Commit /\ disk' # disk /\ ~swapped => disk.file # "markers"]_cfVars
  <2> SUFFICES ASSUME Inv, Commit, disk' # disk, ~swapped
               PROVE  disk.file # "markers"
    OBVIOUS
  <2>1. disk # Clean /\ ending = "commit" BY DEF Commit
  <2>2. disk.merge # 0 BY <2>1 DEF Inv, FilesStay
  <2> QED BY <2>1, <2>2 DEF Inv, Settled
<1> QED BY <1>1, <1>2, <1>3, PTL DEF ConflictsSpec, NoMarkersCommitted
=============================================================================
