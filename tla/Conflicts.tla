----------------------------- MODULE Conflicts ------------------------------
(***************************************************************************)
(* A merge with conflicts in the selected repository: the multi-commit     *)
(* operation, its dialog and banner, the loads of git's status that open   *)
(* and close both, and the runs that have Copilot resolve the conflicts.   *)
(*                                                                         *)
(* Merges that end in a conflict are numbered; each has one file.  Loads,  *)
(* runs, and what the user began go on across each other's awaits, and a   *)
(* merge may also begin, be resolved and be aborted in a terminal.         *)
(***************************************************************************)
EXTENDS Naturals, FiniteSets

CONSTANTS Load,      \* status loads under way at a time there is room for
          Run,       \* runs of Copilot there is room for
          NoRun,
          MaxMerges \* bound: merges with conflicts

ConflictsConstants == NoRun \notin Run /\ MaxMerges \in Nat \ {0}

VARIABLES
  disk,    \* the merge in conflict, 0 when there is none, and its file
  merges,  \* that there have been
  seen,    \* disk as conflictState and the working directory have it
  load,    \* the loads of the status
  mco,     \* multiCommitOperationState
  popup,   \* the dialog of the operation is open
  banner,  \* ConflictsFound: it opens the conflicts, or what there is
  run,     \* the runs of Copilot
  account, \* an account with Copilot is signed in
  always,  \* Copilot is always to be used, and its disclaimer was confirmed
  merging, \* git merges, for the dialog that chooses a branch
  ending,  \* what the user's "continue" or "abort" is at
  swapped  \* history: a merge began before the program was done with the last

outside == <<disk, merges, swapped>>
dialog == <<mco, popup, banner>>
fixed == <<account, always>>
cfVars == <<outside, seen, load, dialog, run, fixed, merging, ending>>

File == {"markers", "user", "copilot"}
At(merge, file) == [merge |-> merge, file |-> file]
Clean == At(0, "markers")

\* A load knows the status it read, and later whether Copilot was used.
Loading(at, status, use) == [at |-> at, status |-> status, use |-> use]
NotLoading == Loading("idle", Clean, FALSE)

Runs(at, merge) == [at |-> at, merge |-> merge]
NotRunning == Runs("idle", 0)

\* `result` is the merge that copilotResolutions are of; `run` owns the
\* controller; `back` is returnToStepKind.
Operation(step) == [step |-> step, back |-> "none", use |-> FALSE,
                    run |-> NoRun, result |-> 0]
NoOperation == Operation("none")
CopilotSteps == {"CopilotLoading", "CopilotResult"}
DialogSteps == {"ShowConflicts"} \cup CopilotSteps
\* conflictSteps
ConflictSteps == DialogSteps \cup {"ConfirmAbort"}
Step == ConflictSteps \cup {"none", "ChooseBranch", "ShowProgress",
                            "HideConflicts"}

ConflictsInit ==
  /\ disk = Clean /\ merges = 0 /\ swapped = FALSE /\ seen = Clean
  /\ load = [l \in Load |-> NotLoading]
  /\ mco = NoOperation /\ popup = FALSE /\ banner = "none"
  /\ run = [r \in Run |-> NotRunning]
  /\ account = TRUE /\ always \in BOOLEAN
  /\ merging = "no" /\ ending = "none"

\* updateMultiCommitOperationState, which leaves no operation as it is.
Updated(new) == mco' = IF mco = NoOperation THEN mco ELSE new
ToStep(step) == [mco EXCEPT !.step = step, !.back = "none"]
Manual == [ToStep("ShowConflicts") EXCEPT !.use = FALSE]

\* onFlowEnded
FlowEnded == mco' = NoOperation /\ popup' = FALSE

-----------------------------------------------------------------------------
(* Copilot.                                                                *)

\* _startCopilotConflictResolution, of an operation that is at its step.
Started(new) ==
  IF new = NoOperation \/ ~account THEN mco' = new /\ UNCHANGED run
  ELSE \E r \in Run :
         /\ run[r] = NotRunning
         /\ run' = [run EXCEPT ![r] = Runs("going", seen.merge)]
         /\ mco' = [new EXCEPT !.run = r]

\* Mutant: no run looks for another.
MutantOwns(r) == mco # NoOperation
\* ownsCurrentRun
Owns(r) == mco.run = r

AwaitsResult == \/ mco.step = "CopilotLoading"
                \/ mco.step = "ConfirmAbort" /\ mco.back = "CopilotLoading"

\* Mutant: who is about to abort is told nothing.
MutantAnswered(r) ==
  mco' = IF mco.step = "CopilotLoading"
         THEN [ToStep("CopilotResult") EXCEPT !.result = run[r].merge,
                                              !.run = NoRun]
         ELSE IF mco.step = "ConfirmAbort" THEN [mco EXCEPT !.run = NoRun]
         ELSE mco
\* There is a result: it is shown, or shown on return from ConfirmAbort.
Answered(r) ==
  mco' = IF mco.step = "CopilotLoading"
         THEN [ToStep("CopilotResult") EXCEPT !.result = run[r].merge,
                                              !.run = NoRun]
         ELSE IF AwaitsResult
         THEN [mco EXCEPT !.back = "CopilotResult", !.result = run[r].merge,
                          !.run = NoRun]
         ELSE mco

\* _resolveConflictsWithCopilot is through.
RunEnds(r, outcome) ==
  /\ run[r].at # "idle" /\ run' = [run EXCEPT ![r] = NotRunning]
  /\ outcome = "result" => run[r].merge # 0
  /\ \/ /\ outcome # "fails" /\ run[r].at = "stopped"
        /\ mco' = IF Owns(r) THEN [mco EXCEPT !.run = NoRun] ELSE mco
     \/ /\ outcome = "result" /\ run[r].at = "going"
        /\ IF Owns(r) THEN Answered(r) ELSE UNCHANGED mco
     \/ /\ outcome = "null" /\ run[r].at = "going"
        /\ mco' = IF Owns(r) /\ AwaitsResult
                  THEN [Manual EXCEPT !.run = NoRun] ELSE mco
     \/ /\ outcome = "fails" /\ run[r].at = "going"
        /\ mco' = IF Owns(r)
                  THEN [Manual EXCEPT !.run = NoRun, !.result = 0] ELSE mco
  /\ UNCHANGED <<outside, seen, load, popup, banner, fixed, merging, ending>>

\* The conflicts dialog: _attemptCopilotConflictResolution.
Attempt ==
  /\ popup /\ mco.step = "ShowConflicts" /\ account
  /\ Started([ToStep("CopilotLoading") EXCEPT !.use = TRUE])
  /\ UNCHANGED <<outside, seen, load, popup, banner, fixed, merging, ending>>

\* The dialog of a run: onCancel, with _abortCopilotConflictResolution.
Stop ==
  /\ popup /\ mco.step = "CopilotLoading" /\ mco' = Manual
  /\ run' = [r \in Run |-> IF r = mco.run /\ run[r].at = "going"
                           THEN [run[r] EXCEPT !.at = "stopped"] ELSE run[r]]
  /\ UNCHANGED <<outside, seen, load, popup, banner, fixed, merging, ending>>

\* The dialog of a result: onBackToManual.
BackToManual ==
  /\ popup /\ mco.step = "CopilotResult" /\ ending = "none" /\ mco' = Manual
  /\ UNCHANGED <<outside, seen, load, popup, banner, run, fixed, merging,
                 ending>>

-----------------------------------------------------------------------------
(* Loading the status.                                                     *)

\* loadStatus, of git.
BeginLoad(l) ==
  /\ load[l].at = "idle"
  /\ load' = [load EXCEPT ![l] = Loading("reading", disk, FALSE)]
  /\ UNCHANGED <<outside, seen, dialog, run, fixed, merging, ending>>

\* Mutant: whatever the operation is at, its dialog may just be opening.
MutantStarting == popup /\ mco # NoOperation
\* userIsStartingMultiCommitOperation
Starting == popup /\ mco.step \in {"ChooseBranch", "ShowProgress"}

\* clearConflictsFlowVisuals
Cleared == IF Starting THEN UNCHANGED <<popup, banner>>
           ELSE popup' = FALSE /\ banner' = "none"

\* Mutant: an operation at such a step is a dialog on the screen.
MutantInFlow == banner # "none" \/ mco.step \in ConflictSteps
\* displayingBanner, isConflictsFlow
InFlow == banner # "none" \/ (popup /\ mco.step \in ConflictSteps)

\* The status is there: updateConflictState,
\* initializeMultiCommitOperationIfConflictsFound, and _triggerConflictsFlow
\* until it asks whose branch is merged.
EndLoad(l) ==
  LET status == load[l].status
      known == mco # NoOperation
  IN /\ load[l].at = "reading" /\ seen' = status
     /\ IF status.merge = 0 \/ ~known THEN Cleared
        ELSE UNCHANGED <<popup, banner>>
     /\ mco' = IF status.merge = 0 \/ known THEN mco
               ELSE Operation("ShowProgress")
     /\ load' = [load EXCEPT ![l] =
                   IF status.merge = 0 \/ (known /\ InFlow) THEN NotLoading
                   ELSE Loading("triggering", Clean, mco.use)]
     /\ UNCHANGED <<outside, run, fixed, merging, ending>>

\* git does not tell.
LoadFails(l) ==
  /\ load[l].at = "reading" /\ load' = [load EXCEPT ![l] = NotLoading]
  /\ UNCHANGED <<outside, seen, dialog, run, fixed, merging, ending>>

\* The rest of _triggerConflictsFlow, with what it found of the operation.
Trigger(l) ==
  LET auto == ~load[l].use /\ always /\ account
      step == IF auto \/ load[l].use THEN "CopilotLoading" ELSE "ShowConflicts"
      next == IF mco = NoOperation THEN mco
              ELSE [ToStep(step) EXCEPT !.use = @ \/ auto]
  IN /\ load[l].at = "triggering" /\ load' = [load EXCEPT ![l] = NotLoading]
     /\ IF step = "CopilotLoading" THEN Started(next)
        ELSE mco' = next /\ UNCHANGED run
     /\ popup' = TRUE
     /\ UNCHANGED <<outside, seen, banner, fixed, merging, ending>>

-----------------------------------------------------------------------------
(* The dialogs of the conflicts, and the banner.                           *)

InDialog == popup /\ mco.step \in DialogSteps /\ ending = "none"

\* onConflictsDialogDismissed, onInvokeConflictsDialogDismissed
Dismiss ==
  /\ InDialog
  /\ IF seen.merge = 0 THEN FlowEnded /\ UNCHANGED banner
     ELSE /\ popup' = FALSE
          /\ IF mco.step \in CopilotSteps
             THEN banner' = "opens" /\ UNCHANGED mco
             ELSE banner' = "conflicts" /\ mco' = ToStep("HideConflicts")
  /\ UNCHANGED <<outside, seen, load, run, fixed, merging, ending>>

\* onOpenConflictsDialog, of both
OpenBanner ==
  /\ banner # "none" /\ banner' = "none"
  /\ IF banner = "conflicts"
     THEN IF seen.merge = 0 THEN UNCHANGED <<mco, popup>>
          ELSE Updated(ToStep("ShowConflicts")) /\ popup' = TRUE
     ELSE popup' = TRUE /\ UNCHANGED mco
  /\ UNCHANGED <<outside, seen, load, run, fixed, merging, ending>>

\* Another banner is shown instead.
LoseBanner ==
  /\ banner # "none" /\ banner' = "none"
  /\ UNCHANGED <<outside, seen, load, mco, popup, run, fixed, merging, ending>>

\* onConfirmingAbort, with something resolved.
ConfirmAbort ==
  /\ InDialog
  /\ mco' = [mco EXCEPT !.step = "ConfirmAbort", !.back = mco.step]
  /\ UNCHANGED <<outside, seen, load, popup, banner, run, fixed, merging,
                 ending>>

\* moveToConflictState
ReturnToConflicts ==
  /\ popup /\ mco.step = "ConfirmAbort" /\ mco' = ToStep(mco.back)
  /\ UNCHANGED <<outside, seen, load, popup, banner, run, fixed, merging,
                 ending>>

\* onAbort of a merge: the flow is over before the merge is.
Abort ==
  /\ popup /\ mco.step \in ConflictSteps /\ ending = "none"
  /\ FlowEnded /\ ending' = "abort"
  /\ UNCHANGED <<outside, seen, load, banner, run, fixed, merging>>

\* abortMerge, which may fail.
AbortMerge ==
  /\ ending = "abort" /\ ending' = "none" /\ disk' \in {Clean, disk}
  /\ UNCHANGED <<merges, swapped, seen, load, dialog, run, fixed, merging>>

\* Mutant: whatever is there is taken for resolved.
MutantKept == TRUE
\* The status of the file says that it is resolved.
Kept == seen.file # "markers"

\* onContinue of the dialog of a result: _applyCopilotConflictResolutions
\* looks at the status as it is now.
ContinueResult ==
  /\ popup /\ mco.step = "CopilotResult" /\ ending = "none"
  /\ ending' = IF Kept THEN "continue" ELSE "apply"
  /\ UNCHANGED <<outside, seen, load, dialog, run, fixed, merging>>

\* The file is written.
Apply ==
  /\ ending = "apply" /\ ending' = "continue"
  /\ disk' = IF disk.merge = 0 THEN disk ELSE [disk EXCEPT !.file = "copilot"]
  /\ UNCHANGED <<merges, swapped, seen, load, dialog, run, fixed, merging>>

\* onContinueAfterConflicts, of a merge: the button is on when all is resolved,
\* or Copilot's files were applied.
Continue ==
  /\ \/ ending = "continue"
     \/ InDialog /\ mco.step = "ShowConflicts" /\ Kept
  /\ IF seen.merge = 0 \/ mco.step \notin {"ShowConflicts", "CopilotResult"}
     THEN FlowEnded /\ ending' = "none"
     ELSE ending' = "commit" /\ UNCHANGED <<mco, popup>>
  /\ UNCHANGED <<outside, seen, load, banner, run, fixed, merging>>

\* finishConflictedMerge, which may fail.
Commit ==
  /\ ending = "commit" /\ ending' = "finish" /\ disk' \in {Clean, disk}
  /\ UNCHANGED <<merges, swapped, seen, load, dialog, run, fixed, merging>>

\* The message is reset and the changes are shown, and the flow is over.
FinishMerge ==
  /\ ending = "finish" /\ ending' = "none" /\ FlowEnded
  /\ UNCHANGED <<outside, seen, load, banner, run, fixed, merging>>

-----------------------------------------------------------------------------
(* Merges.                                                                 *)

NewConflict ==
  /\ disk.merge = 0 /\ merges < MaxMerges /\ merges' = merges + 1
  /\ disk' = At(merges + 1, "markers")
  /\ swapped' = (swapped \/ seen.merge # 0 \/ ending # "none"
                   \/ \E l \in Load : load[l].status.merge # 0)

\* startMergeBranchOperation
StartMerge ==
  /\ ~popup /\ merging = "no"
  /\ mco' = Operation("ChooseBranch") /\ popup' = TRUE
  /\ UNCHANGED <<outside, seen, load, banner, run, fixed, merging, ending>>

ChooseNothing ==
  /\ popup /\ mco.step = "ChooseBranch" /\ FlowEnded
  /\ UNCHANGED <<outside, seen, load, banner, run, fixed, merging, ending>>

\* The dialog that chooses the branch: git merges, and the dialog is closed.
ChooseBranch ==
  /\ popup /\ mco.step = "ChooseBranch" /\ merging = "no"
  /\ merging' = "yes" /\ popup' = FALSE
  /\ UNCHANGED <<outside, seen, load, mco, banner, run, fixed, ending>>

\* _mergeBranch: there is a conflict; or the merge is done, and the operation
\* over; or a hook aborted it, or git failed.
MergeEnds ==
  /\ merging = "yes"
  /\ \/ NewConflict /\ merging' = "conflict" /\ UNCHANGED mco
     \/ mco' = NoOperation /\ merging' = "no" /\ UNCHANGED outside
     \/ merging' = "no" /\ UNCHANGED <<outside, mco>>
  /\ UNCHANGED <<seen, load, popup, banner, run, fixed, ending>>

\* _handleConflictsDetectedOnError
HandleConflict ==
  /\ merging = "conflict" /\ merging' = "no"
  /\ mco' = IF mco = NoOperation THEN Operation("ShowConflicts")
            ELSE ToStep("ShowConflicts")
  /\ popup' = TRUE
  /\ UNCHANGED <<outside, seen, load, banner, run, fixed, ending>>

\* In a terminal and an editor.
MergesOutside ==
  /\ NewConflict
  /\ UNCHANGED <<seen, load, dialog, run, fixed, merging, ending>>
ResolvesOutside ==
  /\ disk.merge # 0 /\ disk.file = "markers"
  /\ disk' = [disk EXCEPT !.file = "user"]
  /\ UNCHANGED <<merges, swapped, seen, load, dialog, run, fixed, merging,
                 ending>>
EndsOutside ==
  /\ disk.merge # 0 /\ disk' = Clean
  /\ UNCHANGED <<merges, swapped, seen, load, dialog, run, fixed, merging,
                 ending>>

SignOut ==
  /\ account /\ account' = FALSE
  /\ UNCHANGED <<outside, seen, load, dialog, run, always, merging, ending>>

RunAnswers(r) ==
  \E outcome \in {"result", "null", "fails"} : RunEnds(r, outcome)

ConflictsNext ==
  \/ \E r \in Run : RunAnswers(r)
  \/ Attempt \/ Stop \/ BackToManual
  \/ \E l \in Load : BeginLoad(l) \/ EndLoad(l) \/ LoadFails(l) \/ Trigger(l)
  \/ Dismiss \/ OpenBanner \/ LoseBanner
  \/ ConfirmAbort \/ ReturnToConflicts \/ Abort \/ AbortMerge
  \/ ContinueResult \/ Apply \/ Continue \/ Commit \/ FinishMerge
  \/ StartMerge \/ ChooseNothing \/ ChooseBranch \/ MergeEnds \/ HandleConflict
  \/ MergesOutside \/ ResolvesOutside \/ EndsOutside \/ SignOut

ConflictsSpec == ConflictsInit /\ [][ConflictsNext]_cfVars

-----------------------------------------------------------------------------
(* Properties.                                                             *)

\* The variables have the shape the actions rely on, and whoever is at the
\* dialog of a result, or about to return to it, has one.
ConflictsTypeOK ==
  /\ disk \in [merge : 0 .. merges, file : File]
  /\ seen \in [merge : 0 .. merges, file : File] /\ merges \in 0 .. MaxMerges
  /\ load \in [Load -> [at : {"idle", "reading", "triggering"},
                        status : [merge : 0 .. merges, file : File],
                        use : BOOLEAN]]
  /\ mco \in [step : Step, back : DialogSteps \cup {"none"}, use : BOOLEAN,
              run : Run \cup {NoRun}, result : 0 .. merges]
  /\ (mco.step = "none") = (mco = NoOperation)
  /\ (mco.step = "ConfirmAbort") = (mco.back # "none")
  /\ "CopilotResult" \in {mco.step, mco.back} => mco.result # 0
  /\ banner \in {"none", "conflicts", "opens"}
  /\ run \in [Run -> [at : {"idle", "going", "stopped"}, merge : 0 .. merges]]
  /\ popup \in BOOLEAN /\ swapped \in BOOLEAN
  /\ account \in BOOLEAN /\ always \in BOOLEAN
  /\ merging \in {"no", "yes", "conflict"}
  /\ ending \in {"none", "abort", "apply", "continue", "commit", "finish"}

\* What Copilot is shown to have resolved is the merge that is there, and never
\* an earlier one that a run is still about, whatever was stopped, aborted and
\* begun again meanwhile, as long as nobody signs out.
ResultIsOfThisMerge ==
  popup /\ "CopilotResult" \in {mco.step, mco.back} /\ seen.merge # 0
        /\ ~swapped /\ account => mco.result = seen.merge

\* Whoever is shown that Copilot is at work has a run at work, which was not
\* stopped, unless he signed out.
LoadingIsAtWork ==
  AwaitsResult /\ account => mco.run # NoRun /\ run[mco.run].at = "going"

\* A merge is committed without markers, whether the user, Copilot or both
\* resolved it, and whatever the status said meanwhile.
NoMarkersCommitted ==
  [][Commit /\ disk' # disk /\ ~swapped => disk.file # "markers"]_cfVars

\* "Overwriting it with Copilot's stored content would silently clobber their
\* work, so skip it": what the user resolved is not overwritten.
EditsStand == [][Apply => disk.file # "user"]_cfVars

\* The user leaves merging alone.
Calm == merging = "no" /\ ~(popup /\ mco.step = "ChooseBranch")

Shown == banner # "none" \/ (popup /\ mco.step \in ConflictSteps)

\* A conflict that stays is shown, or a banner for it, again and again, however
\* often the user dismisses either, runs end, and loads fail.
ConflictsAreShown == <>[](disk.merge # 0 /\ Calm) => []<>Shown

\* When there is none any more, the dialog and the banner go for good.
DialogsGo == <>[](disk.merge = 0 /\ Calm) => <>[]~Shown

\* An operation ends with its merge.
FlowsEnd == <>[](disk.merge = 0 /\ Calm) => <>[](mco = NoOperation)

\* The end of a merge closes its own dialog, and not the one of the next.
EndsItsOwn == [][FinishMerge => mco.step # "ChooseBranch"]_cfVars
=============================================================================
