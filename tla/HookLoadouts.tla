---------------------------- MODULE HookLoadouts ----------------------------
(***************************************************************************)
(* The hook loadouts of a repository: the scripts under .githooks, each as *)
(* <id>.sh or, switched off, as <id>.sh.disabled, the record of what was   *)
(* installed, and the settings page that works on both.                    *)
(*                                                                         *)
(* The page keeps what it read at its last refresh, and its buttons are    *)
(* off while it works; the switches of the scripts are not, and whichever  *)
(* action ends first turns the buttons on again.  Every script is taken to *)
(* have a hook type of its own; `theirs` is a hook of the user with a      *)
(* directory and a dispatcher that this program did not write.             *)
(***************************************************************************)
EXTENDS Naturals, FiniteSets

CONSTANTS Script, Loadout,  \* a loadout is a set of scripts
          Gone,
          MaxActions        \* actions of the page at a time there is room for

\* What a script file says: a built-in text of this version of the program or
\* of an earlier one, or what the user made of it.
Text == {"old", "new", "mine"}

LoadoutConstants ==
  /\ Loadout \subseteq SUBSET Script /\ {} \notin Loadout
  /\ Gone \notin Text /\ MaxActions \in Nat

VARIABLES
  builtin,    \* the built-in texts, of this version of the program
  on, off,    \* the files of each script
  theirs,     \* the directory of the user's own hook
  hooksPath,  \* core.hooksPath is .githooks
  record,     \* LoadoutInstallation
  page,       \* what the settings page shows
  installing, \* the buttons of the page are off
  action,     \* what the page is doing
  overlapped  \* history: an action began while another was not over

files == <<on, off, theirs, hooksPath>>
hlVars == <<builtin, files, record, page, installing, action, overlapped>>

NoRecord == [loadout |-> {}, hash |-> [s \in Script |-> Gone]]
Slot == 1 .. MaxActions
Act(what, left, target, hash) ==
  [what |-> what, left |-> left, target |-> target, hash |-> hash]
Idle == Act("idle", {}, <<>>, NoRecord.hash)

Exists(s) == on[s] # Gone \/ off[s] # Gone
\* readInstalledScript
Installed(s) == IF on[s] # Gone THEN on[s] ELSE off[s]

\* Mutant: without the text that was installed, an edit is an old version.
MutantClassify(text, hash) ==
  IF text = builtin THEN "current" ELSE "outdated"
\* classifyScript
Classify(text, hash) ==
  IF text = builtin THEN "current"
  ELSE IF hash = Gone \/ text = hash THEN "outdated" ELSE "customized"

\* refresh
Read == [loadout |-> record.loadout,
         info |-> [s \in Script |->
                     IF s \in record.loadout /\ Exists(s)
                     THEN Classify(Installed(s), record.hash[s]) ELSE "none"]]

NoFile == [s \in Script |-> Gone]

LoadoutInit ==
  /\ builtin = "old" /\ on = NoFile /\ off = NoFile /\ theirs \in BOOLEAN
  /\ hooksPath = FALSE /\ record = NoRecord /\ page = Read
  /\ installing = FALSE /\ action = [i \in Slot |-> Idle]
  /\ overlapped = FALSE

-----------------------------------------------------------------------------
(* The page.                                                               *)

\* run
Begin(what, left) ==
  /\ \E i \in Slot :
       /\ action[i] = Idle /\ \A j \in Slot : j < i => action[j] # Idle
       /\ action' = [action EXCEPT ![i] = Act(what, left, <<>>, NoRecord.hash)]
  /\ installing' = TRUE
  /\ overlapped' = (overlapped \/ \E i \in Slot : action[i] # Idle)

Button(what, left) ==
  ~installing /\ Begin(what, left) /\ UNCHANGED <<builtin, files, record, page>>

OnInstall == \E l \in Loadout : page.loadout = {} /\ Button("install", l)
OnUninstall == page.loadout # {} /\ Button("uninstall", Script)

\* onUpdateOutdated
OnUpdate ==
  LET outdated == {s \in Script : page.info[s] = "outdated"}
  IN outdated # {} /\ Button("update", outdated)

\* onSaveScript, and onConfirmReset, which has been confirmed.
OnSave(s)  == page.info[s] # "none" /\ Button("save", {s})
OnReset(s) ==
  page.info[s] \in {"outdated", "customized"} /\ Button("reset", {s})

\* toggleScriptOnDisk; that there is no such file is no failure.
Renamed(s) ==
  \/ /\ off[s] # Gone
     /\ on' = [on EXCEPT ![s] = off[s]] /\ off' = [off EXCEPT ![s] = Gone]
  \/ /\ on[s] # Gone
     /\ off' = [off EXCEPT ![s] = on[s]] /\ on' = [on EXCEPT ![s] = Gone]
  \/ ~Exists(s) /\ UNCHANGED <<on, off>>

\* onToggleScript, whatever the page is doing.
OnToggle(s) ==
  /\ s \in page.loadout /\ Begin("refresh", {}) /\ Renamed(s)
  /\ UNCHANGED <<builtin, theirs, hooksPath, record, page>>

-----------------------------------------------------------------------------
(* What the actions do, a file at a time.                                  *)

Doing(i, what) == action[i].what = what
Go(i, left, target, hash) ==
  /\ action' = [action EXCEPT ![i] = Act(@.what, left, target, hash)]
  /\ UNCHANGED <<builtin, page, installing, overlapped>>
EndsAction(i) ==
  /\ action' = [action EXCEPT ![i] = Act("refresh", {}, <<>>, NoRecord.hash)]
  /\ UNCHANGED <<builtin, page, installing, overlapped>>
Hashed(i, s) == [action[i].hash EXCEPT ![s] = builtin]

\* installLoadout: one script.
InstallScript(i, s) ==
  /\ Doing(i, "install") /\ s \in action[i].left
  /\ on' = [on EXCEPT ![s] = builtin]
  /\ Go(i, action[i].left \ {s}, <<>>, Hashed(i, s))
  /\ UNCHANGED <<off, theirs, hooksPath, record>>

\* Mutant: of a directory, the scripts that are on go.
MutantRemoveDirectory(i, s) ==
  /\ Doing(i, "uninstall") /\ s \in action[i].left
  /\ on' = [on EXCEPT ![s] = Gone]
  /\ Go(i, action[i].left \ {s}, <<>>, action[i].hash)
  /\ UNCHANGED <<off, theirs, hooksPath, record>>
\* uninstallLoadout: the directory of a script.
RemoveDirectory(i, s) ==
  /\ Doing(i, "uninstall") /\ s \in action[i].left
  /\ on' = [on EXCEPT ![s] = Gone] /\ off' = [off EXCEPT ![s] = Gone]
  /\ Go(i, action[i].left \ {s}, <<>>, action[i].hash)
  /\ UNCHANGED <<theirs, hooksPath, record>>

\* uninstallLoadout: a directory next to a dispatcher without the marker.
RemoveTheirs(i) ==
  /\ Doing(i, "uninstall") /\ theirs /\ theirs' = FALSE
  /\ Go(i, action[i].left, <<>>, action[i].hash)
  /\ UNCHANGED <<on, off, hooksPath, record>>

\* writeInstalledScript: which of the two files is there.
ChooseTarget(i, s) ==
  /\ action[i].what \in {"update", "save", "reset"}
  /\ s \in action[i].left /\ action[i].target = <<>>
  /\ Go(i, action[i].left, <<s, off[s] # Gone>>, action[i].hash)
  /\ UNCHANGED <<files, record>>

\* Mutant: the script is written as one that is switched on.
MutantWriteTarget(i) ==
  /\ action[i].target # <<>>
  /\ LET s == action[i].target[1]
     IN IF ~Exists(s) THEN EndsAction(i) /\ UNCHANGED files
        ELSE /\ on' = [on EXCEPT ![s] = IF Doing(i, "save") THEN "mine"
                                                           ELSE builtin]
             /\ Go(i, action[i].left \ {s}, <<>>, Hashed(i, s))
             /\ UNCHANGED <<off, theirs, hooksPath>>
  /\ UNCHANGED record
\* writeInstalledScript: without the directory it fails, and with it the
\* action.
WriteTarget(i) ==
  /\ action[i].target # <<>>
  /\ LET s == action[i].target[1]
         text == IF Doing(i, "save") THEN "mine" ELSE builtin
     IN IF ~Exists(s) THEN EndsAction(i) /\ UNCHANGED files
        ELSE /\ IF action[i].target[2]
                THEN off' = [off EXCEPT ![s] = text] /\ UNCHANGED on
                ELSE on' = [on EXCEPT ![s] = text] /\ UNCHANGED off
             /\ Go(i, action[i].left \ {s}, <<>>,
                   IF Doing(i, "save") THEN action[i].hash ELSE Hashed(i, s))
             /\ UNCHANGED <<theirs, hooksPath>>
  /\ UNCHANGED record

\* recordInstalledHashes
Recorded(hash) ==
  IF record.loadout = {} THEN record
  ELSE [record EXCEPT !.hash = [s \in Script |-> IF hash[s] # Gone THEN hash[s]
                                                 ELSE record.hash[s]]]

\* The files are done: core.hooksPath and the record.
FinishAction(i) ==
  /\ action[i].what \notin {"idle", "refresh"}
  /\ action[i].left = {} /\ action[i].target = <<>>
  /\ Doing(i, "uninstall") => ~theirs
  /\ hooksPath' = CASE Doing(i, "install") -> TRUE
                    [] Doing(i, "uninstall") -> FALSE [] OTHER -> hooksPath
  /\ record' = CASE Doing(i, "install") ->
                      [loadout |-> {s \in Script : action[i].hash[s] # Gone},
                       hash |-> action[i].hash]
                 [] Doing(i, "uninstall") -> NoRecord
                 [] OTHER -> Recorded(action[i].hash)
  /\ EndsAction(i) /\ UNCHANGED <<on, off, theirs>>

\* refresh, at the end of every action.
RefreshPage(i) ==
  /\ Doing(i, "refresh") /\ page' = Read /\ installing' = FALSE
  /\ action' = [action EXCEPT ![i] = Idle]
  /\ UNCHANGED <<builtin, files, record, overlapped>>

-----------------------------------------------------------------------------
(* Outside.                                                                *)

\* The user edits the file with another program.
UserEdits(s) ==
  /\ \/ on[s] # Gone /\ on' = [on EXCEPT ![s] = "mine"] /\ UNCHANGED off
     \/ off[s] # Gone /\ off' = [off EXCEPT ![s] = "mine"] /\ UNCHANGED on
  /\ UNCHANGED <<builtin, theirs, hooksPath, record, page, installing, action,
                 overlapped>>

\* The program ends, at any point of any action, is perhaps updated, and its
\* page is opened again.
Restart ==
  /\ builtin' \in {builtin, "new"} /\ UNCHANGED <<files, record, overlapped>>
  /\ action' = [i \in Slot |-> Idle] /\ installing' = FALSE /\ page' = Read'

LoadoutNext ==
  \/ OnInstall \/ OnUninstall \/ OnUpdate
  \/ \E s \in Script : OnSave(s) \/ OnReset(s) \/ OnToggle(s) \/ UserEdits(s)
  \/ \E i \in Slot : \/ \E s \in Script : \/ InstallScript(i, s)
                                          \/ RemoveDirectory(i, s)
                                          \/ ChooseTarget(i, s)
                     \/ RemoveTheirs(i) \/ WriteTarget(i) \/ FinishAction(i)
                     \/ RefreshPage(i)
  \/ Restart

LoadoutSpec == LoadoutInit /\ [][LoadoutNext]_hlVars

-----------------------------------------------------------------------------
(* Properties.                                                             *)

Copy == Text \cup {Gone}

LoadoutTypeOK ==
  /\ builtin \in {"old", "new"} /\ theirs \in BOOLEAN /\ hooksPath \in BOOLEAN
  /\ on \in [Script -> Copy] /\ off \in [Script -> Copy]
  /\ record.loadout \in Loadout \cup {{}}
  /\ record.hash \in [Script -> Copy \ {"mine"}]
  /\ record.loadout \subseteq {s \in Script : record.hash[s] # Gone}
  /\ record.loadout = {} => record = NoRecord
  /\ page.loadout \in Loadout \cup {{}}
  /\ page.info \in [Script -> {"none", "current", "outdated", "customized"}]
  /\ \A i \in Slot : action[i].what = "idle" => action[i] = Idle
  /\ installing \in BOOLEAN /\ overlapped \in BOOLEAN

\* A script is never there both switched on and switched off, in whatever state
\* a restart left an installation, as long as no switch is thrown in the middle
\* of another action.
OneCopy == ~overlapped => \A s \in Script : on[s] = Gone \/ off[s] = Gone

\* Nor is it with switches thrown at any time.
OneCopyAlways == \A s \in Script : on[s] = Gone \/ off[s] = Gone

\* What the user made of an installed script is never taken for an older
\* version, which an update would replace, whatever actions, restarts and
\* updates of the program the script and its record have been through.
EditsAreSeen ==
  \A s \in record.loadout :
    Installed(s) = "mine" => Classify("mine", record.hash[s]) = "customized"

\* Once a loadout is uninstalled nothing of it is left, even of an installation
\* or an uninstallation that a restart interrupted.
UninstallCleans ==
  [][record.loadout # {} /\ record'.loadout = {} /\ ~overlapped
       => ~hooksPath' /\ \A s \in Script : ~Exists(s)']_hlVars

\* Uninstalling leaves the hooks of the user untouched.
TheirsIsLeft == [][theirs' = theirs]_hlVars
=============================================================================
