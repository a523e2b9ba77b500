-------------------------- MODULE Installers_proofs --------------------------
(***************************************************************************)
(* Theorems about ClaudeHooks, for any commands of the loadout and of the  *)
(* user, and about HookLoadouts, for any scripts and loadouts; for any     *)
(* number of edits, restarts, installs and uninstalls.                     *)
(***************************************************************************)
EXTENDS ClaudeHooks, HookLoadouts, TLAPS

Ours == Base \cup Extra
Task == [what : {"nothing", "install", "installed", "uninstall",
                 "uninstalled"},
         tier : SUBSET Ours, groups : SUBSET Group, new : SUBSET Ours]

Types == /\ settings \subseteq Group /\ note \subseteq Ours
         /\ config \in BOOLEAN /\ doing \in Task
         /\ torn \in BOOLEAN /\ raced \in BOOLEAN /\ shared \in BOOLEAN
         /\ note # NoNote => config

\* The history is about commands that are there, in the settings and in those
\* an installation is about to write.
History ==
  /\ added \subseteq Commands(settings) /\ hand \subseteq Commands(settings)
  /\ doing.what = "install" =>
       /\ added \subseteq Commands(doing.groups)
       /\ hand \subseteq Commands(doing.groups)
       /\ doing.new \subseteq Commands(doing.groups)
  /\ doing.what \in {"install", "installed"} => hand \cap doing.new = {}
  /\ hand \cap note = {}

\* What is added and not noted is about to be noted, and what is left of the
\* settings once the groups of the note are gone was not added.
Notes ==
  /\ doing.what = "uninstall" => \A g \in doing.groups : g \cap note = {}
  /\ ~torn => CASE doing.what = "installed" -> added \subseteq note \cup doing.new
                [] doing.what = "uninstalled" -> added = {}
                [] OTHER -> added \subseteq note

Inv == Types /\ History /\ Notes

LEMMA InitInv == ClaudeInit => Inv
<1> SUFFICES ASSUME ClaudeInit PROVE Inv OBVIOUS
<1>1. settings \subseteq Group
  <2>1. \A c \in Command : {c} \in Group BY DEF Group
  <2> QED BY <2>1 DEF ClaudeInit
<1>2. Types
  BY <1>1 DEF ClaudeInit, Types, Task, Nothing, Do, NoNote
<1>3. History
  BY DEF ClaudeInit, History, Nothing, Do, NoNote
<1>4. Notes
  BY DEF ClaudeInit, Notes, Nothing, Do, NoNote
<1> QED BY <1>2, <1>3, <1>4 DEF Inv

\* An edit keeps a group, adds a command of the user to one, or makes one of it.
LEMMA EditedGroups ==
  ASSUME Edits, NEW g \in settings'
  PROVE  \/ g \in settings
         \/ \E u \in UserCommand : g = {u}
         \/ shared' /\ \E u \in UserCommand, h \in settings : g = h \cup {u}
<1>1. CASE \E u \in UserCommand : Edited(settings \cup {{u}})
  BY <1>1 DEF Edited
<1>2. CASE \E u \in UserCommand : \E h \in settings :
             Edited((settings \ {h}) \cup {h \cup {u}}) /\ shared' = TRUE
  BY <1>2 DEF Edited
<1>3. CASE \E h \in settings : Edited(settings \ {h})
  BY <1>3 DEF Edited
<1> QED BY <1>1, <1>2, <1>3 DEF Edits

LEMMA EditedHistory ==
  ASSUME Edits
  PROVE  /\ UNCHANGED <<note, doing, torn>> /\ (shared => shared')
         /\ raced' = (raced \/ doing.what \in {"install", "uninstall"})
         /\ added' = added \cap Commands(settings')
         /\ hand' = hand \cap Commands(settings')
<1>1. ASSUME NEW groups, Edited(groups)
      PROVE  /\ raced' = (raced \/ doing.what \in {"install", "uninstall"})
             /\ added' = added \cap Commands(settings')
             /\ hand' = hand \cap Commands(settings')
  BY <1>1 DEF Edited
<1>2. UNCHANGED <<note, doing, torn>> BY DEF Edits
<1>3. shared' = shared \/ shared' = TRUE BY DEF Edits
<1>4. shared => shared' BY <1>3
<1> QED BY <1>1, <1>2, <1>4 DEF Edits

LEMMA StepTypes ==
  ASSUME Types, [ClaudeNext]_chVars
  PROVE  Types'
<1> USE DEF Types
<1>1. ASSUME NEW tier \in Tier, ReadSettings(tier) PROVE Types'
  <2>1. tier \subseteq Ours BY DEF Tier, Ours
  <2>2. \A c \in tier : {c} \in Group BY <2>1 DEF Group, Command, Ours
  <2>3. Merged(Missing(tier)) \subseteq Group BY <2>2 DEF Merged, Missing
  <2> QED BY <1>1, <2>1, <2>3 DEF ReadSettings, Task, Do, Missing, history
<1>2. CASE WriteSettings BY <1>2 DEF WriteSettings, Task
<1>3. CASE WriteNote
  BY <1>3 DEF WriteNote, Task, Noted, Nothing, Do, history
<1>4. CASE ReadNote BY <1>4 DEF ReadNote, Task, Do, history
<1>5. CASE RemoveGroups BY <1>5 DEF RemoveGroups, Task
<1>6. CASE DropNote BY <1>6 DEF DropNote, Task, Nothing, Do, NoNote, history
<1>7. CASE Ends BY <1>7 DEF Ends, Task, Nothing, Do
<1>8. CASE Edits
  <2>1. settings' \subseteq Group BY <1>8, EditedGroups DEF Group, Command
  <2> QED BY <1>8, <2>1 DEF Edits, Edited
<1>9. CASE UNCHANGED chVars BY <1>9 DEF chVars, history
<1> QED BY <1>1, <1>2, <1>3, <1>4, <1>5, <1>6, <1>7, <1>8, <1>9
        DEF ClaudeNext, chVars

LEMMA StepHistory ==
  ASSUME Types, History, [ClaudeNext]_chVars
  PROVE  History'
<1> USE DEF Types, History, Task
<1>1. ASSUME NEW tier \in Tier, ReadSettings(tier) PROVE History'
  <2>1. /\ Commands(settings) \subseteq Commands(Merged(Missing(tier)))
        /\ Missing(tier) \subseteq Commands(Merged(Missing(tier)))
        /\ Missing(tier) \cap hand = {}
    BY DEF Merged, Missing, Commands
  <2> QED BY <1>1, <2>1 DEF ReadSettings, Do, history
<1>2. CASE WriteSettings BY <1>2 DEF WriteSettings, Commands
<1>3. CASE WriteNote
  BY <1>3 DEF WriteNote, Noted, Nothing, Do, history
<1>4. CASE ReadNote BY <1>4 DEF ReadNote, Do, history
<1>5. CASE RemoveGroups BY <1>5 DEF RemoveGroups
<1>6. CASE DropNote BY <1>6 DEF DropNote, Nothing, Do, NoNote, history
<1>7. CASE Ends BY <1>7 DEF Ends, Nothing, Do
<1>8. CASE Edits BY <1>8, EditedHistory
<1>9. CASE UNCHANGED chVars BY <1>9 DEF chVars, history, Commands
<1> QED BY <1>1, <1>2, <1>3, <1>4, <1>5, <1>6, <1>7, <1>8, <1>9
        DEF ClaudeNext, chVars

LEMMA StepNotes ==
  ASSUME Inv, [ClaudeNext]_chVars
  PROVE  Notes'
<1> USE DEF Inv, Types, Notes, Task
<1>1. ASSUME NEW tier \in Tier, ReadSettings(tier) PROVE Notes'
  BY <1>1 DEF ReadSettings, Do, Nothing, history
<1>2. CASE WriteSettings BY <1>2 DEF WriteSettings
<1>3. CASE WriteNote
  BY <1>3 DEF WriteNote, Noted, Nothing, Do, history
<1>4. CASE ReadNote BY <1>4 DEF ReadNote, Do, Nothing, history
<1>5. CASE RemoveGroups BY <1>5 DEF RemoveGroups, Commands
<1>6. CASE DropNote BY <1>6 DEF DropNote, Nothing, Do, NoNote, history
<1>7. CASE Ends BY <1>7 DEF Ends, Nothing, Do
<1>8. CASE Edits BY <1>8, EditedHistory
<1>9. CASE UNCHANGED chVars BY <1>9 DEF chVars, history
<1> QED BY <1>1, <1>2, <1>3, <1>4, <1>5, <1>6, <1>7, <1>8, <1>9
        DEF ClaudeNext, chVars

LEMMA AlwaysInv == ClaudeSpec => []Inv
<1>1. Inv /\ [ClaudeNext]_chVars => Inv'
  BY StepTypes, StepHistory, StepNotes DEF Inv
<1> QED BY <1>1, InitInv, PTL DEF ClaudeSpec

\* The variables keep their types, and the history is about what is there.
THEOREM ClaudeTypesCorrect == ClaudeSpec => []ClaudeTypeOK
<1>1. Inv => ClaudeTypeOK
  BY DEF Inv, Types, History, ClaudeTypeOK, Task, Ours
<1> QED BY <1>1, AlwaysInv, PTL

\* Whatever the tiers, the edits and the restarts, what this program added is
\* in its note, unless it ended between writing the one and the other.
THEOREM AllNoted == ClaudeSpec => []EverythingNoted
<1>1. Inv => EverythingNoted
  BY DEF Inv, Notes, EverythingNoted, Nothing, Do
<1> QED BY <1>1, AlwaysInv, PTL

\* A command that was there before the first installation is never noted, and
\* so never taken out by an uninstallation on its account.
THEOREM HandwrittenIsLeft == ClaudeSpec => []HandwrittenStays
<1>1. Inv => HandwrittenStays
  BY DEF Inv, History, HandwrittenStays
<1> QED BY <1>1, AlwaysInv, PTL

-----------------------------------------------------------------------------
(* What belongs to the user.                                                *)

\* Groups are of this program or of the user, and the settings that are about
\* to be written were merged into, or cleared from, those that are there.
Apart ==
  /\ ~shared => \A g \in settings : g \subseteq Ours \/ g \subseteq UserCommand
  /\ ~raced /\ doing.what = "install" => settings \subseteq doing.groups
  /\ ~raced /\ doing.what = "uninstall"
       => doing.groups = {g \in settings : g \cap note = {}}
  /\ ~shared /\ doing.what = "install"
       => \A g \in doing.groups : g \subseteq Ours \/ g \subseteq UserCommand
  /\ ~shared /\ doing.what = "uninstall"
       => \A g \in doing.groups : g \subseteq Ours \/ g \subseteq UserCommand

LEMMA StepApart ==
  ASSUME Types, Apart, [ClaudeNext]_chVars
  PROVE  Apart'
<1> USE DEF Types, Apart, Task
<1>1. ASSUME NEW tier \in Tier, ReadSettings(tier) PROVE Apart'
  <2>1. \A g \in Merged(Missing(tier)) : g \in settings \/ g \subseteq Ours
    BY DEF Merged, Missing, Tier, Ours
  <2>2. settings \subseteq Merged(Missing(tier)) BY DEF Merged
  <2> QED BY <1>1, <2>1, <2>2 DEF ReadSettings, Do, history
<1>2. CASE WriteSettings BY <1>2 DEF WriteSettings
<1>3. CASE WriteNote BY <1>3 DEF WriteNote, Nothing, Do, history
<1>4. CASE ReadNote BY <1>4 DEF ReadNote, Do, history
<1>5. CASE RemoveGroups BY <1>5 DEF RemoveGroups
<1>6. CASE DropNote BY <1>6 DEF DropNote, Nothing, Do, history
<1>7. CASE Ends BY <1>7 DEF Ends, Nothing, Do
<1>8. CASE Edits
  <2>1. ~shared' =>
          \A g \in settings' : g \in settings \/ g \subseteq UserCommand
    BY <1>8, EditedGroups
  <2> QED BY <1>8, <2>1, EditedHistory
<1>9. CASE UNCHANGED chVars BY <1>9 DEF chVars, history
<1> QED BY <1>1, <1>2, <1>3, <1>4, <1>5, <1>6, <1>7, <1>8, <1>9
        DEF ClaudeNext, chVars

\* No command of the user is lost from the settings by installing and
\* uninstalling, when he edits them at other times and in groups of his own.
THEOREM UserIsKept ==
  ASSUME ClaudeConstants
  PROVE  ClaudeSpec => UserKept
<1>1. ClaudeInit => Apart
  BY DEF ClaudeInit, Apart, Nothing, Do, Command, Ours
<1>2. Types /\ Apart /\ [ClaudeNext]_chVars =>
        ((WriteSettings \/ RemoveGroups) /\ ~raced /\ ~shared
           => Commands(settings) \cap UserCommand \subseteq Commands(settings'))
  <2> SUFFICES ASSUME Types, Apart, WriteSettings \/ RemoveGroups,
                      ~raced, ~shared,
                      NEW u \in UserCommand, NEW g \in settings, u \in g
               PROVE  g \in settings'
    BY DEF Commands
  <2>1. CASE WriteSettings BY <2>1 DEF WriteSettings, Apart
  <2>2. CASE RemoveGroups
    <3>1. g \cap note = {} BY DEF Types, Apart, Ours, ClaudeConstants
    <3> QED BY <2>2, <3>1 DEF RemoveGroups, Apart
  <2> QED BY <2>1, <2>2
<1>3. Inv => Types BY DEF Inv
<1> QED BY <1>1, <1>2, <1>3, StepApart, AlwaysInv, PTL
        DEF ClaudeSpec, UserKept

-----------------------------------------------------------------------------
(* HookLoadouts: types.                                                     *)

HashOf == [Script -> Copy \ {"mine"}]
What == {"idle", "install", "uninstall", "update", "save", "reset", "refresh"}
Info == {"none", "current", "outdated", "customized"}
ActOf == [what : What, left : SUBSET Script,
          target : {<<>>} \cup (Script \X BOOLEAN), hash : HashOf]

FileTypes ==
  /\ builtin \in {"old", "new"} /\ theirs \in BOOLEAN /\ hooksPath \in BOOLEAN
  /\ on \in [Script -> Copy] /\ off \in [Script -> Copy]
RecordTypes ==
  /\ record \in [loadout : Loadout \cup {{}}, hash : HashOf]
  /\ \A s \in record.loadout : record.hash[s] # Gone
  /\ record.loadout = {} => record = NoRecord
PageTypes ==
  /\ page \in [loadout : Loadout \cup {{}}, info : [Script -> Info]]
  /\ installing \in BOOLEAN /\ overlapped \in BOOLEAN

\* An installation has written what it has a hash of, and has the rest to do.
ActionOK(a) ==
  /\ a.what = "idle" => a = Idle
  /\ a.what = "install" => a.left \cup {s \in Script : a.hash[s] # Gone} \in Loadout
  /\ a.target # <<>> => a.what \in {"update", "save", "reset"}
ActionTypes == /\ action \in [Slot -> ActOf]
               /\ \A i \in Slot : ActionOK(action[i])
LoadoutTypes == FileTypes /\ RecordTypes /\ PageTypes /\ ActionTypes

LEMMA LoadoutTypesAre ==
  ASSUME LoadoutConstants, LoadoutTypes PROVE LoadoutTypeOK
BY DEF LoadoutTypes, FileTypes, RecordTypes, PageTypes, ActionTypes, ActionOK,
   ActOf, HashOf, Info, LoadoutConstants, LoadoutTypeOK

LEMMA NoRecordType ==
  ASSUME LoadoutConstants
  PROVE  /\ NoRecord \in [loadout : Loadout \cup {{}}, hash : HashOf]
         /\ NoRecord.loadout = {} /\ NoRecord.hash \in HashOf
         /\ \A s \in Script : NoRecord.hash[s] = Gone
         /\ Idle \in ActOf /\ ActionOK(Idle)
BY DEF LoadoutConstants, Text, NoRecord, HashOf, Copy, Idle, Act, ActOf, What,
   ActionOK

\* What a refresh reads is what the page can show.
LEMMA ReadType ==
  /\ Read.loadout = record.loadout /\ Read'.loadout = record'.loadout
  /\ record.loadout \in Loadout \cup {{}}
       => Read \in [loadout : Loadout \cup {{}}, info : [Script -> Info]]
  /\ record'.loadout \in Loadout \cup {{}}
       => Read' \in [loadout : Loadout \cup {{}}, info : [Script -> Info]]
BY DEF Read, Classify, Info

LEMMA InitLoadoutTypes ==
  ASSUME LoadoutConstants, LoadoutInit PROVE LoadoutTypes
<1>1. FileTypes BY DEF LoadoutInit, NoFile, FileTypes, Copy
<1>2. RecordTypes BY NoRecordType DEF LoadoutInit, RecordTypes
<1>3. PageTypes BY <1>2, ReadType DEF LoadoutInit, PageTypes, RecordTypes
<1>4. ActionTypes BY NoRecordType DEF LoadoutInit, ActionTypes
<1> QED BY <1>1, <1>2, <1>3, <1>4 DEF LoadoutTypes

LEMMA BeginTypes ==
  ASSUME LoadoutConstants, LoadoutTypes, NEW what \in What \ {"idle"},
         NEW left \in SUBSET Script, what = "install" => left \in Loadout,
         Begin(what, left)
  PROVE  ActionTypes' /\ installing' \in BOOLEAN /\ overlapped' \in BOOLEAN
<1>1. PICK i \in Slot :
        action' = [action EXCEPT ![i] = Act(what, left, <<>>, NoRecord.hash)]
  BY DEF Begin
<1>2. Act(what, left, <<>>, NoRecord.hash) \in ActOf
  BY NoRecordType DEF Act, ActOf
<1>3. ActionOK(Act(what, left, <<>>, NoRecord.hash))
  <2>1. {s \in Script : NoRecord.hash[s] # Gone} = {} BY NoRecordType
  <2> QED BY <2>1 DEF Act, ActionOK
<1>4. overlapped' \in BOOLEAN
  BY DEF Begin, LoadoutTypes, PageTypes
<1> QED BY <1>1, <1>2, <1>3, <1>4 DEF Begin, LoadoutTypes, ActionTypes

LEMMA GoTypes ==
  ASSUME LoadoutConstants, LoadoutTypes, NEW i \in Slot,
         NEW left \in SUBSET Script, NEW hash \in HashOf,
         NEW target \in {<<>>} \cup (Script \X BOOLEAN),
         Go(i, left, target, hash), action[i].what # "idle",
         action[i].what = "install" =>
           left \cup {s \in Script : hash[s] # Gone} \in Loadout,
         target # <<>> => action[i].what \in {"update", "save", "reset"}
  PROVE  ActionTypes'
<1> DEFINE act == Act(action[i].what, left, target, hash)
<1>1. action' = [action EXCEPT ![i] = act]
  BY DEF Go
<1>2. act \in ActOf
  BY DEF Act, ActOf, LoadoutTypes, ActionTypes
<1>3. ActionOK(act) BY DEF Act, ActionOK
<1> HIDE DEF act
<1> QED BY <1>1, <1>2, <1>3 DEF LoadoutTypes, ActionTypes

LEMMA EndsTypes ==
  ASSUME LoadoutConstants, LoadoutTypes, NEW i \in Slot, EndsAction(i)
  PROVE  ActionTypes'
<1> DEFINE act == Act("refresh", {}, <<>>, NoRecord.hash)
<1>1. act \in ActOf /\ ActionOK(act)
  BY NoRecordType DEF Act, ActOf, What, ActionOK
<1> HIDE DEF act
<1>2. action' = [action EXCEPT ![i] = act] BY DEF EndsAction, act
<1> QED BY <1>1, <1>2 DEF LoadoutTypes, ActionTypes

LEMMA HashedType ==
  ASSUME LoadoutConstants, LoadoutTypes, NEW i \in Slot, NEW s \in Script
  PROVE  /\ action[i].hash \in HashOf /\ Hashed(i, s) \in HashOf
         /\ Hashed(i, s)[s] # Gone
         /\ \A t \in Script \ {s} : Hashed(i, s)[t] = action[i].hash[t]
BY DEF LoadoutConstants, Text, LoadoutTypes, FileTypes, ActionTypes, ActOf,
   Hashed, HashOf, Copy

\* The page begins an action.
LEMMA PageStepTypes ==
  ASSUME LoadoutConstants, LoadoutTypes,
         \/ OnInstall \/ OnUninstall \/ OnUpdate
         \/ \E s \in Script : OnSave(s) \/ OnReset(s) \/ OnToggle(s)
  PROVE  LoadoutTypes'
<1>1. \E what \in What \ {"idle"}, left \in SUBSET Script :
        Begin(what, left) /\ (what = "install" => left \in Loadout)
  <2>1. CASE OnInstall
    BY <2>1 DEF OnInstall, Button, What, LoadoutConstants
  <2>2. CASE OnUninstall
    <3>1. Begin("uninstall", Script) BY <2>2 DEF OnUninstall, Button
    <3> QED BY <3>1 DEF What
  <2>3. CASE OnUpdate
    BY <2>3 DEF OnUpdate, Button, What
  <2>4. ASSUME NEW s \in Script, OnSave(s)
        PROVE  Begin("save", {s}) /\ "save" \in What \ {"idle"}
    BY <2>4 DEF OnSave, Button, What
  <2>5. ASSUME NEW s \in Script, OnReset(s)
        PROVE  Begin("reset", {s}) /\ "reset" \in What \ {"idle"}
    BY <2>5 DEF OnReset, Button, What
  <2>6. ASSUME NEW s \in Script, OnToggle(s)
        PROVE  Begin("refresh", {}) /\ "refresh" \in What \ {"idle"}
    BY <2>6 DEF OnToggle, What
  <2>7. {} \in SUBSET Script /\ \A s \in Script : {s} \in SUBSET Script
    OBVIOUS
  <2>8. CASE \E s \in Script : OnSave(s) BY <2>4, <2>7, <2>8
  <2>9. CASE \E s \in Script : OnReset(s) BY <2>5, <2>7, <2>9
  <2>10. CASE \E s \in Script : OnToggle(s) BY <2>6, <2>7, <2>10
  <2> QED BY <2>1, <2>2, <2>3, <2>8, <2>9, <2>10
<1>2. ActionTypes' /\ installing' \in BOOLEAN /\ overlapped' \in BOOLEAN
  BY <1>1, BeginTypes
<1>3. UNCHANGED <<builtin, theirs, hooksPath, record, page>>
  BY DEF OnInstall, OnUninstall, OnUpdate, OnSave, OnReset, OnToggle, Button,
     files
<1>4. on' \in [Script -> Copy] /\ off' \in [Script -> Copy]
  BY DEF OnInstall, OnUninstall, OnUpdate, OnSave, OnReset, OnToggle, Button,
     files, Renamed, LoadoutTypes, FileTypes, Copy
<1>5. FileTypes' BY <1>3, <1>4 DEF LoadoutTypes, FileTypes
<1>6. RecordTypes' BY <1>3 DEF LoadoutTypes, RecordTypes
<1>7. PageTypes' BY <1>2, <1>3 DEF LoadoutTypes, PageTypes
<1> QED BY <1>2, <1>5, <1>6, <1>7 DEF LoadoutTypes

\* An action writes or removes a file, or looks which to write.
LEMMA FileStepTypes ==
  ASSUME LoadoutConstants, LoadoutTypes, NEW i \in Slot,
         \/ \E s \in Script : \/ InstallScript(i, s) \/ RemoveDirectory(i, s)
                             \/ ChooseTarget(i, s)
         \/ RemoveTheirs(i) \/ WriteTarget(i)
  PROVE  LoadoutTypes'
<1>0. /\ action[i] \in ActOf /\ ActionOK(action[i])
      /\ <<>> \in {<<>>} \cup (Script \X BOOLEAN)
      /\ action[i].left \in SUBSET Script /\ action[i].hash \in HashOf
  BY DEF LoadoutTypes, ActionTypes, ActOf
<1>1. UNCHANGED <<builtin, page, installing, overlapped>>
  BY DEF InstallScript, RemoveDirectory, ChooseTarget, RemoveTheirs,
     WriteTarget, Go, EndsAction
<1>2. UNCHANGED record
  BY DEF InstallScript, RemoveDirectory, ChooseTarget, RemoveTheirs,
     WriteTarget
<1>3. ActionTypes' /\ FileTypes'
  <2>1. ASSUME NEW s \in Script, InstallScript(i, s)
        PROVE  ActionTypes' /\ FileTypes'
    <3>1. action[i].left \cup {t \in Script : action[i].hash[t] # Gone}
            = (action[i].left \ {s})
                \cup {t \in Script : Hashed(i, s)[t] # Gone}
      BY <2>1, HashedType DEF InstallScript
    <3>2. ActionTypes'
      BY <1>0, <2>1, <3>1, GoTypes, HashedType DEF InstallScript, Doing,
         ActionOK
    <3>3. FileTypes'
      BY <1>1, <2>1 DEF InstallScript, LoadoutTypes, FileTypes, Copy, Text
    <3> QED BY <3>2, <3>3
  <2>2. ASSUME NEW s \in Script, RemoveDirectory(i, s)
        PROVE  ActionTypes' /\ FileTypes'
    <3>1. ActionTypes'
      BY <1>0, <2>2, GoTypes DEF RemoveDirectory, Doing
    <3>2. FileTypes'
      BY <1>1, <2>2 DEF RemoveDirectory, LoadoutTypes, FileTypes, Copy
    <3> QED BY <3>1, <3>2
  <2>3. ASSUME NEW s \in Script, ChooseTarget(i, s)
        PROVE  ActionTypes' /\ FileTypes'
    <3>1. <<s, off[s] # Gone>> \in {<<>>} \cup (Script \X BOOLEAN) OBVIOUS
    <3>2. ActionTypes'
      BY <1>0, <2>3, <3>1, GoTypes DEF ChooseTarget
    <3>3. FileTypes'
      BY <1>1, <2>3 DEF ChooseTarget, files, LoadoutTypes, FileTypes
    <3> QED BY <3>2, <3>3
  <2>4. CASE RemoveTheirs(i)
    <3>1. ActionTypes'
      BY <1>0, <2>4, GoTypes DEF RemoveTheirs, Doing
    <3>2. FileTypes'
      BY <1>1, <2>4 DEF RemoveTheirs, LoadoutTypes, FileTypes
    <3> QED BY <3>1, <3>2
  <2>5. CASE WriteTarget(i)
    <3> DEFINE s == action[i].target[1]
               text == IF Doing(i, "save") THEN "mine" ELSE builtin
               hash == IF Doing(i, "save") THEN action[i].hash
                       ELSE Hashed(i, s)
    <3>1. /\ action[i].target # <<>> /\ s \in Script /\ text \in Copy
          /\ action[i].what \in {"update", "save", "reset"}
      BY <1>0, <2>5 DEF WriteTarget, ActOf, ActionOK, Copy, Text,
         LoadoutTypes, FileTypes
    <3>2. hash \in HashOf BY <1>0, <3>1, HashedType
    <3>3. CASE EndsAction(i) /\ UNCHANGED files
      BY <1>1, <3>3, EndsTypes DEF files, LoadoutTypes, FileTypes
    <3>4. CASE /\ Go(i, action[i].left \ {s}, <<>>, hash)
               /\ UNCHANGED <<theirs, hooksPath>>
               /\ \/ off' = [off EXCEPT ![s] = text] /\ UNCHANGED on
                  \/ on' = [on EXCEPT ![s] = text] /\ UNCHANGED off
      <4> HIDE DEF s, text, hash
      <4>1. ActionTypes'
        BY <1>0, <3>1, <3>2, <3>4, GoTypes
      <4>2. FileTypes'
        BY <1>1, <3>1, <3>4 DEF LoadoutTypes, FileTypes
      <4> QED BY <4>1, <4>2
    <3> QED BY <2>5, <3>3, <3>4 DEF WriteTarget
  <2> QED BY <2>1, <2>2, <2>3, <2>4, <2>5
<1>4. RecordTypes' BY <1>2 DEF LoadoutTypes, RecordTypes
<1>5. PageTypes' BY <1>1 DEF LoadoutTypes, PageTypes
<1> QED BY <1>3, <1>4, <1>5 DEF LoadoutTypes

\* What is recorded of an installation is the loadout that was installed.
LEMMA FinishTypes ==
  ASSUME LoadoutConstants, LoadoutTypes, NEW i \in Slot, FinishAction(i)
  PROVE  /\ LoadoutTypes'
         /\ Doing(i, "install") => record'.loadout # {}
         /\ ~Doing(i, "install") /\ ~Doing(i, "uninstall")
              => record'.loadout = record.loadout
<1>0. /\ action[i] \in ActOf /\ ActionOK(action[i]) /\ action[i].hash \in HashOf
      /\ EndsAction(i) /\ action[i].left = {}
  BY DEF LoadoutTypes, ActionTypes, ActOf, FinishAction
<1>1. UNCHANGED <<builtin, page, installing, overlapped, on, off, theirs>>
  BY DEF FinishAction, EndsAction
<1>2. ActionTypes' BY <1>0, EndsTypes
<1>3. PageTypes' BY <1>1 DEF LoadoutTypes, PageTypes
<1>4. hooksPath' \in BOOLEAN
  <2>1. \/ hooksPath' = TRUE \/ hooksPath' = FALSE \/ hooksPath' = hooksPath
    BY DEF FinishAction
  <2> QED BY <2>1 DEF LoadoutTypes, FileTypes
<1>5. FileTypes' BY <1>1, <1>4 DEF LoadoutTypes, FileTypes
<1>6. CASE Doing(i, "install")
  <2> DEFINE done == {s \in Script : action[i].hash[s] # Gone}
  <2>1. record' = [loadout |-> done, hash |-> action[i].hash]
    BY <1>6 DEF FinishAction, Doing
  <2>2. done \in Loadout /\ done # {}
    BY <1>0, <1>6 DEF Doing, ActionOK, LoadoutConstants
  <2>3. \A s \in done : action[i].hash[s] # Gone OBVIOUS
  <2> HIDE DEF done
  <2>4. RecordTypes' BY <1>0, <2>1, <2>2, <2>3 DEF RecordTypes
  <2> QED
    BY <1>2, <1>3, <1>5, <1>6, <2>1, <2>2, <2>4 DEF LoadoutTypes, Doing
<1>7. CASE Doing(i, "uninstall")
  <2>1. record' = NoRecord BY <1>7 DEF FinishAction, Doing
  <2>2. RecordTypes' BY <2>1, NoRecordType DEF RecordTypes
  <2> QED BY <1>2, <1>3, <1>5, <1>7, <2>2 DEF LoadoutTypes, Doing
<1>8. CASE ~Doing(i, "install") /\ ~Doing(i, "uninstall")
  <2>1. record' = Recorded(action[i].hash) BY <1>8 DEF FinishAction
  <2>2. CASE record.loadout = {}
    <3>1. record' = record BY <2>1, <2>2 DEF Recorded
    <3>2. RecordTypes' BY <3>1 DEF LoadoutTypes, RecordTypes
    <3> QED BY <1>2, <1>3, <1>5, <1>8, <3>1, <3>2 DEF LoadoutTypes
  <2>3. CASE record.loadout # {}
    <3> DEFINE hash == [s \in Script |-> IF action[i].hash[s] # Gone
                                         THEN action[i].hash[s]
                                         ELSE record.hash[s]]
    <3>1. record' = [record EXCEPT !.hash = hash]
      BY <2>1, <2>3 DEF Recorded
    <3>2. hash \in HashOf /\ \A s \in record.loadout : hash[s] # Gone
      BY <1>0 DEF LoadoutTypes, RecordTypes, HashOf, LoadoutConstants
    <3> HIDE DEF hash
    <3>3. record'.loadout = record.loadout /\ record'.hash = hash
      BY <3>1 DEF LoadoutTypes, RecordTypes
    <3>4. RecordTypes'
      BY <2>3, <3>1, <3>2, <3>3 DEF LoadoutTypes, RecordTypes
    <3> QED BY <1>2, <1>3, <1>5, <1>8, <3>3, <3>4 DEF LoadoutTypes
  <2> QED BY <2>2, <2>3
<1> QED BY <1>6, <1>7, <1>8

LEMMA OtherStepTypes ==
  ASSUME LoadoutConstants, LoadoutTypes,
         \/ \E i \in Slot : RefreshPage(i)
         \/ \E s \in Script : UserEdits(s)
         \/ Restart \/ UNCHANGED hlVars
  PROVE  LoadoutTypes'
<1>1. ASSUME NEW i \in Slot, RefreshPage(i) PROVE LoadoutTypes'
  <2>1. UNCHANGED <<builtin, files, record, overlapped>> /\ page' = Read
    BY <1>1 DEF RefreshPage
  <2>2. PageTypes'
    BY <1>1, <2>1, ReadType DEF RefreshPage, LoadoutTypes, PageTypes,
       RecordTypes
  <2>3. ActionTypes'
    BY <1>1, NoRecordType DEF RefreshPage, LoadoutTypes, ActionTypes
  <2> QED
    BY <2>1, <2>2, <2>3 DEF files, LoadoutTypes, FileTypes, RecordTypes
<1>2. ASSUME NEW s \in Script, UserEdits(s) PROVE LoadoutTypes'
  <2>1. /\ UNCHANGED <<builtin, theirs, hooksPath, record, page, installing,
                       action, overlapped>>
        /\ on' \in [Script -> Copy] /\ off' \in [Script -> Copy]
    BY <1>2 DEF UserEdits, LoadoutTypes, FileTypes, Copy, Text
  <2> QED
    BY <2>1 DEF LoadoutTypes, FileTypes, RecordTypes, PageTypes, ActionTypes
<1>3. CASE Restart
  <2>1. /\ builtin' \in {"old", "new"} /\ installing' = FALSE
        /\ UNCHANGED <<files, record, overlapped>> /\ page' = Read'
        /\ action' = [i \in Slot |-> Idle]
    BY <1>3 DEF Restart, LoadoutTypes, FileTypes
  <2>2. PageTypes'
    BY <2>1, ReadType DEF LoadoutTypes, PageTypes, RecordTypes
  <2>3. ActionTypes' BY <2>1, NoRecordType DEF ActionTypes
  <2> QED
    BY <2>1, <2>2, <2>3 DEF files, LoadoutTypes, FileTypes, RecordTypes
<1>4. CASE UNCHANGED hlVars
  BY <1>4 DEF hlVars, files, LoadoutTypes, FileTypes, RecordTypes, PageTypes,
     ActionTypes
<1> QED BY <1>1, <1>2, <1>3, <1>4

LEMMA StepLoadoutTypes ==
  ASSUME LoadoutConstants, LoadoutTypes, [LoadoutNext]_hlVars
  PROVE  LoadoutTypes'
<1>1. CASE \/ OnInstall \/ OnUninstall \/ OnUpdate
           \/ \E s \in Script : OnSave(s) \/ OnReset(s) \/ OnToggle(s)
  BY <1>1, PageStepTypes
<1>2. ASSUME NEW i \in Slot,
             \/ \E s \in Script : \/ InstallScript(i, s)
                                 \/ RemoveDirectory(i, s)
                                 \/ ChooseTarget(i, s)
             \/ RemoveTheirs(i) \/ WriteTarget(i)
      PROVE  LoadoutTypes'
  BY <1>2, FileStepTypes
<1>3. ASSUME NEW i \in Slot, FinishAction(i) PROVE LoadoutTypes'
  BY <1>3, FinishTypes
<1>4. CASE \/ \E i \in Slot : RefreshPage(i)
           \/ \E s \in Script : UserEdits(s)
           \/ Restart \/ UNCHANGED hlVars
  BY <1>4, OtherStepTypes
<1> QED BY <1>1, <1>2, <1>3, <1>4 DEF LoadoutNext

LEMMA AlwaysLoadoutTypes ==
  ASSUME LoadoutConstants PROVE LoadoutSpec => []LoadoutTypes
<1>1. LoadoutInit => LoadoutTypes BY InitLoadoutTypes
<1>2. LoadoutTypes /\ [LoadoutNext]_hlVars => LoadoutTypes'
  BY StepLoadoutTypes
<1> QED BY <1>1, <1>2, PTL DEF LoadoutSpec

\* The files, the record and the page keep their types, and a loadout that is
\* recorded has a hash of every script of it.
THEOREM LoadoutTypesCorrect ==
  ASSUME LoadoutConstants PROVE LoadoutSpec => []LoadoutTypeOK
BY LoadoutTypesAre, AlwaysLoadoutTypes, PTL

\* What the user made of an installed script is never taken for an older
\* version, whatever actions, restarts and updates it has been through.
THEOREM EditsAreRecognized ==
  ASSUME LoadoutConstants PROVE LoadoutSpec => []EditsAreSeen
<1>1. LoadoutTypes => EditsAreSeen
  BY DEF LoadoutConstants, LoadoutTypes, FileTypes, RecordTypes, HashOf, Text,
     EditsAreSeen, Classify
<1> QED BY <1>1, AlwaysLoadoutTypes, PTL

-----------------------------------------------------------------------------
(* HookLoadouts: as long as no action begins while another is not over.     *)

\* What an action under way takes for granted of the files and the record.
Sound(a) ==
  /\ a.what = "install" => record.loadout = {}
  /\ a.what = "uninstall" => \A s \in Script \ a.left : ~Exists(s)
  /\ a.target # <<>> => a.target[2] = (off[a.target[1]] # Gone)

Quiet == \A i \in Slot : action[i] = Idle
OneAtATime == \A i, j \in Slot : action[i] # Idle /\ action[j] # Idle => i = j
NothingOff == record.loadout = {} => \A s \in Script : off[s] = Gone
NoTwoCopies == \A s \in Script : on[s] = Gone \/ off[s] = Gone

Orderly ==
  ~overlapped => /\ OneAtATime /\ (Quiet => page.loadout = record.loadout)
                 /\ \A i \in Slot : Sound(action[i])
                 /\ NothingOff /\ NoTwoCopies

LEMMA IdleSound == Sound(Idle) /\ Sound(Idle)'
BY DEF Sound, Idle, Act

LEMMA InitOrderly == LoadoutInit => Orderly
<1> SUFFICES ASSUME LoadoutInit PROVE Orderly OBVIOUS
<1>1. \A i \in Slot : action[i] = Idle BY DEF LoadoutInit
<1>2. page.loadout = record.loadout BY ReadType DEF LoadoutInit
<1>3. \A s \in Script : off[s] = Gone BY DEF LoadoutInit, NoFile
<1> QED
  BY <1>1, <1>2, <1>3, IdleSound DEF Orderly, OneAtATime, NothingOff,
     NoTwoCopies

\* An action that begins alone begins sound, and leaves the rest idle.
LEMMA BeginOrderly ==
  ASSUME LoadoutConstants, LoadoutTypes, Orderly, ~overlapped',
         NEW what \in What \ {"idle"}, NEW left \in SUBSET Script,
         Begin(what, left)
  PROVE  /\ ~overlapped /\ Quiet /\ ~Quiet' /\ OneAtATime'
         /\ (what = "install" => record'.loadout = {})
              /\ (what = "uninstall" => left = Script)
              => \A i \in Slot : Sound(action[i])'
<1>1. ~overlapped /\ Quiet BY DEF Begin, Quiet
<1> DEFINE act == Act(what, left, <<>>, NoRecord.hash)
<1>2. PICK i \in Slot : action' = [action EXCEPT ![i] = act] BY DEF Begin
<1>3. act.what = what /\ act.left = left /\ act.target = <<>> /\ act # Idle
  BY DEF Act, Idle
<1> HIDE DEF act
<1>4. \A j \in Slot : action'[j] = IF j = i THEN act ELSE Idle
  BY <1>1, <1>2 DEF LoadoutTypes, ActionTypes, Quiet
<1>5. ~Quiet' /\ OneAtATime' BY <1>3, <1>4 DEF Quiet, OneAtATime
<1>6. ASSUME what = "install" => record'.loadout = {},
             what = "uninstall" => left = Script
      PROVE  Sound(act)'
  BY <1>3, <1>6 DEF Sound
<1> QED BY <1>1, <1>4, <1>5, <1>6, IdleSound

LEMMA PageStepOrderly ==
  ASSUME LoadoutConstants, LoadoutTypes, Orderly,
         \/ OnInstall \/ OnUninstall \/ OnUpdate
         \/ \E s \in Script : OnSave(s) \/ OnReset(s) \/ OnToggle(s)
  PROVE  Orderly'
<1> SUFFICES ASSUME ~overlapped'
             PROVE  /\ OneAtATime' /\ ~Quiet' /\ NothingOff' /\ NoTwoCopies'
                    /\ \A i \in Slot : Sound(action[i])'
  BY DEF Orderly
<1>1. ASSUME NEW what \in What \ {"idle"}, NEW left \in SUBSET Script,
             Button(what, left), what = "install" => page.loadout = {},
             what = "uninstall" => left = Script
      PROVE  /\ OneAtATime' /\ ~Quiet' /\ NothingOff' /\ NoTwoCopies'
             /\ \A i \in Slot : Sound(action[i])'
  <2>1. Begin(what, left) /\ UNCHANGED <<files, record, page>>
    BY <1>1 DEF Button
  <2>2. ~overlapped /\ Quiet BY <2>1, BeginOrderly
  <2>3. what = "install" => record'.loadout = {}
    BY <1>1, <2>1, <2>2 DEF Orderly
  <2>4. NothingOff' /\ NoTwoCopies'
    BY <2>1, <2>2 DEF files, Orderly, NothingOff, NoTwoCopies
  <2> QED BY <1>1, <2>1, <2>3, <2>4, BeginOrderly
<1>2. CASE OnInstall
  <2>1. PICK left \in Loadout : page.loadout = {} /\ Button("install", left)
    BY <1>2 DEF OnInstall
  <2>2. left \in SUBSET Script BY DEF LoadoutConstants
  <2> QED BY <1>1, <2>1, <2>2 DEF What
<1>3. CASE OnUninstall
  BY <1>1, <1>3 DEF OnUninstall, What
<1>4. CASE OnUpdate
  <2>1. PICK left \in SUBSET Script : Button("update", left)
    BY <1>4 DEF OnUpdate
  <2> QED BY <1>1, <2>1 DEF What
<1>5. ASSUME NEW s \in Script, OnSave(s) \/ OnReset(s)
      PROVE  /\ OneAtATime' /\ ~Quiet' /\ NothingOff' /\ NoTwoCopies'
             /\ \A i \in Slot : Sound(action[i])'
  <2>1. {s} \in SUBSET Script OBVIOUS
  <2>2. Button("save", {s}) \/ Button("reset", {s})
    BY <1>5 DEF OnSave, OnReset
  <2> QED BY <1>1, <2>1, <2>2 DEF What
<1>6. ASSUME NEW s \in Script, OnToggle(s)
      PROVE  /\ OneAtATime' /\ ~Quiet' /\ NothingOff' /\ NoTwoCopies'
             /\ \A i \in Slot : Sound(action[i])'
  <2>1. Begin("refresh", {}) /\ "refresh" \in What \ {"idle"}
    BY <1>6 DEF OnToggle, What
  <2>2. ~overlapped /\ Quiet BY <2>1, BeginOrderly
  <2>3. record.loadout # {} /\ record' = record
    BY <1>6, <2>2 DEF OnToggle, Orderly
  <2>4. NothingOff' BY <2>3 DEF NothingOff
  <2>5. NoTwoCopies'
    <3>1. NoTwoCopies BY <2>2 DEF Orderly
    <3>2. CASE on' = [on EXCEPT ![s] = off[s]] /\ off' = [off EXCEPT ![s] = Gone]
      BY <3>1, <3>2 DEF NoTwoCopies, LoadoutTypes, FileTypes
    <3>3. CASE off' = [off EXCEPT ![s] = on[s]] /\ on' = [on EXCEPT ![s] = Gone]
      BY <3>1, <3>3 DEF NoTwoCopies, LoadoutTypes, FileTypes
    <3>4. CASE UNCHANGED <<on, off>>
      BY <3>1, <3>4 DEF NoTwoCopies
    <3> QED BY <1>6, <3>2, <3>3, <3>4 DEF OnToggle, Renamed
  <2> QED BY <2>1, <2>4, <2>5, BeginOrderly
<1> QED BY <1>2, <1>3, <1>4, <1>5, <1>6

\* The action under way goes on, alone.
LEMMA MoveOrderly ==
  ASSUME LoadoutTypes, Orderly, ~overlapped, NEW i \in Slot,
         action[i] # Idle, NEW act, act # Idle,
         action' = [action EXCEPT ![i] = act], Sound(act)',
         NothingOff', NoTwoCopies'
  PROVE  Orderly'
<1>1. \A j \in Slot : action'[j] = IF j = i THEN act ELSE Idle
  BY DEF LoadoutTypes, ActionTypes, Orderly, OneAtATime
<1>2. OneAtATime' /\ ~Quiet' BY <1>1 DEF OneAtATime, Quiet
<1>3. \A j \in Slot : Sound(action[j])' BY <1>1, IdleSound
<1> QED BY <1>2, <1>3 DEF Orderly

LEMMA ActParts ==
  ASSUME NEW what, NEW left, NEW target, NEW hash
  PROVE  /\ Act(what, left, target, hash).what = what
         /\ Act(what, left, target, hash).left = left
         /\ Act(what, left, target, hash).target = target
         /\ what # "idle" => Act(what, left, target, hash) # Idle
BY DEF Act, Idle

LEMMA FileStepOrderly ==
  ASSUME LoadoutConstants, LoadoutTypes, Orderly, NEW i \in Slot,
         \/ \E s \in Script : \/ InstallScript(i, s) \/ RemoveDirectory(i, s)
                             \/ ChooseTarget(i, s)
         \/ RemoveTheirs(i) \/ WriteTarget(i)
  PROVE  Orderly'
<1> SUFFICES ASSUME ~overlapped' PROVE Orderly'
  BY DEF Orderly
<1>1. UNCHANGED <<overlapped, record>>
  BY DEF InstallScript, RemoveDirectory, ChooseTarget, RemoveTheirs,
     WriteTarget, Go, EndsAction
<1>2. ~overlapped /\ Sound(action[i]) /\ NothingOff /\ NoTwoCopies
  BY <1>1 DEF Orderly
<1>3. /\ action[i].what = "idle" => action[i].target = <<>>
      /\ on \in [Script -> Copy] /\ off \in [Script -> Copy]
      /\ builtin # Gone /\ "mine" # Gone /\ "idle" # "mine"
  BY DEF LoadoutConstants, Text, LoadoutTypes, FileTypes, ActionTypes,
     ActionOK, Idle, Act
<1>4. action[i].what # "idle" => action[i] # Idle BY DEF Idle, Act
<1>5. ASSUME NEW s \in Script, InstallScript(i, s) PROVE Orderly'
  <2>1. PICK act : act = Act(action[i].what, action[i].left \ {s}, <<>>,
                             Hashed(i, s))
    OBVIOUS
  <2>2. /\ action[i].what = "install" /\ action' = [action EXCEPT ![i] = act]
        /\ UNCHANGED off
    BY <1>5, <2>1 DEF InstallScript, Doing, Go
  <2>3. act.what = "install" /\ act.target = <<>> /\ act # Idle
    BY <2>1, <2>2, ActParts
  <2>4. record.loadout = {} /\ \A t \in Script : off[t] = Gone
    BY <1>2, <2>2 DEF Sound, NothingOff
  <2>5. Sound(act)' /\ NothingOff' /\ NoTwoCopies'
    BY <1>1, <2>2, <2>3, <2>4 DEF Sound, NothingOff, NoTwoCopies
  <2> QED BY <1>2, <1>4, <2>2, <2>3, <2>5, MoveOrderly
<1>6. ASSUME NEW s \in Script, RemoveDirectory(i, s) PROVE Orderly'
  <2>1. PICK act : act = Act(action[i].what, action[i].left \ {s}, <<>>,
                             action[i].hash)
    OBVIOUS
  <2>2. /\ action[i].what = "uninstall" /\ action' = [action EXCEPT ![i] = act]
        /\ on' = [on EXCEPT ![s] = Gone] /\ off' = [off EXCEPT ![s] = Gone]
    BY <1>6, <2>1 DEF RemoveDirectory, Doing, Go
  <2>3. /\ act.what = "uninstall" /\ act.target = <<>> /\ act # Idle
        /\ act.left = action[i].left \ {s}
    BY <2>1, <2>2, ActParts
  <2>4. \A t \in Script \ action[i].left : ~Exists(t) BY <1>2, <2>2 DEF Sound
  <2>5. Sound(act)'
    BY <1>3, <2>2, <2>3, <2>4 DEF Sound, Exists
  <2>6. NothingOff' /\ NoTwoCopies'
    BY <1>1, <1>2, <1>3, <2>2 DEF NothingOff, NoTwoCopies
  <2> QED BY <1>2, <1>4, <2>2, <2>3, <2>5, <2>6, MoveOrderly
<1>7. ASSUME NEW s \in Script, ChooseTarget(i, s) PROVE Orderly'
  <2>1. PICK act : act = Act(action[i].what, action[i].left,
                             <<s, off[s] # Gone>>, action[i].hash)
    OBVIOUS
  <2>2. /\ action[i].what \in {"update", "save", "reset"}
        /\ action' = [action EXCEPT ![i] = act] /\ UNCHANGED <<on, off>>
    BY <1>7, <2>1 DEF ChooseTarget, Go, files
  <2>3. /\ act.what \in {"update", "save", "reset"} /\ act # Idle
        /\ act.target = <<s, off[s] # Gone>>
    BY <2>1, <2>2, ActParts
  <2>4. act.target[1] = s /\ act.target[2] = (off[s] # Gone) BY <2>3
  <2>5. Sound(act)' BY <2>2, <2>3, <2>4 DEF Sound
  <2>6. NothingOff' /\ NoTwoCopies'
    BY <1>1, <1>2, <2>2 DEF NothingOff, NoTwoCopies
  <2> QED BY <1>2, <1>4, <2>2, <2>3, <2>5, <2>6, MoveOrderly
<1>8. CASE RemoveTheirs(i)
  <2>1. PICK act : act = Act(action[i].what, action[i].left, <<>>,
                             action[i].hash)
    OBVIOUS
  <2>2. /\ action[i].what = "uninstall" /\ action' = [action EXCEPT ![i] = act]
        /\ UNCHANGED <<on, off>>
    BY <1>8, <2>1 DEF RemoveTheirs, Doing, Go
  <2>3. /\ act.what = "uninstall" /\ act.target = <<>> /\ act # Idle
        /\ act.left = action[i].left
    BY <2>1, <2>2, ActParts
  <2>4. Sound(act)' /\ NothingOff' /\ NoTwoCopies'
    BY <1>1, <1>2, <2>2, <2>3 DEF Sound, Exists, NothingOff, NoTwoCopies
  <2> QED BY <1>2, <1>4, <2>2, <2>3, <2>4, MoveOrderly
<1>9. CASE WriteTarget(i)
  <2> DEFINE s == action[i].target[1]
             text == IF Doing(i, "save") THEN "mine" ELSE builtin
             hash == IF Doing(i, "save") THEN action[i].hash
                     ELSE Hashed(i, s)
  <2>1. /\ action[i].target # <<>> /\ action[i].what # "idle"
        /\ action[i].what \in {"update", "save", "reset"}
        /\ action[i].target[2] = (off[s] # Gone)
    BY <1>2, <1>3, <1>9 DEF WriteTarget, LoadoutTypes, ActionTypes, ActionOK,
       Sound
  <2>2. action[i] # Idle /\ text # Gone
    BY <1>3, <1>4, <2>1
  <2>3. CASE EndsAction(i) /\ UNCHANGED files
    <3>1. PICK act : act = Act("refresh", {}, <<>>, NoRecord.hash) OBVIOUS
    <3>2. action' = [action EXCEPT ![i] = act] /\ UNCHANGED <<on, off>>
      BY <2>3, <3>1 DEF EndsAction, files
    <3>3. act.what = "refresh" /\ act.target = <<>> /\ act # Idle
      BY <3>1, ActParts
    <3>4. Sound(act)' /\ NothingOff' /\ NoTwoCopies'
      BY <1>1, <1>2, <3>2, <3>3 DEF Sound, NothingOff, NoTwoCopies
    <3> QED BY <1>2, <2>2, <3>2, <3>3, <3>4, MoveOrderly
  <2>4. CASE /\ Go(i, action[i].left \ {s}, <<>>, hash)
             /\ IF action[i].target[2]
                THEN off' = [off EXCEPT ![s] = text] /\ UNCHANGED on
                ELSE on' = [on EXCEPT ![s] = text] /\ UNCHANGED off
    <3>1. PICK act : act = Act(action[i].what, action[i].left \ {s}, <<>>,
                               hash)
      OBVIOUS
    <3>2. action' = [action EXCEPT ![i] = act] BY <2>4, <3>1 DEF Go
    <3>3. /\ act.what \in {"update", "save", "reset"} /\ act.target = <<>>
          /\ act # Idle
      BY <2>1, <3>1, ActParts
    <3>4. Sound(act)' BY <3>3 DEF Sound
    <3> HIDE DEF s, text, hash
    <3>5. NothingOff' /\ NoTwoCopies'
      BY <1>1, <1>2, <1>3, <2>1, <2>2, <2>4 DEF NothingOff, NoTwoCopies
    <3> QED BY <1>2, <2>2, <3>2, <3>3, <3>4, <3>5, MoveOrderly
  <2> QED BY <1>9, <2>3, <2>4 DEF WriteTarget
<1> QED BY <1>5, <1>6, <1>7, <1>8, <1>9

\* An uninstallation that ends has left no script, and an installation that
\* ends is recorded.
LEMMA FinishOrderly ==
  ASSUME LoadoutConstants, LoadoutTypes, Orderly, NEW i \in Slot,
         FinishAction(i)
  PROVE  Orderly'
<1> SUFFICES ASSUME ~overlapped' PROVE Orderly'
  BY DEF Orderly
<1>1. /\ UNCHANGED <<overlapped, on, off>> /\ action[i].what # "idle"
      /\ action[i].left = {}
  BY DEF FinishAction, EndsAction
<1>2. ~overlapped /\ Sound(action[i]) /\ NothingOff /\ NoTwoCopies
  BY <1>1 DEF Orderly
<1>3. PICK act : act = Act("refresh", {}, <<>>, NoRecord.hash) OBVIOUS
<1>4. action' = [action EXCEPT ![i] = act] /\ action[i] # Idle
  BY <1>1, <1>3 DEF FinishAction, EndsAction, Idle, Act
<1>5. act.what = "refresh" /\ act.target = <<>> /\ act # Idle
  BY <1>3, ActParts
<1>6. Sound(act)' BY <1>5 DEF Sound
<1>7. NothingOff'
  <2> SUFFICES ASSUME record'.loadout = {}, NEW s \in Script
               PROVE  off'[s] = Gone
    BY DEF NothingOff
  <2>1. CASE Doing(i, "uninstall")
    BY <1>1, <1>2, <2>1 DEF Doing, Sound, Exists
  <2>2. CASE ~Doing(i, "uninstall")
    BY <1>1, <1>2, <2>2, FinishTypes DEF NothingOff
  <2> QED BY <2>1, <2>2
<1>8. NoTwoCopies' BY <1>1, <1>2 DEF NoTwoCopies
<1> QED BY <1>2, <1>4, <1>5, <1>6, <1>7, <1>8, MoveOrderly

LEMMA OtherStepOrderly ==
  ASSUME LoadoutConstants, LoadoutTypes, Orderly,
         \/ \E i \in Slot : RefreshPage(i)
         \/ \E s \in Script : UserEdits(s)
         \/ Restart \/ UNCHANGED hlVars
  PROVE  Orderly'
<1> SUFFICES ASSUME ~overlapped' PROVE Orderly'
  BY DEF Orderly
<1>1. UNCHANGED <<overlapped, record>>
  BY DEF RefreshPage, UserEdits, Restart, hlVars
<1>2. OneAtATime /\ NothingOff /\ NoTwoCopies BY <1>1 DEF Orderly
<1>3. ASSUME NEW i \in Slot, RefreshPage(i) PROVE Orderly'
  <2>1. action[i] # Idle BY <1>3 DEF RefreshPage, Doing, Idle, Act
  <2>2. \A j \in Slot : action'[j] = Idle
    BY <1>2, <1>3, <2>1 DEF RefreshPage, OneAtATime, LoadoutTypes, ActionTypes
  <2>3. page'.loadout = record'.loadout
    BY <1>1, <1>3, ReadType DEF RefreshPage
  <2>4. NothingOff' /\ NoTwoCopies'
    BY <1>1, <1>2, <1>3 DEF RefreshPage, files, NothingOff, NoTwoCopies
  <2> QED BY <2>2, <2>3, <2>4, IdleSound DEF Orderly, OneAtATime
<1>4. ASSUME NEW s \in Script, UserEdits(s) PROVE Orderly'
  <2>1. UNCHANGED <<record, page, action>>
    BY <1>4 DEF UserEdits
  <2>2. \A t \in Script : /\ on'[t] = Gone <=> on[t] = Gone
                          /\ off'[t] = Gone <=> off[t] = Gone
    BY <1>4 DEF UserEdits, LoadoutConstants, Text, LoadoutTypes, FileTypes
  <2>3. NothingOff' /\ NoTwoCopies'
    BY <1>2, <2>1, <2>2 DEF NothingOff, NoTwoCopies
  <2>4. \A j \in Slot : Sound(action[j])'
    <3> SUFFICES ASSUME NEW j \in Slot PROVE Sound(action[j])' OBVIOUS
    <3>1. Sound(action[j]) BY <1>1 DEF Orderly
    <3>2. action[j].target # <<>> => action[j].target[1] \in Script
      BY DEF LoadoutTypes, ActionTypes, ActOf
    <3> QED BY <2>1, <2>2, <3>1, <3>2 DEF Sound, Exists
  <2>5. OneAtATime' /\ (Quiet' => page'.loadout = record'.loadout)
    BY <1>1, <2>1 DEF Orderly, OneAtATime, Quiet
  <2> QED BY <2>3, <2>4, <2>5 DEF Orderly
<1>5. CASE Restart
  <2>1. \A j \in Slot : action'[j] = Idle BY <1>5 DEF Restart
  <2>2. page'.loadout = record'.loadout BY <1>5, ReadType DEF Restart
  <2>3. NothingOff' /\ NoTwoCopies'
    BY <1>1, <1>2, <1>5 DEF Restart, files, NothingOff, NoTwoCopies
  <2> QED BY <2>1, <2>2, <2>3, IdleSound DEF Orderly, OneAtATime
<1>6. CASE UNCHANGED hlVars
  BY <1>6 DEF hlVars, files, Orderly, OneAtATime, Quiet, Sound, Exists,
     NothingOff, NoTwoCopies
<1> QED BY <1>3, <1>4, <1>5, <1>6

LEMMA StepOrderly ==
  ASSUME LoadoutConstants, LoadoutTypes, Orderly, [LoadoutNext]_hlVars
  PROVE  Orderly'
<1>1. CASE \/ OnInstall \/ OnUninstall \/ OnUpdate
           \/ \E s \in Script : OnSave(s) \/ OnReset(s) \/ OnToggle(s)
  BY <1>1, PageStepOrderly
<1>2. ASSUME NEW i \in Slot,
             \/ \E s \in Script : \/ InstallScript(i, s)
                                 \/ RemoveDirectory(i, s)
                                 \/ ChooseTarget(i, s)
             \/ RemoveTheirs(i) \/ WriteTarget(i)
      PROVE  Orderly'
  BY <1>2, FileStepOrderly
<1>3. ASSUME NEW i \in Slot, FinishAction(i) PROVE Orderly'
  BY <1>3, FinishOrderly
<1>4. CASE \/ \E i \in Slot : RefreshPage(i)
           \/ \E s \in Script : UserEdits(s)
           \/ Restart \/ UNCHANGED hlVars
  BY <1>4, OtherStepOrderly
<1> QED BY <1>1, <1>2, <1>3, <1>4 DEF LoadoutNext

LEMMA AlwaysOrderly ==
  ASSUME LoadoutConstants PROVE LoadoutSpec => []Orderly
<1>1. LoadoutInit => Orderly BY InitOrderly
<1>2. LoadoutTypes /\ Orderly /\ [LoadoutNext]_hlVars => Orderly'
  BY StepOrderly
<1> QED BY <1>1, <1>2, AlwaysLoadoutTypes, PTL DEF LoadoutSpec

\* As long as no switch is thrown in the middle of another action, no script
\* is there both switched on and switched off: whatever an action interrupted
\* by a restart has left, the next one begins from it.
THEOREM OneCopyIsThere ==
  ASSUME LoadoutConstants PROVE LoadoutSpec => []OneCopy
<1>1. Orderly => OneCopy BY DEF Orderly, NoTwoCopies, OneCopy
<1> QED BY <1>1, AlwaysOrderly, PTL

\* Of all the steps, only the end of an uninstallation takes a loadout out of
\* the record, and by then its scripts and core.hooksPath are gone, after an
\* installation or an uninstallation a restart cut short too.
THEOREM UninstallLeavesNothing ==
  ASSUME LoadoutConstants PROVE LoadoutSpec => UninstallCleans
<1>1. LoadoutTypes /\ Orderly /\ [LoadoutNext]_hlVars
        => [record.loadout # {} /\ record'.loadout = {} /\ ~overlapped
              => ~hooksPath' /\ \A s \in Script : ~Exists(s)']_hlVars
  <2> SUFFICES ASSUME LoadoutTypes, Orderly, LoadoutNext,
                      record.loadout # {}, record'.loadout = {}, ~overlapped
               PROVE  ~hooksPath' /\ \A s \in Script : ~Exists(s)'
    OBVIOUS
  <2>1. PICK i \in Slot : FinishAction(i)
    <3>1. record' # record OBVIOUS
    <3> QED
      BY <3>1 DEF LoadoutNext, OnInstall, OnUninstall, OnUpdate, OnSave,
         OnReset, OnToggle, Button, InstallScript, RemoveDirectory,
         ChooseTarget, RemoveTheirs, WriteTarget, RefreshPage, UserEdits,
         Restart
  <2>2. Doing(i, "uninstall") BY <2>1, FinishTypes
  <2>3. UNCHANGED <<on, off>> /\ action[i].left = {} /\ hooksPath' = FALSE
    BY <2>1, <2>2 DEF FinishAction, Doing
  <2>4. \A s \in Script : ~Exists(s)
    BY <2>2, <2>3 DEF Orderly, Sound, Doing
  <2> QED BY <2>3, <2>4 DEF Exists
<1> QED BY <1>1, AlwaysLoadoutTypes, AlwaysOrderly, PTL
        DEF LoadoutSpec, UninstallCleans
=============================================================================
