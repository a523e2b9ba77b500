----------------------------- MODULE ClaudeHooks -----------------------------
(***************************************************************************)
(* The loadout of hooks for Claude Code: a tier of commands merged into    *)
(* settings.json, which belongs to another program and to the user, and a  *)
(* note beside it of the commands that were added.  Both are written one   *)
(* after the other, each from what was read before, and the program may    *)
(* end between any two of these.                                           *)
(*                                                                         *)
(* A group of settings.json is the set of its commands.  The page of the   *)
(* preferences asks for one thing at a time.                               *)
(***************************************************************************)
EXTENDS FiniteSets

CONSTANTS Base, Extra,  \* commands of the smaller tier, and of the larger
          UserCommand   \* commands of the user

ClaudeConstants == UserCommand \cap (Base \cup Extra) = {}

Command == Base \cup Extra \cup UserCommand
Tier == {Base, Base \cup Extra}
Group == (SUBSET Command) \ {{}}
NoNote == {}

VARIABLES
  settings, \* settings.json: its groups
  note,     \* .madness-loadout.json: installedCommands
  config,   \* hooks_config.json is there
  doing,    \* the install or uninstall under way
  added,    \* history: commands in the settings that this program put there
  hand,     \* history: commands in the settings that were there before
  torn,     \* history: the program ended between the settings and the note
  raced,    \* history: the settings were edited after they were read
  shared    \* history: the user put a command into a group of another

history == <<added, hand, torn, raced, shared>>
chVars == <<settings, note, config, doing, history>>

Do(what, tier, groups, new) ==
  [what |-> what, tier |-> tier, groups |-> groups, new |-> new]
Nothing == Do("nothing", {}, {}, {})
Commands(groups) == UNION groups

ClaudeInit ==
  /\ settings \in SUBSET {{c} : c \in Command} /\ hand = Commands(settings)
  /\ note = NoNote /\ config \in BOOLEAN /\ doing = Nothing /\ added = {}
  /\ torn = FALSE /\ raced = FALSE /\ shared = FALSE

-----------------------------------------------------------------------------
(* install                                                                 *)

\* existingCommands
Missing(tier) == tier \ Commands(settings)

\* Mutant: the commands join a group that is there.
MutantMerged(new) ==
  IF settings = {} \/ new = {} THEN settings \cup {{c} : c \in new}
  ELSE LET g == CHOOSE g \in settings : TRUE
       IN (settings \ {g}) \cup {g \cup new}
\* mergeSettings: a group for every new command.
Merged(new) == settings \cup {{c} : c \in new}

\* The clone and its manifest are there, and the settings are read.
ReadSettings(tier) ==
  /\ doing = Nothing
  /\ doing' = Do("install", tier, Merged(Missing(tier)), Missing(tier))
  /\ UNCHANGED <<settings, note, config, history>>

\* The settings are written, as they were read and merged.
WriteSettings ==
  /\ doing.what = "install"
  /\ settings' = doing.groups /\ added' = added \cup doing.new
  /\ doing' = [doing EXCEPT !.what = "installed"]
  /\ UNCHANGED <<note, config, hand, torn, raced, shared>>

\* Mutant: a tier takes the place of the one noted before.
MutantNoted(new) == new
\* What was added now, and by what was installed before.
Noted(new) == note \cup new

\* seedHooksConfig and the note.
WriteNote ==
  /\ doing.what = "installed" /\ config' = TRUE
  /\ note' = Noted(doing.new) /\ doing' = Nothing
  /\ UNCHANGED <<settings, history>>

-----------------------------------------------------------------------------
(* uninstall                                                               *)

\* The note is read, and the settings: a group with a command of the note
\* goes.
ReadNote ==
  /\ doing = Nothing /\ note # NoNote
  /\ doing' = Do("uninstall", {}, {g \in settings : g \cap note = {}}, {})
  /\ UNCHANGED <<settings, note, config, history>>

RemoveGroups ==
  /\ doing.what = "uninstall" /\ settings' = doing.groups
  /\ added' = added \cap Commands(settings')
  /\ hand' = hand \cap Commands(settings')
  /\ doing' = [doing EXCEPT !.what = "uninstalled"]
  /\ UNCHANGED <<note, config, torn, raced, shared>>

DropNote ==
  /\ doing.what = "uninstalled" /\ note' = NoNote /\ doing' = Nothing
  /\ UNCHANGED <<settings, config, history>>

-----------------------------------------------------------------------------
(* Outside.                                                                *)

\* The program ends, or a write fails.
Ends ==
  /\ doing # Nothing /\ doing' = Nothing
  /\ torn' = (torn \/ doing.what = "installed")
  /\ UNCHANGED <<settings, note, config, added, hand, raced, shared>>

Edited(groups) ==
  /\ settings' = groups
  /\ added' = added \cap Commands(groups) /\ hand' = hand \cap Commands(groups)
  /\ raced' = (raced \/ doing.what \in {"install", "uninstall"})

\* The user, or Claude Code, adds and removes what is his, and throws out a
\* group of this program.
Edits ==
  /\ \E u \in UserCommand : \/ Edited(settings \cup {{u}}) /\ UNCHANGED shared
                            \/ \E g \in settings :
                                 /\ Edited((settings \ {g}) \cup {g \cup {u}})
                                 /\ shared' = TRUE
     \/ \E g \in settings : Edited(settings \ {g}) /\ UNCHANGED shared
  /\ UNCHANGED <<note, config, doing, torn>>

ClaudeNext ==
  \/ \E tier \in Tier : ReadSettings(tier)
  \/ WriteSettings \/ WriteNote \/ ReadNote \/ RemoveGroups \/ DropNote
  \/ Ends \/ Edits

ClaudeSpec == ClaudeInit /\ [][ClaudeNext]_chVars

-----------------------------------------------------------------------------
(* Properties.                                                             *)

ClaudeTypeOK ==
  /\ settings \subseteq Group /\ note \subseteq Base \cup Extra
  /\ config \in BOOLEAN
  /\ doing.what \in {"nothing", "install", "installed", "uninstall",
                     "uninstalled"}
  /\ doing.groups \subseteq Group /\ doing.new \subseteq Base \cup Extra
  /\ added \subseteq Commands(settings) /\ hand \subseteq Commands(settings)
  /\ \A b \in {torn, raced, shared} : b \in BOOLEAN
  /\ note # NoNote => config

\* Everything this program has written into the settings is in the note, so
\* that uninstalling removes it, unless it ended between the two.
EverythingNoted == doing = Nothing /\ ~torn => added \subseteq note

\* It is, wherever the program ends.
EverythingNotedAlways == doing = Nothing => added \subseteq note

\* Nor does uninstalling remove commands of a loadout that were there before
\* any was installed.
HandwrittenStays == hand \cap note = {}

\* What belongs to the user is never lost from the settings, when he edits them
\* at other times and leaves the groups of this program alone.
UserKept ==
  [][(WriteSettings \/ RemoveGroups) /\ ~raced /\ ~shared
       => Commands(settings) \cap UserCommand
            \subseteq Commands(settings')]_chVars
=============================================================================
