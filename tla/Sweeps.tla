------------------------------- MODULE Sweeps -------------------------------
(***************************************************************************)
(* RepositoryIndicatorUpdater and AutoSwitchMonitor: two timers that start *)
(* a sweep over the repositories that are not selected, refreshing the     *)
(* indicator of one after the other, and schedule the next when the sweep  *)
(* is over.  Losing the focus pauses them between two repositories.  The   *)
(* monitor selects a repository that shows more changes than it saw last.  *)
(*                                                                         *)
(* stop clears the timer and leaves a sweep to find out for itself; start  *)
(* sets a timer, whatever a sweep from before is doing.  A refresh that    *)
(* rejects ends the sweep, and with it the chain of timers.                *)
(***************************************************************************)
EXTENDS Naturals, FiniteSets

CONSTANTS Repo,       \* repositories; all are in the list at first
          Nothing,
          MaxSweeps,  \* bound: sweeps that are under way at a time
          MaxWork,    \* bound: changes made to working directories
          MaxStarts   \* bound: starts of both sweepers

ASSUME SweepsOK == /\ Nothing \notin Repo /\ MaxSweeps \in Nat
                   /\ MaxWork \in Nat /\ MaxStarts \in Nat \ {0}

\* Indicators may be shown for every repository; the monitor sees only those.
Sweeper == {"indicators", "autoSwitch"}

VARIABLES
  enabled,   \* `running` of the two sweepers, a setting
  starts,    \* of each sweeper, how often start did something
  focus,     \* paused is its negation
  clockSet,  \* timeoutId is not null
  sweep,     \* the sweeps under way
  selection, list,
  changed,   \* changes in each working directory
  shown,     \* localRepositoryStateLookup: changedFilesCount
  seen,      \* the monitor's snapshot
  cooling,   \* less than CooldownMs since the monitor switched
  work,
  unseen,    \* history: work was done since it was last seen, elsewhere
  severed    \* history: a sweep of the current start rejected

setting == <<enabled, starts>>
repos   == <<selection, list, changed, work>>
views   == <<shown, seen, cooling, unseen>>
sweepVars == <<setting, focus, clockSet, sweep, repos, views, severed>>

Slot == 1 .. MaxSweeps
Idle == [who |-> "none", at |-> "idle", repo |-> Nothing, left |-> {}]
Changes == 0 .. MaxWork

SweepsInit ==
  /\ enabled \in [Sweeper -> BOOLEAN]
  /\ starts = [s \in Sweeper |-> IF enabled[s] THEN 1 ELSE 0]
  /\ focus = TRUE /\ clockSet = enabled /\ sweep = [i \in Slot |-> Idle]
  /\ selection \in Repo \cup {Nothing} /\ list = Repo
  /\ changed = [r \in Repo |-> 0] /\ work = 0
  /\ shown = changed /\ seen = changed /\ cooling = FALSE
  /\ unseen = {} /\ severed = [s \in Sweeper |-> FALSE]

-----------------------------------------------------------------------------
(* Settings, focus and the timers.                                         *)

\* start
TurnOn(s) ==
  /\ ~enabled[s] /\ starts["indicators"] + starts["autoSwitch"] < MaxStarts
  /\ enabled' = [enabled EXCEPT ![s] = TRUE]
  /\ starts' = [starts EXCEPT ![s] = @ + 1]
  /\ clockSet' = [clockSet EXCEPT ![s] = TRUE]
  /\ severed' = [severed EXCEPT ![s] = FALSE]
  /\ UNCHANGED <<focus, sweep, repos, views>>

\* stop
TurnOff(s) ==
  /\ enabled[s] /\ enabled' = [enabled EXCEPT ![s] = FALSE]
  /\ clockSet' = [clockSet EXCEPT ![s] = FALSE]
  /\ UNCHANGED <<starts, focus, sweep, repos, views, severed>>

\* pause and resume, of both.
SetFocus(to) ==
  /\ focus # to /\ focus' = to
  /\ UNCHANGED <<setting, clockSet, sweep, repos, views, severed>>

\* getRepositoriesForIndicatorRefresh
Swept == list \ {selection}

Put(i, who, at, repo, left) ==
  sweep' = [sweep EXCEPT ![i] = [who |-> who, at |-> at, repo |-> repo,
                                 left |-> left]]
End(i) == sweep' = [sweep EXCEPT ![i] = Idle]

\* scheduleRefresh and schedulePoll
Scheduled(s, clock) == [clock EXCEPT ![s] = @ \/ enabled[s]]

\* A sweep of `who` comes to its next repository, or to its end.  Of the
\* indicators `left` are those done, and the list is asked for again each
\* time; of the monitor it is what is left of the list it began with.
Proceed(i, who, left, clock) ==
  LET ahead == IF who = "indicators" THEN Swept \ left ELSE left
      rest(r) == IF who = "indicators" THEN left ELSE left \ {r}
  IN \/ /\ enabled[who]
        /\ \E r \in ahead : Put(i, who, "refresh", r, rest(r))
        /\ clockSet' = clock
     \/ /\ ~enabled[who] \/ ahead = {}
        /\ End(i)
        /\ clockSet' = Scheduled(who, clock)

Vacant(i) == sweep[i] = Idle /\ \A j \in Slot : j < i => sweep[j] # Idle

First(who) == IF who = "indicators" THEN {} ELSE Swept

\* Mutant: the timer is an interval.
MutantTimerFires(s) ==
  /\ clockSet[s]
  /\ \E i \in Slot :
       /\ Vacant(i)
       /\ IF focus THEN Proceed(i, s, First(s), clockSet)
                   ELSE Put(i, s, "held", Nothing, {}) /\ UNCHANGED clockSet
  /\ UNCHANGED <<setting, focus, repos, views, severed>>
\* The timer fires: refreshAllRepositories and poll, which a window without
\* the focus holds up at once.
TimerFires(s) ==
  /\ clockSet[s]
  /\ LET cleared == [clockSet EXCEPT ![s] = FALSE]
     IN \E i \in Slot :
          /\ Vacant(i)
          /\ IF focus THEN Proceed(i, s, First(s), cleared)
                      ELSE /\ Put(i, s, "held", Nothing, {})
                           /\ clockSet' = cleared
  /\ UNCHANGED <<setting, focus, repos, views, severed>>

-----------------------------------------------------------------------------
(* One sweep.                                                              *)

\* Mutant: a sweep that was stopped meanwhile waits until it is started.
MutantBeginHeld(i) ==
  /\ sweep[i].at = "held" /\ focus
  /\ enabled[sweep[i].who]
  /\ Proceed(i, sweep[i].who, First(sweep[i].who), clockSet)
  /\ UNCHANGED <<setting, focus, repos, views, severed>>
\* The focus is back, before the first repository.
BeginHeld(i) ==
  /\ sweep[i].at = "held" /\ focus
  /\ LET who == sweep[i].who
     IN IF enabled[who] THEN Proceed(i, who, First(who), clockSet)
                        ELSE End(i) /\ UNCHANGED clockSet
  /\ UNCHANGED <<setting, focus, repos, views, severed>>

\* refreshIndicatorForRepository has the status, and goes on to fetch.
ReadStatus(i) ==
  /\ sweep[i].at = "refresh"
  /\ shown' = [shown EXCEPT ![sweep[i].repo] = changed[sweep[i].repo]]
  /\ sweep' = [sweep EXCEPT ![i].at = "fetch"]
  /\ UNCHANGED <<setting, focus, clockSet, repos, seen, cooling, unseen,
                 severed>>

\* The status or the fetch rejects, and with it the sweep.
Reject(i) ==
  /\ sweep[i].at \in {"refresh", "fetch"}
  /\ severed' = [severed EXCEPT ![sweep[i].who] = TRUE]
  /\ End(i)
  /\ UNCHANGED <<setting, focus, clockSet, repos, views>>

\* After a repository, a sweep waits while the window has no focus.
GoOn(i) ==
  LET s == sweep[i]
      left == IF s.who = "indicators" THEN s.left \cup {s.repo} ELSE s.left
  IN IF focus THEN Proceed(i, s.who, left, clockSet)
              ELSE /\ Put(i, s.who, "paused", Nothing, left)
                   /\ UNCHANGED clockSet

Refreshed(i) ==
  /\ sweep[i].at = "fetch" /\ sweep[i].who = "indicators"
  /\ GoOn(i)
  /\ UNCHANGED <<setting, focus, repos, views, severed>>

\* The monitor switches to a repository that shows more than it saw.
Wanted(r) ==
  /\ shown[r] > seen[r] /\ ~cooling
  /\ selection # Nothing => shown[selection] = 0

\* The rest of poll for one repository; _selectRepository sets the selection
\* before it awaits anything.
Polled(i) ==
  /\ sweep[i].at = "fetch" /\ sweep[i].who = "autoSwitch"
  /\ LET r == sweep[i].repo
     IN /\ seen' = [seen EXCEPT ![r] = shown[r]]
        /\ unseen' = unseen \ {r}
        /\ selection' = IF Wanted(r) THEN r ELSE selection
        /\ cooling' = (cooling \/ Wanted(r))
  /\ GoOn(i)
  /\ UNCHANGED <<setting, focus, list, changed, work, shown, severed>>

\* Mutant: resumed, a sweep returns as one that was stopped does.
MutantResume(i) ==
  /\ sweep[i].at = "paused" /\ focus
  /\ End(i) /\ UNCHANGED clockSet
  /\ UNCHANGED <<setting, focus, repos, views, severed>>
Resume(i) ==
  /\ sweep[i].at = "paused" /\ focus
  /\ LET s == sweep[i]
     IN IF s.who = "indicators" \/ enabled[s.who]
          THEN Proceed(i, s.who, s.left, clockSet)
          ELSE End(i) /\ UNCHANGED clockSet
  /\ UNCHANGED <<setting, focus, repos, views, severed>>

-----------------------------------------------------------------------------
(* The user.                                                               *)

\* A working directory changes.
Work(r, n) ==
  /\ work < MaxWork /\ work' = work + 1
  /\ changed[r] # n /\ changed' = [changed EXCEPT ![r] = n]
  /\ unseen' = IF n > changed[r] /\ r # selection THEN unseen \cup {r}
                                                 ELSE unseen
  /\ UNCHANGED <<setting, focus, clockSet, sweep, selection, list, shown, seen,
                 cooling, severed>>

\* _refreshRepository of the selected repository, updateSidebarIndicator
RefreshSelected ==
  /\ selection \in Repo
  /\ shown' = [shown EXCEPT ![selection] = changed[selection]]
  /\ UNCHANGED <<setting, focus, clockSet, sweep, repos, seen, cooling, unseen,
                 severed>>

UserSelects(r) ==
  /\ r \in list \ {selection} /\ selection' = r
  /\ UNCHANGED <<setting, focus, clockSet, sweep, list, changed, work, views,
                 severed>>

Remove(r) ==
  /\ r \in list /\ list' = list \ {r}
  /\ selection' = IF selection = r THEN Nothing ELSE selection
  /\ UNCHANGED <<setting, focus, clockSet, sweep, changed, work, views, severed>>

CoolDown ==
  /\ cooling /\ cooling' = FALSE
  /\ UNCHANGED <<setting, focus, clockSet, sweep, repos, shown, seen, unseen,
                 severed>>

-----------------------------------------------------------------------------
Sweep(i) == \/ BeginHeld(i) \/ ReadStatus(i) \/ Refreshed(i)
            \/ Polled(i) \/ Resume(i)

SweepsNext ==
  \/ \E s \in Sweeper : TurnOn(s) \/ TurnOff(s) \/ TimerFires(s)
  \/ \E to \in BOOLEAN : SetFocus(to)
  \/ \E i \in Slot : Sweep(i) \/ Reject(i)
  \/ \E r \in Repo : \/ UserSelects(r) \/ Remove(r)
                      \/ \E n \in Changes : Work(r, n)
  \/ RefreshSelected \/ CoolDown

\* Timers fire, and what git and GitHub are asked is answered.
SweepsFairness ==
  /\ \A s \in Sweeper : WF_sweepVars(TimerFires(s))
  /\ \A i \in Slot : WF_sweepVars(Sweep(i))

SweepsSpec == SweepsInit /\ [][SweepsNext]_sweepVars
FairSpec   == SweepsSpec /\ SweepsFairness

-----------------------------------------------------------------------------
(* Properties.                                                             *)

\* The variables have the shape the actions rely on.
SweepsTypeOK ==
  /\ enabled \in [Sweeper -> BOOLEAN] /\ focus \in BOOLEAN
  /\ starts \in [Sweeper -> 0 .. MaxStarts]
  /\ clockSet \in [Sweeper -> BOOLEAN]
  /\ \A s \in Sweeper : clockSet[s] => enabled[s]
  /\ sweep \in [Slot -> [who : Sweeper \cup {"none"},
                         at : {"idle", "held", "refresh", "fetch", "paused"},
                         repo : Repo \cup {Nothing}, left : SUBSET Repo]]
  /\ selection \in Repo \cup {Nothing} /\ list \subseteq Repo
  /\ changed \in [Repo -> Changes] /\ shown \in [Repo -> Changes]
  /\ seen \in [Repo -> Changes] /\ cooling \in BOOLEAN
  /\ unseen \subseteq Repo /\ severed \in [Sweeper -> BOOLEAN]

Under(s) == {i \in Slot : sweep[i].who = s}
Chains(s) == Cardinality(Under(s)) + IF clockSet[s] THEN 1 ELSE 0

\* "start is idempotent": a sweeper has a timer or a sweep under way, one for
\* each time that it was started, and focus, sweeps and timers add none.
OneChainAStart == \A s \in Sweeper : Chains(s) <= starts[s]

\* Started, focused and with every refresh answered, a sweeper sets its timer
\* again and again.
KeepsSweeping ==
  \A s \in Sweeper :
    <>[](enabled[s] /\ focus /\ ~severed[s]) => []<>clockSet[s]

\* A sweeper that stays stopped comes to rest, once the window has the focus.
StoppedSweepsEnd ==
  \A s \in Sweeper : <>[](~enabled[s] /\ focus) => <>[](Under(s) = {})

Switches(r) == ~cooling /\ cooling' /\ selection' = r

\* "Monitors all non-selected repositories for new working directory changes
\* and auto-switches to the first repo that gains new changes."
SwitchMeansGained == [][\A r \in Repo : Switches(r) => r \in unseen]_sweepVars

\* What the monitor selects is in the list of repositories.
SwitchMeansListed == [][\A r \in Repo : Switches(r) => r \in list]_sweepVars
=============================================================================
