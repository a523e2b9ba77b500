------------------------- MODULE PullRequestUpdater -------------------------
(***************************************************************************)
(* The timers of PullRequestUpdater.  The app store starts an updater when *)
(* a repository is selected or the window is focused, and stops it when    *)
(* the selection changes or the focus is lost; the coordinator keeps the   *)
(* current one.  A refresh asked for while one is running joins it.  The   *)
(* user refreshes too, by opening the list of pull requests.               *)
(*                                                                         *)
(* A timer is the time left until it is due; `age` is the time since the   *)
(* latest refresh began, Interval standing for longer and for never.       *)
(***************************************************************************)
EXTENDS Naturals

CONSTANTS Updater,    \* PullRequestUpdater objects that exist at a time
          Null,
          Often,      \* MaxPullRequestRefreshFrequency
          Interval,   \* PullRequestInterval
          MaxTimers   \* bound: timers of one updater counted per due time

UpdaterConstants ==
  /\ Null \notin Updater
  /\ Often \in Nat /\ Interval \in Nat /\ Often <= Interval
  /\ MaxTimers \in Nat \ {0}

Due == 0 .. Interval

VARIABLES
  updater,     \* currentPullRequestUpdater
  running,     \* updaters that have been started and not stopped
  timers,      \* how many timers of an updater are due when
  handle,      \* timeoutId
  waiting,     \* ticks of an updater that wait for the refresh to end
  refreshing,  \* currentRefreshOperations has the repository
  age

puVars == <<updater, running, timers, handle, waiting, refreshing, age>>

NoTimers == [d \in Due |-> 0]

UpdaterInit ==
  /\ updater = Null /\ running = {}
  /\ timers = [u \in Updater |-> NoTimers]
  /\ handle = [u \in Updater |-> Null]
  /\ waiting = [u \in Updater |-> 0]
  /\ refreshing = FALSE /\ age = Interval

Count(n) == IF n > MaxTimers THEN MaxTimers ELSE n

\* scheduleTick, `n` times over.
DueIn(timeout)   == IF timeout > age THEN timeout - age ELSE 0
Add(ts, d, n)    == [ts EXCEPT ![d] = Count(@ + n)]
Drop(ts, d)      == IF d = Null \/ ts[d] = 0 THEN ts
                                             ELSE [ts EXCEPT ![d] = @ - 1]

\* Nothing of an earlier updater is left: the object can be another one.
Free(u) == /\ u \notin running /\ timers[u] = NoTimers /\ waiting[u] = 0

\* Mutant: the previous updater runs on.
MutantWithoutLast == running
WithoutLast == running \ {updater}

\* The timer of the current updater that its handle names is cleared.
Cleared == IF updater = Null THEN timers
           ELSE [timers EXCEPT ![updater] = Drop(@, handle[updater])]

\* startPullRequestUpdater
Start(u) ==
  /\ Free(u) /\ u # updater
  /\ updater' = u
  /\ running' = WithoutLast \cup {u}
  /\ timers' = [Cleared EXCEPT ![u] = Add(@, DueIn(Often), 1)]
  /\ handle' = [handle EXCEPT ![u] = DueIn(Often)]
  /\ UNCHANGED <<waiting, refreshing, age>>

\* stopPullRequestUpdater
Stop ==
  /\ updater # Null
  /\ updater' = Null /\ running' = WithoutLast /\ timers' = Cleared
  /\ UNCHANGED <<handle, waiting, refreshing, age>>

\* The tick of an updater that was stopped does nothing.
FireStopped(u) ==
  /\ u \notin running /\ timers[u][0] > 0
  /\ timers' = [timers EXCEPT ![u] = Drop(@, 0)]
  /\ UNCHANGED <<updater, running, handle, waiting, refreshing, age>>

Early == age < Often

\* Mutant: an early tick waits for its next turn, and schedules none.
MutantFire(u) ==
  /\ u \in running /\ timers[u][0] > 0
  /\ timers' = [timers EXCEPT ![u] = Drop(@, 0)]
  /\ handle' = [handle EXCEPT ![u] = Null]
  /\ IF Early THEN UNCHANGED <<waiting, refreshing, age>>
              ELSE /\ waiting' = [waiting EXCEPT ![u] = Count(@ + 1)]
                   /\ refreshing' = TRUE
                   /\ age' = IF refreshing THEN age ELSE 0
  /\ UNCHANGED <<updater, running>>
\* tick: a refresh too early schedules another one, and goes ahead.
Fire(u) ==
  /\ u \in running /\ timers[u][0] > 0
  /\ IF Early
       THEN /\ timers' = [timers EXCEPT ![u] =
                            Add(Drop(@, 0), DueIn(Interval), 1)]
            /\ handle' = [handle EXCEPT ![u] = DueIn(Interval)]
       ELSE /\ timers' = [timers EXCEPT ![u] = Drop(@, 0)]
            /\ handle' = [handle EXCEPT ![u] = Null]
  /\ waiting' = [waiting EXCEPT ![u] = Count(@ + 1)]
  /\ refreshing' = TRUE
  /\ age' = IF refreshing THEN age ELSE 0
  /\ UNCHANGED <<updater, running>>

UserRefreshes ==
  /\ ~refreshing
  /\ refreshing' = TRUE /\ age' = 0
  /\ UNCHANGED <<updater, running, timers, handle, waiting>>

\* The refresh has succeeded or failed; every tick that waited goes on.
EndRefresh ==
  /\ refreshing /\ refreshing' = FALSE
  /\ timers' = [u \in Updater |->
                  IF u \in running
                    THEN Add(timers[u], DueIn(Interval), waiting[u])
                    ELSE timers[u]]
  /\ handle' = [u \in Updater |->
                  IF u \in running /\ waiting[u] > 0 THEN DueIn(Interval)
                                                     ELSE handle[u]]
  /\ waiting' = [u \in Updater |-> 0]
  /\ UNCHANGED <<updater, running, age>>

\* Time passes; a timer that is due may be late.
Sooner(d) == IF d = 0 THEN 0 ELSE d - 1
PassTime ==
  /\ age' = IF age = Interval THEN age ELSE age + 1
  /\ timers' = [u \in Updater |->
       [d \in Due |->
          IF d = 0 /\ Interval > 0 THEN Count(timers[u][0] + timers[u][1])
          ELSE IF d < Interval THEN timers[u][d + 1] ELSE 0]]
  /\ handle' = [u \in Updater |-> IF handle[u] = Null THEN Null
                                                      ELSE Sooner(handle[u])]
  /\ UNCHANGED <<updater, running, waiting, refreshing>>

UpdaterNext ==
  \/ \E u \in Updater : Start(u) \/ FireStopped(u) \/ Fire(u)
  \/ Stop \/ UserRefreshes \/ EndRefresh \/ PassTime

\* Timers fire, time passes, and requests end.
UpdaterFairness ==
  /\ \A u \in Updater : WF_puVars(Fire(u))
  /\ WF_puVars(EndRefresh)
  /\ WF_puVars(PassTime)

UpdaterSpec     == UpdaterInit /\ [][UpdaterNext]_puVars
FairUpdaterSpec == UpdaterSpec /\ UpdaterFairness

-----------------------------------------------------------------------------
(* Properties.                                                             *)

\* The variables have the shape the actions rely on, and the current updater
\* is the one that runs.
UpdaterTypeOK ==
  /\ updater \in Updater \cup {Null}
  /\ running = {updater} \ {Null}
  /\ timers \in [Updater -> [Due -> 0 .. MaxTimers]]
  /\ handle \in [Updater -> Due \cup {Null}]
  /\ waiting \in [Updater -> 0 .. MaxTimers]
  /\ refreshing \in BOOLEAN /\ age \in Due

\* However the starts, stops, ticks and answers interleave, an updater that
\* was stopped asks for nothing any more.
StoppedIsSilent ==
  [][\A u \in Updater : waiting'[u] > waiting[u] => u = updater]_puVars

\* While it stays the current one, an updater refreshes again and again.
KeepsRefreshing ==
  \A u \in Updater : <>[](updater = u) => []<>(waiting[u] > 0)

\* "We never update more frequently than the value indicated by
\* MaxPullRequestRefreshFrequency."
NeverTooOften ==
  [][\A u \in Updater :
       waiting'[u] > waiting[u] /\ ~refreshing => ~Early]_puVars
=============================================================================
