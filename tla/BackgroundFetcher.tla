------------------------- MODULE BackgroundFetcher --------------------------
(***************************************************************************)
(* BackgroundFetcher.  Every selection of a repository on GitHub makes a   *)
(* fetcher and stops the one before it; a fetcher alternates between a     *)
(* timer, a look at FETCH_HEAD, a fetch and a request for the next         *)
(* interval, and looks at its flag after each await.  All of them fetch    *)
(* one repository here, selected again and again, which the user fetches   *)
(* too.                                                                    *)
(***************************************************************************)
EXTENDS Naturals

CONSTANTS Fetcher,   \* BackgroundFetcher objects that exist at a time
          User,      \* the user as the one who fetches
          NoFetcher

FetcherConstants == User \notin Fetcher /\ NoFetcher \notin Fetcher \cup {User}

VARIABLES
  fetcher,    \* currentBackgroundFetcher
  stopped,    \* fetchers whose `stopped` flag is up
  chain,      \* what performAndScheduleFetch of a fetcher waits for
  due,        \* what shouldPerformFetch read
  fetching,   \* who holds the push-pull-fetch flag of the repository
  young      \* FETCH_HEAD is younger than BackgroundFetchMinimumInterval

fetchVars == <<fetcher, stopped, chain, due, fetching, young>>

Chain == {"over", "timer", "reading", "read", "fetch", "interval"}

FetcherInit ==
  /\ fetcher = NoFetcher /\ stopped = Fetcher
  /\ chain = [f \in Fetcher |-> "over"]
  /\ due = [f \in Fetcher |-> FALSE]
  /\ fetching = NoFetcher /\ young \in BOOLEAN

\* Mutant: stop clears the timer and leaves the flag alone.
MutantStops == stopped
\* stop: the flag of the current fetcher, and its timer if it waits for one.
Stops == stopped \cup ({fetcher} \ {NoFetcher})
TimerCleared == [f \in Fetcher |-> IF f = fetcher /\ chain[f] = "timer"
                                THEN "over" ELSE chain[f]]

\* startBackgroundFetching after stopBackgroundFetching, of a new object: one
\* of which nothing is left.  The first fetcher of a session is skewed.
StartFetching(f) ==
  /\ f \in stopped /\ chain[f] = "over"
  /\ fetcher' = f
  /\ stopped' = Stops \ {f}
  /\ \E first \in {"timer", "reading"} :
       chain' = [TimerCleared EXCEPT ![f] = first]
  /\ UNCHANGED <<due, fetching, young>>

StopFetching ==
  /\ fetcher # NoFetcher
  /\ fetcher' = NoFetcher /\ stopped' = Stops /\ chain' = TimerCleared
  /\ UNCHANGED <<due, fetching, young>>

Goes(f, there) == chain' = [chain EXCEPT ![f] = IF f \in stopped THEN "over"
                                                                ELSE there]

TimerFires(f) ==
  /\ chain[f] = "timer" /\ Goes(f, "reading")
  /\ UNCHANGED <<fetcher, stopped, due, fetching, young>>

\* updateLastFetched has read the date, and its promise resolves later.
ReadFetchHead(f) ==
  /\ chain[f] = "reading"
  /\ chain' = [chain EXCEPT ![f] = "read"]
  /\ due' = [due EXCEPT ![f] = ~young]
  /\ UNCHANGED <<fetcher, stopped, fetching, young>>

MayFetch(f) == due[f] /\ f \notin stopped /\ fetching = NoFetcher

\* The flag is looked at again, before the fetch and where there is none:
\* not yet due, or somebody else is fetching.
BeginFetch(f) ==
  /\ chain[f] = "read" /\ MayFetch(f)
  /\ fetching' = f /\ Goes(f, "fetch")
  /\ UNCHANGED <<fetcher, stopped, due, young>>
SkipFetch(f) ==
  /\ chain[f] = "read" /\ ~MayFetch(f)
  /\ Goes(f, "interval")
  /\ UNCHANGED <<fetcher, stopped, due, fetching, young>>

\* A fetch that fails is logged, and the next is scheduled all the same.
\* Mutant: its error is not caught.
MutantEndFetch(f) ==
  /\ chain[f] = "fetch" /\ fetching' = NoFetcher
  /\ \/ young' = TRUE /\ Goes(f, "interval")
     \/ young' = young /\ Goes(f, "over")
  /\ UNCHANGED <<fetcher, stopped, due>>
EndFetch(f) ==
  /\ chain[f] = "fetch" /\ fetching' = NoFetcher
  /\ young' \in {young, TRUE}
  /\ Goes(f, "interval")
  /\ UNCHANGED <<fetcher, stopped, due>>

\* getFetchInterval never rejects.
Schedule(f) ==
  /\ chain[f] = "interval" /\ Goes(f, "timer")
  /\ UNCHANGED <<fetcher, stopped, due, fetching, young>>

UserFetches ==
  /\ fetching = NoFetcher /\ fetching' = User
  /\ UNCHANGED <<fetcher, stopped, chain, due, young>>
UserFetched ==
  /\ fetching = User /\ fetching' = NoFetcher
  /\ young' \in {young, TRUE}
  /\ UNCHANGED <<fetcher, stopped, chain, due>>

FetchHeadAges ==
  /\ young /\ young' = FALSE
  /\ UNCHANGED <<fetcher, stopped, chain, due, fetching>>

Own(f) == \/ TimerFires(f) \/ ReadFetchHead(f) \/ BeginFetch(f)
          \/ SkipFetch(f) \/ EndFetch(f) \/ Schedule(f)

FetcherNext ==
  \/ \E f \in Fetcher : StartFetching(f) \/ Own(f)
  \/ StopFetching \/ UserFetches \/ UserFetched \/ FetchHeadAges

\* Timers fire and promises settle.
FetcherFairness == \A f \in Fetcher : WF_fetchVars(Own(f))

FetcherSpec == FetcherInit /\ [][FetcherNext]_fetchVars

-----------------------------------------------------------------------------
(* Properties.                                                             *)

\* The variables have the shape the actions rely on.
FetcherTypeOK ==
  /\ fetcher \in Fetcher \cup {NoFetcher}
  /\ stopped \in SUBSET Fetcher
  /\ chain \in [Fetcher -> Chain] /\ due \in [Fetcher -> BOOLEAN]
  /\ fetching \in Fetcher \cup {User, NoFetcher} /\ young \in BOOLEAN

\* Reselecting a repository leaves one fetcher at work on it: the fetchers
\* that are not stopped are the current one, whatever its predecessors were
\* waiting for, and a fetch is begun by that one only (the comment on stop:
\* "Once this is called, the fetcher cannot be restarted").
OnlyCurrentFetches ==
  [][\A f \in Fetcher : fetching' = f /\ fetching # f => f = fetcher]_fetchVars

\* While it stays the current one, a fetcher looks again and again whether to
\* fetch, though fetches fail and the user's own get in between.
KeepsLooking ==
  \A f \in Fetcher : <>[](fetcher = f) => []<>(chain[f] = "reading")
=============================================================================
