---------------------------- MODULE CommitStatus ----------------------------
(***************************************************************************)
(* CommitStatusStore, for one ref: the views that subscribe to its checks, *)
(* the cache, and the refreshes a subscription or the background interval  *)
(* asks for.  A status is the version of the checks GitHub answered with,  *)
(* of which there are some, or 0 where the code has null.                  *)
(*                                                                         *)
(* A refresh takes what it needs of the subscription when it begins: the   *)
(* branch and the Set of callbacks.  A subscription with another branch is *)
(* a copy that shares the Set; a subscription without callbacks is         *)
(* deleted, and the next one has a Set of its own.                         *)
(***************************************************************************)
EXTENDS Naturals, FiniteSets

CONSTANTS Callback,    \* views: one callback each
          MaxVersion,  \* bound: changes of the checks on GitHub
          MaxFetches   \* refreshes of this ref there is room for

CommitStatusConstants == MaxVersion \in Nat \ {0} /\ MaxFetches \in Nat \ {0}

VARIABLES
  version,       \* of the checks on GitHub
  account,       \* an account for the endpoint is signed in
  handle,        \* backgroundRefreshHandle is not null
  refreshQueued,
  subscription,  \* "none", or whether it has a branch: "plain", "named"
  callbacks,     \* of the subscription in the map
  cached,        \* the cache entry
  fetch,         \* the refreshes; those that are not idle are in `queue`
  told,          \* the status each view shows
  rerequested    \* the dialog waits for GitHub to run checks again

map == <<subscription, callbacks>>
outside == <<version, account, rerequested>>
background == <<handle, refreshQueued>>
views == <<cached, told>>
csVars == <<outside, background, map, fetch, views>>

Slot == 1 .. MaxFetches
Version == 0 .. MaxVersion
NoEntry == [in |-> FALSE, check |-> 0, actions |-> FALSE, fresh |-> FALSE]
Entry(v, actions, fresh) ==
  [in |-> TRUE, check |-> v, actions |-> actions, fresh |-> fresh]
\* `own`: the Set it took is still the one in the map.
Fetch(at, v, named, own) == [at |-> at, v |-> v, named |-> named, own |-> own]
Idle == Fetch("idle", 0, FALSE, FALSE)

CommitStatusInit ==
  /\ version = 1 /\ account \in BOOLEAN /\ handle = TRUE
  /\ refreshQueued = TRUE
  /\ subscription = "none" /\ callbacks = {} /\ cached = NoEntry
  /\ fetch = [i \in Slot |-> Idle] /\ told = [c \in Callback |-> 0]
  /\ rerequested = FALSE

-----------------------------------------------------------------------------
(* Subscriptions.                                                          *)

\* tryGetStatus, for a view that subscribes as `kind`.
Shown(kind) ==
  IF kind = "named" /\ subscription # "named" THEN 0 ELSE cached.check

\* subscribe, of a view that is being shown; getOrCreateSubscription keeps the
\* Set of a subscription it replaces.
Subscribe(c, kind) ==
  /\ c \notin callbacks
  /\ told' = [told EXCEPT ![c] = Shown(kind)]
  /\ subscription' = kind
  /\ callbacks' = callbacks \cup {c}
  /\ cached' = IF subscription \in {"none", kind} THEN cached
               ELSE [cached EXCEPT !.fresh = FALSE]
  /\ refreshQueued' = TRUE
  /\ UNCHANGED <<outside, handle, fetch>>

\* The Disposable of subscribe.
Unsubscribe(c) ==
  /\ c \in callbacks
  /\ callbacks' = callbacks \ {c}
  /\ IF callbacks' = {}
     THEN /\ subscription' = "none"
          /\ fetch' = [i \in Slot |->
                         IF fetch[i].own THEN [fetch[i] EXCEPT !.own = FALSE]
                                         ELSE fetch[i]]
     ELSE UNCHANGED <<subscription, fetch>>
  /\ UNCHANGED <<outside, background, views>>

-----------------------------------------------------------------------------
(* Background refreshing.                                                  *)

\* startBackgroundRefresh, when the window gets the focus.
StartBackground ==
  /\ ~handle /\ handle' = TRUE /\ refreshQueued' = TRUE
  /\ UNCHANGED <<outside, views, map, fetch>>

\* stopBackgroundRefresh
StopBackground ==
  /\ handle /\ handle' = FALSE
  /\ UNCHANGED <<outside, views, refreshQueued, map, fetch>>

\* The interval: queueRefresh.
Tick ==
  /\ handle /\ ~refreshQueued /\ refreshQueued' = TRUE
  /\ UNCHANGED <<outside, views, handle, map, fetch>>

Working == \E i \in Slot : fetch[i].at # "idle"

\* Mutant: an entry is never too old.
MutantDated == ~cached.in
\* entryIsEligibleForRefresh, and there being no entry.
Dated == ~cached.fresh

\* Mutant: a key that is being worked on is taken again.
MutantEligible == subscription # "none" /\ Dated
\* refreshEligibleSubscriptions
Eligible == subscription # "none" /\ ~Working /\ Dated

\* setImmediate runs refreshEligibleSubscriptions.
RefreshEligible ==
  /\ refreshQueued /\ refreshQueued' = FALSE
  /\ IF Eligible
     THEN \E i \in Slot :
            /\ fetch[i] = Idle
            /\ fetch' = [fetch EXCEPT ![i] = Fetch("limited", 0, FALSE, FALSE)]
     ELSE UNCHANGED fetch
  /\ UNCHANGED <<outside, views, handle, map>>

-----------------------------------------------------------------------------
(* A refresh.                                                              *)

Ends(i) == fetch' = [fetch EXCEPT ![i] = Idle]
Owned(i) == IF fetch[i].own THEN callbacks ELSE {}

\* The limiter lets refreshSubscription begin; GitHub answers with the
\* checks as they are then, or later.
BeginFetch(i) ==
  /\ fetch[i].at = "limited"
  /\ IF subscription = "none" \/ ~account THEN Ends(i)
     ELSE fetch' = [fetch EXCEPT ![i] =
                      Fetch("fetching", version, subscription = "named", TRUE)]
  /\ UNCHANGED <<outside, background, views, map>>

\* The end of refreshSubscription.
Deliver(i, v, actions) ==
  /\ cached' = Entry(v, actions, TRUE)
  /\ told' = [c \in Callback |-> IF c \in Owned(i) THEN v ELSE told[c]]
  /\ Ends(i)

\* Both answers are here.  With a branch, the actions of the checks are asked
\* for, unless the cache has them for checks of the same ids.
Answered(i) ==
  /\ fetch[i].at = "fetching"
  /\ \E v \in fetch[i].v .. version :
       \/ /\ ~fetch[i].named /\ Deliver(i, v, FALSE)
       \/ /\ fetch[i].named /\ cached.check # 0 /\ cached.actions
          /\ Deliver(i, v, TRUE)
       \/ /\ fetch[i].named
          /\ ~(cached.check = v /\ cached.actions)
          /\ fetch' = [fetch EXCEPT ![i].at = "actions", ![i].v = v]
          /\ UNCHANGED views
  /\ UNCHANGED <<outside, background, map>>

\* Neither request was answered: what there is counts as just fetched.
NoAnswer(i) ==
  /\ fetch[i].at = "fetching"
  /\ cached' = Entry(cached.check, cached.actions, TRUE)
  /\ Ends(i)
  /\ UNCHANGED <<outside, background, map, told>>

\* getCheckRunActionsWorkflowRuns, mapActionWorkflowRunsJobsToCheckRuns
ActionsAnswered(i) ==
  /\ fetch[i].at = "actions"
  /\ \E actions \in {subscription # "none" /\ account, FALSE} :
       Deliver(i, fetch[i].v, actions)
  /\ UNCHANGED <<outside, background, map>>

\* A request cannot be made at all: the refresh rejects.
Rejects(i) ==
  /\ fetch[i].at \in {"fetching", "actions"} /\ Ends(i)
  /\ UNCHANGED <<outside, background, views, map>>

\* The dialog that runs checks again: GitHub starts them, and the answer to
\* that is what the dialog waits for.
Rerequest ==
  /\ ~rerequested /\ version < MaxVersion /\ cached.check # 0
  /\ rerequested' = TRUE /\ version' = version + 1
  /\ UNCHANGED <<background, views, account, map, fetch>>

\* manualRefreshSubscription: the checks of the entry are shown as pending,
\* and the entry is fresh.
ManualRefresh ==
  /\ rerequested /\ rerequested' = FALSE
  /\ IF subscription = "none" \/ cached.check = 0 THEN UNCHANGED views
     ELSE /\ cached' = [cached EXCEPT !.fresh = TRUE]
          /\ told' = [c \in Callback |->
                        IF c \in callbacks THEN cached.check ELSE told[c]]
  /\ UNCHANGED <<background, version, account, map, fetch>>

-----------------------------------------------------------------------------
(* Outside.                                                                *)

ChecksChange ==
  /\ version < MaxVersion /\ version' = version + 1
  /\ UNCHANGED <<background, views, account, map, fetch, rerequested>>

\* onAccountsUpdated
AccountChanges ==
  /\ account' = ~account
  /\ UNCHANGED <<background, views, version, map, fetch, rerequested>>

\* More than a minute passes.
Age ==
  /\ cached.fresh /\ cached' = [cached EXCEPT !.fresh = FALSE]
  /\ UNCHANGED <<outside, background, map, fetch, told>>

\* The LRU cache drops the entry.
Evict ==
  /\ cached.in /\ cached' = NoEntry
  /\ UNCHANGED <<outside, background, map, fetch, told>>

FetchNext(i) ==
  \/ BeginFetch(i) \/ Answered(i) \/ NoAnswer(i) \/ ActionsAnswered(i)
  \/ Rejects(i)

CommitStatusNext ==
  \/ \E c \in Callback : \/ \E kind \in {"plain", "named"} : Subscribe(c, kind)
                         \/ Unsubscribe(c)
  \/ StartBackground \/ StopBackground \/ Tick \/ RefreshEligible
  \/ \E i \in Slot : FetchNext(i)
  \/ Rerequest \/ ManualRefresh \/ ChecksChange \/ AccountChanges
  \/ Age \/ Evict

CommitStatusSpec == CommitStatusInit /\ [][CommitStatusNext]_csVars

-----------------------------------------------------------------------------
(* Properties.                                                             *)

CommitStatusTypeOK ==
  /\ version \in 1 .. MaxVersion
  /\ account \in BOOLEAN /\ handle \in BOOLEAN
  /\ refreshQueued \in BOOLEAN /\ rerequested \in BOOLEAN
  /\ subscription \in {"none", "plain", "named"}
  /\ callbacks \subseteq Callback
  /\ (subscription = "none") = (callbacks = {})
  /\ cached \in [in : BOOLEAN, check : Version, actions : BOOLEAN,
                 fresh : BOOLEAN]
  /\ ~cached.in => cached.check = 0
  /\ fetch \in [Slot -> [at : {"idle", "limited", "fetching", "actions"},
                         v : Version, named : BOOLEAN, own : BOOLEAN]]
  /\ told \in [Callback -> Version]

\* What a view shows is never replaced by checks that are older, however the
\* answers, the manual refreshes and the other subscriptions of the ref come.
NeverOlder ==
  [][\A c \in callbacks \cap callbacks' : told'[c] >= told[c]]_csVars

\* A view that stays subscribed comes to show the checks GitHub has, as long
\* as the window is focused and the account signed in, whoever else comes and
\* goes, and however often GitHub fails to answer first.
SubscribersHear ==
  \A c \in Callback :
    <>[](c \in callbacks /\ handle /\ account) => <>[](told[c] = version)
=============================================================================
