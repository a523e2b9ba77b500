# Madness Desktop in TLA+

Madness Desktop is a fork of GitHub Desktop: an Electron application whose
renderer keeps one application store, `src/app/src/lib/stores/app-store.ts`,
and around it a ring of smaller stores, caches, timers and managers. Nothing
in it runs in parallel, yet nearly everything in it is concurrent: every
operation is an `async` function, and between two of its awaits any other
operation, timer, dialog or emission may run. That is what these modules are
about. An action is the code between two awaits; a program counter names the
await a call is suspended at; an interleaving of TLC is an order in which the
event loop may resume the calls.

Line numbers are those of the files in `src/`; the table `map` of
`PROJECT.json` gives them for every definition. Below, `stores/` stands for
`src/app/src/lib/stores/`.

## 1. The system

| Component | State it keeps | Operations | Interacts with | Module |
|---|---|---|---|---|
| Network operations (app store) | `isPushPullFetchInProgress` and `pushPullFetchProgress` per repository *hash*; the branch policy in git config; pending popups | push, pull, fetch, indicator fetch, submodule batches, pull or push of one submodule | git, popups, automation bus, indicator updater, background fetcher | `NetworkOps`, `Gate` |
| Repository selection (app store) | `selectedRepository`, the list of repositories, the three current workers, the focus | select, reselect on an emission, refresh, heal a path, missing repository, remove, blur, focus | repositories store, git, the workers | `RepositorySelection` |
| Pull requests | rows and a date per repository (IndexedDB), the coordinator's cache | refresh, incremental fetch, full fetch, read | GitHub, the updater, the views | `PullRequests`, `PullRequestsSynced` |
| Pull request updater | a timer, the time of the latest refresh | start, stop, tick | pull request coordinator | `PullRequestUpdater` |
| Branch pruner | an interval, the date of the last prune | start, stop, prune | git, repositories store | `BranchPruner` |
| Background fetcher | a timer, `stopped` | start, stop, fetch and schedule | app store, GitHub | `BackgroundFetcher` |
| Repository indicators, auto switch | two timers, the sweeps, a snapshot of change counts | start, stop, pause, resume, sweep, switch | every repository, the selection | `Sweeps` |
| Commit status store | subscriptions, cache, refresh queue, interval | subscribe, refresh, unsubscribe, background refresh | GitHub, the views | `CommitStatus` |
| Ahead-behind store | cache, workers, a limiter | ask, dispose | git, the views | `AheadBehind`, `DisposableCalls` |
| Hook loadouts | `.githooks/`, `core.hooksPath`, the record of what was installed | install, uninstall, toggle, update, save, reset | git, the file system | `HookLoadouts` |
| Claude hooks installer | another program's settings, a note of what was added | install, uninstall | the file system | `ClaudeHooks` |
| Multi-commit operations | the operation's step, conflict state, banner, Copilot's resolutions | start, conflict, resolve, continue, abort | git, dialogs, Copilot | `Conflicts` (merges) |
| Sign-in and accounts stores | the step of a sign-in, who waits for it, the accounts | begin, enter an endpoint, browser, token, reset, add, remove | API, browser, keychain | `SignIn` |
| Checkout and stashing | the stash entries, the questions on the screen, a preference | checkout, stash, pop, drop | git, dialogs | `Stashing` |
| Popup manager | the stack of popups | add, update, remove | every dialog | its rule that drops a popup, in `NetworkOps` |
| Repositories store, tokens | IndexedDB records, the keychain | add, update, remove | app store | the records, in `RepositorySelection` |
| Git store | refs, commits, tags, remotes of a repository | load, undo | git, app store | its part in `NetworkOps` |
| Notifications, Alive | websocket subscriptions, a session for each endpoint | subscribe, unsubscribe, switch on and off, notify | accounts store, GitHub | `AliveStore` (subscriptions) |
| Trampoline | tokens of running git commands | answer a credential prompt | git | no |
| Update store | the status of the auto updater | check, download, quit and install | Squirrel | no |
| Copilot, automation hooks, MQTT | settings, queued requests | send | network | the runs of Copilot in `Conflicts`, the events of push and pull in `NetworkOps` |
| API client, git commands, parsers | none | HTTP, `git` and its output | | how a listing ends, in `PullRequests`; otherwise data |
| Main process, views, editors, shells, CLI | windows, menus | | | the answers to dialogs, in the modules that ask |

### What is hard

* **A flag under a key that changes.** `withPushPullFetch` keeps its flag under
  the hash of a `Repository` object, and the hash covers the alias, the path,
  the fork preference and the GitHub association.
* **Promises only a dialog resolves.** A first push waits for a dialog that
  `addPopup` may have dropped; a caller who signs in waits for a callback that
  whoever signs in next must call for him.
* **Re-entrant selection.** A selection awaits four times; an emission, a
  refresh or a second selection may replace what it is selecting.
* **Cascades.** Healing a path writes the store, which emits, which reselects,
  which refreshes, which heals.
* **Workers that outlive what they work on**, because stopping one that is
  still starting, or in the middle of a sweep, does nothing at once.
* **Deciding by several reads, acting later.** The pruner reads git five times
  and deletes afterwards; a stash entry is named by its place some awaits after
  it was found; a file is overwritten by what the last status said of it.
* **Synchronising by date**, with a resolution of a second and pages that fail.
* **Answers that come late**, to a view that is gone, a merge that was aborted,
  a sign-in that was reset, or after a newer answer.
* **Two files that must agree** (a hook and its record, the settings of another
  program and the note beside them), with a crash in between.

### What makes each component correct

* Network operations: at most one per repository at a time; the flag and the
  progress come down on every path; a call that waits for a prompt has one; a
  locked branch is not pushed; every call ends.
* Selection: workers serve the selected repository only; the cascade ends, on
  the record as it now is; a selected repository that is on disk ends with its
  workers; no two records have one path.
* Pull requests: incremental fetching loses nothing; once GitHub is quiet the
  table is what GitHub has; `false` from `refreshPullRequests` means unchanged;
  the cache is the latest list.
* Updater, fetcher, sweeps: a stopped one is silent, a current one keeps going,
  and starting it does not multiply it.
* Pruner: only branches whose work is in the default branch are deleted; they
  are deleted in the end; only the current pruner has an interval; once a day.
* Commit statuses, ahead-behind: a view is never shown an older status after a
  newer one, hears of the latest in the end, and of nothing once it is gone.
* Hook loadouts, Claude hooks: uninstalling leaves nothing behind and takes
  nothing of the user's; his edits are not taken for an old version.
* Merges: what is shown as resolved is of this merge; no markers are committed;
  the conflict is shown while it lasts, and not afterwards; the user's
  resolution stands.
* Sign-in: exactly the caller whose sign-in is on the screen waits, and every
  other has been answered; only what is asked for signs in.
* Alive: exactly the accounts of the list are subscribed, each over the session
  of its endpoint.
* Stashing: an entry leaves the stack only when it was applied, replaced or
  discarded, and is replaced only if the user was asked.

## 2. Plan

What most depends on came first. Done: `NetworkOps` implementing `Gate`;
`RepositorySelection`; `PullRequests`; the three workers; `Sweeps`; the two
caches, `AheadBehind` implementing `DisposableCalls`; the two installers;
`Conflicts`; `SignIn`; `Stashing`; `AliveStore`; proofs of every safety
property that a passing run checks, for all of these modules.

Left, in this order:

1. Rebase, squash, reorder and cherry-pick beside the merges of `Conflicts`,
   with an abstract specification: an operation ends on the new branch or on
   the old one.
2. The git store: undoing a commit, tags to push.
3. The tokens of the trampoline, the update store, the events of Alive.

## 3. The modules and the code

### NetworkOps

One call is an element of `Op`; `kind` and `repo` are its inputs, `pc` the await
it is suspended at, `ver` the identity of the `Repository` object its closure
holds. `busy`, `progress` and `loaded` are the cache entry of a *key*, a
repository with an identity, as `RepositoryStateCache` keeps them under the
hash. `version` counts identities: `ChangeIdentity` is a new alias, fork
preference, path or association; `RefreshGitHubRepository` the association
looked up by the call itself.

| Action | Code |
|---|---|
| `Invoke`, `Skip`, `StartPush`, `StartPull`, `StartOther` | `withPushPullFetch` and the first statements under it |
| `AnswerPolicy`, `DismissPolicy` | `resolveRemotePolicyForPush` and the policy dialog |
| `ListSubmodules`, `ListingFails`, `SubmoduleDone`, `SubmoduleFails`, `SubmodulesDone` | the submodule loop of push, pull and batches |
| `MainDone`, `HookFails`, `RemoteGuardBlocks`, `AnswerHook` | the git command and what may stop it |
| `FinishPush`, `FinishPull`, `FinishFetch`, `FinishIndicator`, `FinishBatch` | refresh, event, progress and the `finally` block |
| `ReportProgress` | the progress callback, which runs while git does |
| `OpenOtherDialog`, `CloseOtherDialog` | a popup of the same type from elsewhere |

`Gate` is what `withPushPullFetch` promises and no more: per key, nobody or one
call inside; a step lets one in or one out. `NetworkOps!Exclusive` maps
`inside` to the pairs of a holder with its key; `ImplementsGate` says that
every step of the store is a step of the gate or a stutter.

### RepositorySelection

A `Repository` object is a snapshot (`Object`) of a record; `stored` are the
records of `RepositoriesStore`, `repositories` the app store's copy, `selected`
the snapshot selected and `selectedBy` which call (or an adopted refresh) put
it there, since the code compares references and not contents
(app-store.ts:2609). Calls of `_selectRepository` go through `BeginSelect`,
`ContinueSelect`, `RecoverMissing`, `RunTasks`, `Associate`; `refreshing` is
the set of refreshes in flight, each at one of its awaits. `Emit` is the
emission and the reselection it causes. `BeginSelect` and `ContinueSelect` are
two steps because 2438 awaits a setting even when it has nothing else to do.
IndexedDB orders the writes of records against the `getAll` of an emission,
which is why `Emit` reads the records in one step.

### PullRequests, PullRequestsSynced

GitHub holds each pull request with its `updated_at`, `table` and `lastUpdated`
are the database, `at` and what follows it the one refresh that may run per
repository, the rest the coordinator's cache and its readers. A listing is read
in one step, except for what the constants allow: with `GitHubFails` a request
may fail and a listing may miss any of its later pages; with `TiesSplit`
reading may stop between pull requests of one second. `PullRequestsSynced`
extends the module with what holds when neither happens: the promise of
incremental fetching, `SyncedBefore`, and that the mirror converges.

### PullRequestUpdater

Time is relative: `timers` counts the timers of an updater by the time they
have left, `handle` is the one `stop` can clear, `age` is how long ago the
latest refresh was. A timer that is due may fire late. Refreshes of the user
and of an updater join in one request, as `refreshPullRequests` makes them.

### BackgroundFetcher

The `BackgroundFetcher` objects that successive selections of one repository
make. `chain` is what `performAndScheduleFetch` of each waits for: its timer, the
date of `FETCH_HEAD`, the fetch, the next interval. `Goes` is the look at
`stopped` after each await. `stop` clears a timer and otherwise only raises the
flag; `fetching` is the flag of `withPushPullFetch`, which the user takes too.

### BranchPruner

One repository; `Pruner` are the `BranchPruner` objects made for it, one for
each selection. `doomed` starts as the merged branches and each later read
(`ReadHead`, `ReadReflog`, `ReadRemotes`, `ReadWorktrees`) spares some, which is
the filter of 210-227 taken read by read. `DeleteOne` is one `git branch -D`;
git refuses a branch that is checked out anywhere, and `performFailableOperation`
swallows that. `Throw` is a rejected read: it rejects `start`, and then the
interval is never set. `UserWaits` says whether the user leaves git alone
while a prune runs. `fine` is a history variable for the liveness property.

### Sweeps

Both sweepers (`RepositoryIndicatorUpdater`, `AutoSwitchMonitor`) have a timer
(`clockSet`), `running` (`enabled`) and `paused`. A sweep under way is an entry
of `sweep`: held before its first repository, refreshing one (the status first,
then the fetch), or paused between two. The indicators ask for the list again
each time and the monitor goes through the list it began with; `left` says what
is done or left. `stop` does not end a sweep: it ends itself at the next look,
and schedules unless stopped. So after a stop and a start two sweeps of one
sweeper may run, and `OneChainAStart` bounds them by the starts. `Polled` is
what the monitor makes of a count: the snapshot, the cooldown and the switch.

### CommitStatus

One ref. A refresh is a slot of `fetch`: in the limiter, waiting for the checks,
or for the workflow runs. It holds the branch and the `Set` of callbacks it
took when it began: `own` says whether that `Set` is still the one of the
subscription. A status is the version of GitHub's checks it was made of.
`cached` is the entry with its age; `told` is what each view shows.

### AheadBehind, DisposableCalls

`memo` is the cache, `worker` the ranges git works on, `call` a call of
`getAheadBehind`: waiting for the limiter (`limited`), for the worker of its
range (`waiting`), or over. `DisposableCalls` is what a caller may rely on:
his call ends, and he is not answered after he disposed of it.
`Promise == INSTANCE DisposableCalls WITH ...` is the refinement mapping and
`PromiseKept` the refinement, fairness included.

### HookLoadouts

`on` and `off` are the files `<id>.sh` and `<id>.sh.disabled` of each script,
by what they say: a built-in text of this version, of an older one, or of the
user. `record` is `LoadoutInstallation` with the hashes, `page` what the
settings page read at its last refresh. An action of the page is a slot of
`action` and goes a file at a time; its buttons are off meanwhile
(`installing`), the switches of the scripts are not. `Restart` ends the program
between any two writes and may bring a new version of it.

### ClaudeHooks

`settings` are the groups of `settings.json`, each the set of its commands,
`note` the commands in `.madness-loadout.json`. Installing reads the settings,
writes them merged, and then writes the note; uninstalling reads the note and
the settings, writes the settings without the groups of the note, and drops the
note. `Ends` is the program's end, or a write that fails, after any of these;
`Edits` are those of the user and of Claude Code at any time.

### Conflicts

`disk` is the merge git is in, with its one conflicted file, and `seen` the
same as the store last loaded it. `load` are loads of the status, which open
and close the dialogs when they end (`EndLoad`, and `Trigger` after an await);
`mco`, `popup` and `banner` are the operation, its dialog and the banner. `run`
are the runs of `_resolveConflictsWithCopilot`, which may be stopped, may
outlive their merge and answer late; `Owns` is the comparison of controllers
with which a run finds out. `ending` is what the user's "continue" or "abort"
is at, one await after the other. Merges may also begin, be resolved and end in
a terminal.

### SignIn

`state` is the store's, with the caller (`session`) whose `resultCallback` it
holds and the token of the attempt of the browser; `answer` is what each caller
was told first. A suspended call is a `task` with the step it kept, `from`,
since the code goes on from captured states after its awaits. `Begin`,
`EnterEndpoint`, `AuthenticateWithBrowser`, `ConfirmExisting`, `ComeBack`,
`AuthenticateWithToken` are the steps of the dialogs; `Exchanged`,
`ExchangeFails`, `UserFetched`, `UserFails`, `TokenAnswered`, `TokenRejected`
what the API answers; `AddAccount` the keychain. `astray` is a history
variable: a call wrote its captured state over a state that had changed.

### Stashing

`stack` is git's, the latest entry first; an entry is known to the program by
its commit (`sha`) and to git by its place. `known` is what the store last read
of status and entries; `question` is the dialog on the screen and `op` the
operation under way, at one of its awaits: refreshing, finding the entry it
replaces, pushing, listing, dropping, checking out, popping, loading. `Names`
resolves the commit to a place, and `Drop` and `Pop` use the place one step
later. The user edits, commits and stashes by hand at any time.

### AliveStore

`session` is `sessionPerEndpoint`, `subs` the subscriptions, each over the
session it was made with; `promise` is the run of `_subscribeToAccounts` that
`accountSubscriptionPromise` is of. `waiting` are the suspended calls, in the
order in which their promises call them back, each with the run it waits for
and the list it was told; those that may go on do so before anything else
happens (`AtRest`). A run is a `job`: it takes up its accounts one after the
other, waiting for the address of a socket, unless the endpoint has a session,
and for a channel, both of which GitHub may refuse. The accounts store tells of
its list when it is loaded, when an account is added or removed, and twice
after a refresh. An `Account` is an endpoint and an id; the list has one account
of an endpoint at most (`OneEach`). `Staying` is the filter of
`unsubscribeFromAccount`, by the places that stay. `together` is a history
variable: two runs, or a run and an unsubscription, overlapped.

### Modules for TLC

`MCDialogs`, `MCWorkers`, `MCStores` and `MCFlows` each check several modules
that share no state in one run: `turn` says which module a behaviour is about,
and the others stand still at their first state. They extend the modules they
check, so that a run's properties, and the assumptions on constants that it
evaluates, are those the theorems are about. A property of one module is true of
the others' behaviours for nothing, and says as much as in a run of its own.
In `MCDialogs` two turns are of `AliveStore`, each with a set of accounts of its
own (`Lists`). `MCStores` has the pull requests when GitHub answers, `MCFlows`
when requests fail. `MCNetworkOps`, `MCRepositorySelection`, `MCSweeps` and
`MCConflicts` check one module each.

## 4. The runs

| Run | Question | Answer |
|---|---|---|
| `dialogs` | Network operations: do guarded operations exclude each other under one identity, is the flag up exactly while one runs, whose progress may be left behind, is this a gate? Sign-in: does exactly the caller wait whose sign-in is on, does an attempt of the browser hang? Stashing: does an entry ever get lost? Alive: are the accounts of the list subscribed? | holds |
| `network_ops_live` | Does every call end? | yes, unless its prompt was dropped |
| `network_ops_prompt` | Does a call that waits for a prompt have it on the stack? | no: `addPopup` drops the second of a type, and the push holds the flag for ever |
| `repository_selection` | Do workers follow the selection, and are paths unique? | holds |
| `repository_selection_live` | Does the cascade end, on the current record, with workers running for what `_selectRepository` selected? | holds |
| `workers` | Is a stopped updater silent, does a current one keep on? Does only the current fetcher begin fetches, and keep looking? Are only spent branches deleted however many prunes overlap, and in the end? | holds |
| `sweeps` | Are there more sweeps than starts, does a started sweeper keep on, does a stopped one come to rest? | it holds |
| `sweeps_gained` | Does the monitor switch only to repositories that gained changes while they were not selected? | no: the snapshot leaves the selected one out |
| `stores` | Does a view ever go back to an older status, and hear of the latest? Is git's work bounded, and a call answered after it was disposed of? Does the mirror of the pull requests miss a change when GitHub answers, and does it converge? | holds |
| `flows` | Do the installers leave what is the user's and remove what is theirs, wherever the program ends? Is a first fetch made into an empty table whatever fails? Is a conflict shown while it lasts, and not longer, and is somebody who waits for Copilot worked for? | holds |
| `conflicts` | Is what Copilot is shown to have resolved of this merge, and are markers ever committed? | holds |
| `conflicts_edits` | Does what the user resolved stand? | no: the status that is looked at may be older |

Every property has a mutant in `PROJECT.json`, a change of one definition such
as a programmer might make, under which TLC refutes it.

## 5. Bounds, and why they are enough

* Network operations: one repository, two calls, one identity change
  (`MaxVersion`), one submodule, one branch. Each property relates at most two
  calls; a third adds only more of what the second does, since calls share
  nothing but the key, the dialog and the policy. Two repositories are needed
  to have two prompts of one type at once with neither call waiting for the
  other's flag: `network_ops_prompt` has them. All kinds of call are tried,
  chosen in `Init`; calls are interchangeable, hence the symmetry, and for
  liveness, which no symmetry may be used for, the order of kinds in
  `MCNetworkOps!LiveInit`.
* `RepositorySelection`: two repositories (one stored under a `.git` directory,
  so that its path must be healed, onto a path the other may have), two trees,
  two overlapping selections, one alias, one move of the user or of the disk
  while the app starts. For liveness one tree and no alias: the collision of
  paths is then certain.
* `PullRequests`: two pull requests, three seconds (`MaxClock`) and three
  changes (`MaxRevs`): enough for one pull request to change before, at and
  after the second that is stored, while the other is listed. That is in
  `stores`, where no view reads the cache; in `flows`, where requests fail and
  seconds are split, two seconds and a reader.
* Workers: two updaters, the shorter limit one unit and the interval two, so
  that a tick may be early, on time or late, `MaxTimers` of them for each; three
  fetchers, one current, one stopped and one before it; two pruners and one
  branch besides the default one, since branches do not interact.
* `Sweeps`: two repositories, so that a sweep has something left when one is
  selected or removed, two starts and two sweeps at a time, which a stop in the
  middle of a sweep needs, one change made to a working directory.
* Stores: two views, two versions of the checks, so that they change during a
  refresh, a subscription that ends and begins again meanwhile, and room for
  two refreshes, so that one that should not begin beside another could; two
  ranges, three calls and a limiter of one, so that one call waits for the
  limiter, one for another's worker.
* `HookLoadouts`: one script, since each has a hook of its own, and two actions
  of the page at a time. `ClaudeHooks`: a command for each tier and one of the
  user.
* `Conflicts`: two merges one after the other and two runs, for a run of the
  first to answer in the second; one load, as loads that overlap differ from
  loads that follow one another only by what the second read meanwhile. For
  liveness, and for the edits, one merge and one run.
* `SignIn`: two callers, two suspended calls, two attempts, two endpoints: one
  call of each caller at once, and one attempt replaced by another.
* `Stashing`: two branches, two entries, one operation at a time. A second
  operation matters for what it does to the stack and to the changes between
  two awaits of the first, which stashes made by hand, edits and reloads do
  too. With two operations at a time TLC searched 20 million states and refuted
  nothing, but did not finish.
* `AliveStore`: two accounts of one endpoint, of which one can be signed in at a
  time (`Lists.other`), and one of each of two endpoints (`Lists.both`); two
  suspended calls and two sessions. One run at a time: two would overlap, and
  `together` already excuses what overlaps; TLC found nothing else with two
  runs.

Deadlock is not checked: a model in which all calls are done, all moves of the
user made and all bounds reached has no step left, and a run that sums several
modules ends when one of them does. That nothing stops before its time is what
the liveness properties say.

## 6. Fairness

Weak fairness of the steps of a suspended call: a promise of git, of the
database or of the network settles, and its continuation runs. Timers fire.
Never of a failure, a selection or any move of the user, but for one: in
`network_ops_live` he answers a dialog that is on the screen, which is what the
code waits for.

* `PullRequests`: the steps of a refresh, and refreshing again, since the
  updater does, as `KeepsRefreshing` shows.
* Updater, fetcher, pruner: their own steps, timers, and the clock.
* `Sweeps`: timers, and the steps of a sweep other than a rejection.
* `CommitStatus`: the interval, the clock and the limiter. Strong fairness of an
  answer of GitHub: a refresh that is made again and again is answered some
  time, though a failure or an eviction may come first any number of times.
* `AheadBehind`: the limiter lets calls in and git ends.
* `Conflicts`: loads begin (the focus, timers and every operation begin them);
  strong fairness of their ends, since a load may fail any number of times;
  Copilot answers or fails.

The runs `dialogs`, `conflicts` and `repository_selection`, and those that
refute something, assume none.

## 7. Disagreements met

Those with a run are under `findings`: a first push whose prompt was dropped
(`network_ops_prompt`), a monitor that switches back to where the user comes
from (`sweeps_gained`), and a file resolved by hand that is overwritten
(`conflicts_edits`). The others were refuted by TLC in the same modules under
like bounds. Those that have a name are stated there:

| Property | What happens |
|---|---|
| `NetworkOps!OneNetworkOpPerRepository` | an alias, or an association found meanwhile, gives the repository a new hash and a flag that is down |
| `NetworkOps!ProgressMeansInFlight` | a push whose submodule listing rejects (app-store.ts:5961) leaves `pushPullFetchProgress` behind |
| `NetworkOps!LockedBranchNotPushed` | the policy is read before the submodules are pushed: a branch locked meanwhile is pushed |
| `NetworkOps!PushEventMeansLanded` | `git-push` is sent for a push that failed or was aborted (6121) |
| `RepositorySelection!WorkersRun` | a refresh that adopts a healed path defeats the selection that would start the workers |
| `PullRequestsSynced!SyncedBefore`, with `TiesSplit` or pages that fail | a page that ends at the stored date hides others of that second (api.ts:1264); a missing page is never made up for |
| `PullRequests!SilentMeansUnchanged` | the table is emptied, an empty list comes, `false` is returned |
| `PullRequests!CacheIsLatest` | a suspended reader puts an older list over a newer one |
| `PullRequestUpdater!NeverTooOften` | an early tick schedules another and refreshes all the same |
| `BranchPruner!OnlyCurrentTicks` | a pruner stopped while its first prune runs sets its interval afterwards |
| `BranchPruner!OncePerDay` | two pruners read the date before either writes it |
| `BranchPruner!DeletesOnlySpentBranches`, without `UserWaits` | commits made and left between two reads go with their branch |
| `BranchPruner!CurrentKeepsChecking` | a read that fails in the first prune leaves the pruner without an interval |
| `Sweeps!SwitchMeansListed` | a repository removed while the monitor refreshes it is selected |
| `HookLoadouts!OneCopyAlways` | a switch thrown between the choice of a file and its writing leaves the script both on and off |
| `HookLoadouts!TheirsIsLeft` | uninstalling removes the directory beside a dispatcher it did not write |
| `ClaudeHooks!EverythingNotedAlways` | a crash between the settings and the note leaves commands no uninstall removes |
| `Conflicts!FlowsEnd` | an operation whose merge was ended elsewhere stays, without a dialog |
| `Conflicts!EndsItsOwn` | the end of a merge closes the dialog of the next, begun while the message was reset |
| `SignIn!SignsInWhatIsAsked` | a token or a browser's answer that comes after `reset` still adds its account, though sign-in-store.ts:212-215 says "Clear any in-flight sign in state and return to the initial (no sign-in) state"; the answer for an old caller resolves the new one |
| `Stashing!OverwritingIsAsked` | a checkout that found nothing to stash awaits a refresh; changes made meanwhile replace the entry of the branch unasked, though the code says "we still want to let them know changes might be lost" |
| `AliveStore!WaitsForPrevious` | several calls that wait for one promise go on together, and `refresh` tells of the accounts twice (accounts-store.ts:134-135): while one run awaits GitHub another begins, though alive-store.ts:130-131 wants to "wait until the previous (un)subscriptions finish"; an account is then subscribed twice over two sessions |
| `AliveStore!OffIsSilent` | a call that waits when notifications are switched off subscribes all the same, after the unsubscription that waited with it is over, though alive-store.ts:82 says "When disabled, it will immediately unsubscribe from all Alive channels" |

Met while reading, and modelled as they are:

* a subscriber of commit statuses without a branch takes the branch of an older
  subscription away, and with it its workflow runs; an answer in flight
  overwrites the pending checks a manual rerun put there
  (commit-status-store.ts);
* after signing out, an operation that uses Copilot shows that it loads while
  no run is at work; a merge that begins right after another may show the old
  result: `ResultIsOfThisMerge` and `LoadingIsAtWork` leave both out by name
  (`account`, `swapped`);
* `setEndpoint` with the address of github.com tells its caller `cancelled` and
  goes on with him; a rejected token, or an account removed to sign in again,
  writes the captured state over another session; `fetchUser` throwing inside
  the browser's answer leaves the dialog loading: `OneWaiter` and `NobodyHangs`
  leave them out by name (`astray`, `threw`);
* popping an entry whose place has shifted applies another one, and if that
  has conflicts drops the named one (git/stash.ts:228-263): `StashesAreKept`
  leaves it out by name (`shifted`);
* `AccountsStore.refresh` writes the list it began with over the accounts that
  were added or removed meanwhile (accounts-store.ts:130-134);
* a stash push that warns rejects, as the handler uses the result whose
  initialiser it is in (git/stash.ts:167-171), though its comment wants to go
  on; `checkoutAndLeaveChanges` goes on when the push fails.

## 8. What is proved

TLAPS proves the theorems below for any constants that satisfy the assumptions
the modules name; TLC evaluates those assumptions in the runs.

* `NetworkOps_proofs`. `TypeCorrect`. `Excluded` and `FlagIsRight` rest on one
  inductive invariant: exclusion, and that the flag of a key is up exactly if
  somebody holds it. Exclusion alone is not inductive: that a call finds the
  flag down says nothing unless a holder implies the flag. Every action is
  shown to be of one of three forms (nobody moves, a call goes in where the
  flag is down, a holder goes out), and that is also what `GateImplemented`
  needs: each form is a step of `Gate` or a stutter. `OnlyThrowsLeaveProgress`
  needs that progress is written by holders (`Written`).
* `RepositorySelection_proofs`. `TypeCorrect`; `LoyalWorkers`, by the types and
  by the fact that whatever moves the selection to another id also stops the
  workers; `UniquePaths`, from what healing does to a record that already has
  the path.
* `Stores_proofs`, about the pull requests and the two caches.
  `PullRequestTypesCorrect`; `FirstFetchIsFirst`, whatever fails;
  `NothingIsMissed`, assuming that GitHub answers and that no second is split.
  `SyncedBefore` speaks of the table; inductively one needs as well that what a
  refresh has listed accounts for everything up to its date (`ListingIsSound`),
  that no stamp is in the future (`NothingAhead`), and `NoDateNoRows`.
  `StatusTypesCorrect`; `NeverGoesBack`: no view goes back to an older status.
  It needs that one refresh at most is under way (`Alone`), that what it read is
  at least as new as the cache and as what any view shows, and that the cache,
  unless it is empty, is as new as any view (`Ordered`). `CallTypesCorrect`;
  `GitIsBounded`, however many calls there are; `PromiseIsSafe`, the safety part
  of the refinement of `DisposableCalls`: every step is one of the promise or a
  stutter.
* `Workers_proofs`. `PrunerTypesCorrect`; `OnlySpentBranchesGo`, assuming that
  the user leaves git alone during a prune. The inductive invariant
  (`ReadsHold`) says, for each await, what the reads made so far still imply of
  the branches that are left: the same invariant shows which read the user
  would make stale. `UpdaterTypesCorrect`; `OnlyCurrentAsks`, for any number of
  updaters and any intervals: the only step that makes a request for an updater
  is its timer's, and the timer of one that was stopped finds out.
  `FetcherTypesCorrect`; `OnlyCurrentBegins`, because the current fetcher, if
  there is one, is the only one whose flag is down (`OneRuns`): fetches of those
  stopped in the middle of one go on to the next look, and no further.
* `Sweeps_proofs`. `TypeCorrect`; `ChainsAreStarted`: however often sweepers are
  stopped and started in the middle of sweeps, a step adds a chain only where it
  counts a start. The counting is by cases on which slot of `sweep` a step fills
  or empties (`MovedSlots`).
* `Installers_proofs`. Of Claude's settings, `ClaudeTypesCorrect`, `AllNoted`,
  `HandwrittenIsLeft` and `UserIsKept`. Inductively: what an installation is
  about to write is what the settings held and what it is about to note
  (`History`, `Notes`), and groups of the user and groups of the loadout are
  apart as long as he keeps them so (`Apart`). `HandwrittenStays` is proved
  only, as no run needs it. Of the loadouts, for any scripts and loadouts,
  `LoadoutTypesCorrect`; `EditsAreRecognized`, which needs that an action under
  way has hashes of built-in texts only, and of every script it has written
  (`ActionOK`), since it makes the record of them; `OneCopyIsThere` and
  `UninstallLeavesNothing`. That a hook has one copy is inductive only with
  what an action half done has left and has yet to do (`Sound`), with the page
  showing the record when nothing is under way, and with no script being
  switched off while nothing is installed (`NothingOff`); all this as long as
  one action at a time is under way (`overlapped`).
* `Conflicts_proofs`, for any number of loads, runs and merges.
  `ConflictTypesCorrect`; `WhoWaitsIsWorkedFor`: whoever is shown that Copilot
  is at work has a run that is. `ResultsAreOfTheirMerge`: that a result is of
  the merge on the screen rests on two things, that the run an operation waits
  for is of that merge (`OfThisMerge`), and that, unless a merge began too early
  (`swapped`), a status that any load holds is of the latest merge or of none
  (`Numbers`). `MarkersStayOut`: a status that saw the file without markers is
  right about it, however late it comes, since nothing puts markers back
  (`FilesStay`), and whoever went on had such a file (`Settled`).
* `Dialogs_proofs`, about signing in, stashing and Alive. `SignInTypesCorrect`;
  `OneCallerWaits`: whatever writes the state that an await interrupted either
  finds it as it left it, caller and all, or the history variable `astray` is
  set. `NoAttemptHangs` needs what is open and what is kept (`Attempts`): a
  sign-in shown that is not loading has no open attempt (`Closed`), the step
  kept by a call that waits for a token has none either, and every token in use
  has been given out.
  `StashTypesCorrect`; `StashesKept`. That git removes an entry whose place this
  program found is no invariant; inductively, an operation that is to drop an
  entry without the user's wish either names one that is in `spent`, or one
  that is gone, or the stack has shifted before (`Settled`). That a push makes
  the previous entry a spent one needs that it is of the branch that is stashed
  for (`OfBranch`), and hence that no two entries have one name (`Distinct`).
  What a search in the stack and a removal from it do is proved from the
  definitions of the community modules (`PlaceFound`, `RemovedEntry`).
  `AliveTypesCorrect`; `ListIsSubscribed`, for any endpoints and accounts, any
  number of suspended calls and of runs. `SubscribedAsListed` speaks of a quiet
  store. Of a busy one, `Aimed` says where it is going: the last call that waits
  was told what is wanted, and when none waits, what is subscribed and what the
  run has yet to do (`Pending`) come to it, but for what GitHub refused. That
  holds because the promise is of the one run under way and calls wait for no
  other (`Awaited`), because no account is both subscribed and pending, nor two
  of one endpoint (`Apart`), and because each endpoint has a session of its own
  (`Linked`), so that dropping the session of an account that goes takes
  nothing from one that stays. Before the keychain has been read, the call that
  waits for it stands for all the rest (`Unread`). The prover knows nothing of
  `SelectSeq`, so the filter of the subscriptions is a function of the places
  that stay (`Staying`); `Numbered` is the lemma that counting numbers them.

Only model-checked: all liveness, the liveness part of `PromiseKept` included,
which is beyond what the prover does under fairness, and what the runs that
refute something find. Every invariant and action property of a passing run is
a theorem; the type invariants are proved and not kept by runs. No module uses
recursion.

## 9. What is not modelled

Linked worktrees, cloning repositories and the sections a refresh loads
(history, diffs) do not bear on which repository is selected. The sweep that
heals stored paths at the start runs for all records at once rather than one
after the other. `gitStoreCache.remove` and the arguments of git commands are
left out of network operations. Several GitHub repositories share nothing in
the pull request store, so there is one; likewise one ref of commit statuses.
The pruner's reserved branch names are simply not in `Branch`. The chat history
watcher scans synchronously and has no await to interleave. Several scripts of
one hook type, and the list of custom loadouts, are left out of the loadouts;
the clone of the hooks and the probing of dependencies out of the Claude hooks.
Of the multi-commit operations only merges are modelled; rebase, squash, reorder
and cherry-pick share the dialogs modelled here but have progress and undo of
their own. Checkouts of commits and detached heads take no stash. Who is signed
in at an endpoint, and the texts of errors, make no difference to a sign-in.

What Alive's events are filtered by and shown as is left out. The
notifications, the trampoline, the update store, the git store and the
repositories store's upserts are concurrent code that is left, in the order of
section 2. The rest of the repository has no behaviour a state machine would
say anything about: of some 200,000 lines of implementation most are React
components, styles, generated icons, menus, and lists of editors and shells;
and the API client, the wrappers of git commands and the parsers of their
output are functions of their input with unit tests of their own. The modules
here cover the stateful ring between those two, and the share of the whole
repository they translate stays small for that reason.
