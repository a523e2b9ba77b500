----------------------------- MODULE NetworkOps -----------------------------
(***************************************************************************)
(* The network operations of the app store: push, pull, fetch, the fetch   *)
(* made for a repository's sidebar indicator, the submodule batches, and   *)
(* the pull or push of one submodule.  All but the last run under          *)
(* withPushPullFetch, whose flag lives in RepositoryStateCache under the   *)
(* HASH of a Repository object.  Changing an alias, the fork preference,   *)
(* the path or the GitHub association of a repository gives it a new hash, *)
(* hence a new cache entry: `version` counts the identities a repository   *)
(* has had, and a key is a repository with a version.                      *)
(*                                                                         *)
(* An operation is one asynchronous call.  Its program counter names the   *)
(* await it is suspended at; what runs between two awaits is one action.   *)
(***************************************************************************)
EXTENDS Naturals, FiniteSets

CONSTANTS Repo,        \* the repositories of the sidebar
          Op,          \* calls, each made at most once
          Branch,      \* local branches of a repository
          NoOp, User, Detached,
          MaxVersion,  \* bound: identities a repository goes through
          Subs         \* initialized submodules of a repository

ASSUME ConstantsOK ==
  /\ NoOp \notin Op /\ User \notin Op /\ User # NoOp
  /\ Detached \notin Branch
  /\ MaxVersion \in Nat
  /\ Subs \in Nat

Key     == Repo \X (0 .. MaxVersion)
Kind    == {"push", "pull", "fetch", "indicator", "batch", "submodule"}
Policy  == {"unset", "locked", "open"}
Prompt  == {"policy", "hook"}
\* Suspended inside withPushPullFetch, the flag of the key set.
Inside  == {"ask", "list", "subs", "main", "hook", "git", "tail"}
Control == Inside \cup {"idle", "entry", "alone", "done"}
\* How the git command of the operation went, as far as the operation knows.
Result  == {"none", "ok", "failed", "ignored", "aborted", "threw", "refused"}

VARIABLES
  kind, repo,  \* what each call asks for: the inputs, chosen at the start
  pc, ver, branch, left, result,  \* the calls
  version,     \* the current identity of each repository
  loaded,      \* cache entries whose remotes have been read
  busy,        \* isPushPullFetchInProgress of each cache entry
  progress,    \* pushPullFetchProgress: the call that wrote it, NoOp for null
  tip,         \* the checked out branch
  policy,      \* branch.<name>.madnessRemotes, as a verdict on the remote
  dialog,      \* whom the prompt of each type on the popup stack belongs to
  events       \* git-push and git-pull events sent to the automation bus

asked == <<kind, repo>>
world == <<asked, version, loaded, tip>>
vars  == <<pc, ver, branch, left, result, world, busy, progress, policy,
           dialog, events>>

key(o)    == <<repo[o], ver[o]>>
Holder(o) == pc[o] \in Inside
Goto(o, label) == pc' = [pc EXCEPT ![o] = label]

Init ==
  /\ kind \in [Op -> Kind]
  /\ repo \in [Op -> Repo]
  /\ pc = [o \in Op |-> "idle"]
  /\ ver = [o \in Op |-> 0]
  /\ branch = [o \in Op |-> Detached]
  /\ left = [o \in Op |-> 0]
  /\ result = [o \in Op |-> "none"]
  /\ version = [r \in Repo |-> 0]
  /\ loaded = [k \in Key |-> k[2] = 0]
  /\ busy = [k \in Key |-> FALSE]
  /\ progress = [k \in Key |-> NoOp]
  /\ tip \in [Repo -> Branch]
  /\ policy \in [Repo -> [Branch -> Policy]]
  /\ dialog = [t \in Prompt |-> NoOp]
  /\ events = {}

-----------------------------------------------------------------------------
(* The parts of withPushPullFetch and its neighbours that actions share.   *)

\* The flag goes up, and the call is suspended at `label`.
Enter(o, label) ==
  /\ busy' = [busy EXCEPT ![key(o)] = TRUE]
  /\ Goto(o, label)

\* Mutant: the flag is cleared after the await, not in a finally block.
MutantLeave(o, how) ==
  /\ busy' = IF how = "threw" THEN busy ELSE [busy EXCEPT ![key(o)] = FALSE]
  /\ result' = [result EXCEPT ![o] = how]
  /\ Goto(o, "done")
\* The finally block: the flag goes down.
Leave(o, how) ==
  /\ busy' = [busy EXCEPT ![key(o)] = FALSE]
  /\ result' = [result EXCEPT ![o] = how]
  /\ Goto(o, "done")

\* Mutant: progress is written, and never cleared.
MutantSetProgress(o, who) ==
  progress' = IF who = NoOp THEN progress ELSE [progress EXCEPT ![key(o)] = who]
SetProgress(o, who) == progress' = [progress EXCEPT ![key(o)] = who]

\* addPopup drops a popup whose type is already on the stack.
Show(o, t) == dialog' = IF dialog[t] = NoOp THEN [dialog EXCEPT ![t] = o]
                                            ELSE dialog
Close(t)   == dialog' = [dialog EXCEPT ![t] = NoOp]

-----------------------------------------------------------------------------
(* Starting a call.                                                        *)

Invoke(o) ==
  /\ pc[o] = "idle"
  /\ ver' = [ver EXCEPT ![o] = version[repo[o]]]
  /\ Goto(o, IF kind[o] = "submodule" THEN "alone" ELSE "entry")
  /\ UNCHANGED <<branch, left, result, world, busy, progress, policy, dialog,
                 events>>

\* No account: the GitHub association is looked up first, and the call goes
\* on with the Repository object that carries it.
RefreshGitHubRepository(o) ==
  /\ pc[o] = "entry" /\ kind[o] # "batch"
  /\ version[repo[o]] < MaxVersion
  /\ version' = [version EXCEPT ![repo[o]] = @ + 1]
  /\ ver' = [ver EXCEPT ![o] = version'[repo[o]]]
  /\ UNCHANGED <<pc, branch, left, result, asked, loaded, tip, busy, progress,
                 policy, dialog, events>>

\* performPush with a cache entry that knows no remote: the publish dialog.
PublishInstead(o) ==
  /\ pc[o] = "entry" /\ kind[o] = "push" /\ ~loaded[key(o)]
  /\ Goto(o, "done")
  /\ UNCHANGED <<ver, branch, left, result, world, busy, progress, policy,
                 dialog, events>>

Ready(o) == pc[o] = "entry" /\ (kind[o] = "push" => loaded[key(o)])

\* The flag is up: return at once.  fetchForRepositoryIndicator clears the
\* progress of the repository all the same.
Skip(o) ==
  /\ Ready(o) /\ busy[key(o)]
  /\ Goto(o, "done")
  /\ IF kind[o] = "indicator" THEN SetProgress(o, NoOp) ELSE UNCHANGED progress
  /\ UNCHANGED <<ver, branch, left, result, world, busy, policy, dialog, events>>

\* Mutant: only a push looks at the flag.
MutantFree(o) == Ready(o) /\ (kind[o] = "push" => ~busy[key(o)])
Free(o) == Ready(o) /\ ~busy[key(o)]

Unusable(o) ==
  \/ kind[o] \in {"push", "pull"} /\ tip[repo[o]] = Detached
  \/ kind[o] = "pull" /\ ~loaded[key(o)]

\* No remote, or no branch: the closure throws before its first await.
ThrowEarly(o) ==
  /\ Free(o) /\ Unusable(o)
  /\ Leave(o, "threw")
  /\ UNCHANGED <<ver, branch, left, world, progress, policy, dialog, events>>

\* What the policy of the current branch says of the remote it is pushed to.
Verdict(o) == policy[repo[o]][tip[repo[o]]]

\* performPush up to the first await: the branch is the current one, and
\* its policy decides.
StartPush(o) ==
  /\ Free(o) /\ kind[o] = "push" /\ ~Unusable(o)
  /\ branch' = [branch EXCEPT ![o] = tip[repo[o]]]
  /\ \/ /\ Verdict(o) = "unset"
        /\ Enter(o, "ask") /\ Show(o, "policy")
        /\ UNCHANGED <<result, progress>>
     \/ /\ Verdict(o) = "locked"
        /\ Leave(o, "refused")
        /\ UNCHANGED <<progress, dialog>>
     \/ /\ Verdict(o) = "open"
        /\ Enter(o, "list") /\ SetProgress(o, o)
        /\ UNCHANGED <<result, dialog>>
  /\ UNCHANGED <<ver, left, world, policy, events>>

StartPull(o) ==
  /\ Free(o) /\ kind[o] = "pull" /\ ~Unusable(o)
  /\ branch' = [branch EXCEPT ![o] = tip[repo[o]]]
  /\ Enter(o, "list") /\ SetProgress(o, o)
  /\ UNCHANGED <<ver, left, result, world, policy, dialog, events>>

StartOther(o) ==
  /\ Free(o) /\ kind[o] \in {"fetch", "indicator", "batch"}
  /\ Enter(o, IF kind[o] = "batch" THEN "list" ELSE "git")
  /\ UNCHANGED <<ver, branch, left, result, world, progress, policy, dialog,
                 events>>

-----------------------------------------------------------------------------
(* The prompt of a first push.                                             *)

\* The user closes the prompt without deciding.
DismissPolicy(o) ==
  /\ pc[o] = "ask" /\ dialog["policy"] = o
  /\ Close("policy") /\ Leave(o, "refused")
  /\ UNCHANGED <<ver, branch, left, world, progress, policy, events>>

\* The answer is written to the config, which may fail, and acted on.
AnswerPolicy(o, answer) ==
  /\ pc[o] = "ask" /\ dialog["policy"] = o
  /\ Close("policy")
  /\ \/ policy' = [policy EXCEPT ![repo[o]][branch[o]] = answer]
     \/ UNCHANGED policy
  /\ IF answer = "open"
       THEN Goto(o, "list") /\ SetProgress(o, o) /\ UNCHANGED <<busy, result>>
       ELSE Leave(o, "refused") /\ UNCHANGED progress
  /\ UNCHANGED <<ver, branch, left, world, events>>

-----------------------------------------------------------------------------
(* Submodules first.                                                       *)

ListSubmodules(o) ==
  /\ pc[o] = "list"
  /\ left' = [left EXCEPT ![o] = Subs]
  /\ Goto(o, "subs")
  /\ UNCHANGED <<ver, branch, result, world, busy, progress, policy, dialog,
                 events>>

\* listSubmodules rejects.  A pull clears its progress in a finally block, a
\* batch catches everything, a push does neither.
ListingFails(o) ==
  /\ pc[o] = "list"
  /\ \/ kind[o] = "push" /\ Leave(o, "threw") /\ UNCHANGED progress
     \/ kind[o] = "pull" /\ Leave(o, "threw") /\ SetProgress(o, NoOp)
     \/ /\ kind[o] = "batch" /\ Goto(o, "tail")
        /\ result' = [result EXCEPT ![o] = "failed"]
        /\ UNCHANGED <<busy, progress>>
  /\ UNCHANGED <<ver, branch, left, world, policy, dialog, events>>

SubmoduleDone(o) ==
  /\ pc[o] = "subs" /\ left[o] > 0
  /\ left' = [left EXCEPT ![o] = @ - 1]
  /\ UNCHANGED <<pc, ver, branch, result, world, busy, progress, policy,
                 dialog, events>>

\* A push and a batch carry on with the next submodule; a pull gives up.
GivesUp(o) == kind[o] = "pull"

SubmoduleFails(o) ==
  /\ pc[o] = "subs" /\ left[o] > 0
  /\ IF GivesUp(o)
       THEN Leave(o, "threw") /\ SetProgress(o, NoOp) /\ UNCHANGED left
       ELSE /\ left' = [left EXCEPT ![o] = @ - 1]
            /\ result' = IF kind[o] = "batch"
                           THEN [result EXCEPT ![o] = "failed"] ELSE result
            /\ UNCHANGED <<pc, busy, progress>>
  /\ UNCHANGED <<ver, branch, world, policy, dialog, events>>

SubmodulesDone(o) ==
  /\ pc[o] = "subs" /\ left[o] = 0
  /\ Goto(o, IF kind[o] = "batch" THEN "tail" ELSE "main")
  /\ UNCHANGED <<ver, branch, left, result, world, busy, progress, policy,
                 dialog, events>>

-----------------------------------------------------------------------------
(* The push or the pull of the repository itself, and its hooks.           *)

\* git succeeds, or fails with an error that performFailableOperation shows.
MainDone(o, how) ==
  /\ pc[o] = "main" /\ how \in {"ok", "failed"}
  /\ result' = [result EXCEPT ![o] = how]
  /\ Goto(o, "tail")
  /\ UNCHANGED <<ver, branch, left, world, busy, progress, policy, dialog,
                 events>>

\* Mutant: a hook whose failure was ignored is asked about again.
MutantHookFails(o) ==
  /\ pc[o] = "main"
  /\ Goto(o, "hook") /\ Show(o, "hook")
  /\ UNCHANGED <<ver, branch, left, result, world, busy, progress, policy,
                 events>>
\* One failing hook of a command is modelled.
HookFails(o) ==
  /\ pc[o] = "main" /\ result[o] # "ignored"
  /\ Goto(o, "hook") /\ Show(o, "hook")
  /\ UNCHANGED <<ver, branch, left, result, world, busy, progress, policy,
                 events>>

\* The remote-guard hook refuses a push: no prompt.
RemoteGuardBlocks(o) ==
  /\ pc[o] = "main" /\ kind[o] = "push"
  /\ result' = [result EXCEPT ![o] = "aborted"]
  /\ Goto(o, "tail")
  /\ UNCHANGED <<ver, branch, left, world, busy, progress, policy, dialog,
                 events>>

AnswerHook(o, answer) ==
  /\ pc[o] = "hook" /\ dialog["hook"] = o
  /\ Close("hook")
  /\ \/ /\ answer = "ignore" /\ Goto(o, "main")
        /\ result' = [result EXCEPT ![o] = "ignored"]
     \/ /\ answer = "abort" /\ Goto(o, "tail")
        /\ result' = [result EXCEPT ![o] = "aborted"]
  /\ UNCHANGED <<ver, branch, left, world, busy, progress, policy, events>>

-----------------------------------------------------------------------------
(* What follows git: refreshes, the progress, the automation event.        *)

Event(o, name, b) ==
  [op |-> o, name |-> name, branch |-> b, landed |-> result[o] = "ok"]

\* The branch of the event is read again, whatever is checked out by now.
FinishPush(o) ==
  /\ pc[o] = "tail" /\ kind[o] = "push"
  /\ SetProgress(o, NoOp)
  /\ IF tip[repo[o]] = Detached
       THEN Leave(o, "threw") /\ UNCHANGED events
       ELSE /\ Leave(o, result[o])
            /\ events' = events \cup {Event(o, "git-push", tip[repo[o]])}
  /\ UNCHANGED <<ver, branch, left, world, policy, dialog>>

\* Reconciling the history or the final refresh may reject: no event then.
FinishPull(o) ==
  /\ pc[o] = "tail" /\ kind[o] = "pull"
  /\ SetProgress(o, NoOp)
  /\ \/ Leave(o, "threw") /\ UNCHANGED events
     \/ /\ Leave(o, result[o])
        /\ events' = events \cup {Event(o, "git-pull", branch[o])}
  /\ UNCHANGED <<ver, branch, left, world, policy, dialog>>

FinishBatch(o) ==
  /\ pc[o] = "tail" /\ kind[o] = "batch"
  /\ SetProgress(o, NoOp) /\ Leave(o, result[o])
  /\ loaded' = [loaded EXCEPT ![key(o)] = TRUE]
  /\ UNCHANGED <<ver, branch, left, asked, version, tip, policy, dialog, events>>

\* A fetch refreshes the repository and clears its progress in a finally
\* block; the refresh is what reads the remotes.
FinishFetch(o) ==
  /\ pc[o] = "git" /\ kind[o] = "fetch"
  /\ \/ Leave(o, "ok") /\ loaded' = [loaded EXCEPT ![key(o)] = TRUE]
     \/ Leave(o, "threw") /\ UNCHANGED loaded
  /\ SetProgress(o, NoOp)
  /\ UNCHANGED <<ver, branch, left, asked, version, tip, policy, dialog, events>>

FinishIndicator(o) ==
  /\ pc[o] = "git" /\ kind[o] = "indicator"
  /\ \/ Leave(o, "ok") /\ SetProgress(o, NoOp)
     \/ Leave(o, "threw") /\ UNCHANGED progress
  /\ UNCHANGED <<ver, branch, left, world, policy, dialog, events>>

\* _pullSubmodule and _pushSubmodule: no flag, no progress.
FinishSubmodule(o) ==
  /\ pc[o] = "alone"
  /\ Goto(o, "done")
  /\ UNCHANGED <<ver, branch, left, result, world, busy, progress, policy,
                 dialog, events>>

-----------------------------------------------------------------------------
(* What happens around the calls.                                          *)

\* git reports progress through the callback of the running command.
ReportProgress(o) ==
  /\ pc[o] \in {"subs", "main", "git"} /\ progress[key(o)] # o
  /\ SetProgress(o, o)
  /\ UNCHANGED <<pc, ver, branch, left, result, world, busy, policy, dialog,
                 events>>

\* An alias, a preference, a path or an association is stored.
ChangeIdentity(r) ==
  /\ version[r] < MaxVersion
  /\ version' = [version EXCEPT ![r] = @ + 1]
  /\ UNCHANGED <<pc, ver, branch, left, result, asked, loaded, tip, busy,
                 progress, policy, dialog, events>>

\* The refresh that follows a selection reads the remotes.
RefreshRepository(r) ==
  /\ ~loaded[<<r, version[r]>>]
  /\ loaded' = [loaded EXCEPT ![<<r, version[r]>>] = TRUE]
  /\ UNCHANGED <<pc, ver, branch, left, result, asked, version, tip, busy,
                 progress, policy, dialog, events>>

Checkout(r, b) ==
  /\ tip[r] # b
  /\ tip' = [tip EXCEPT ![r] = b]
  /\ UNCHANGED <<pc, ver, branch, left, result, asked, version, loaded, busy,
                 progress, policy, dialog, events>>

\* "Remote Policy..." for a branch, or a commit's failed hook.
OpenOtherDialog(t) ==
  /\ dialog[t] = NoOp
  /\ dialog' = [dialog EXCEPT ![t] = User]
  /\ UNCHANGED <<pc, ver, branch, left, result, world, busy, progress, policy,
                 events>>

CloseOtherDialog(t) ==
  /\ dialog[t] = User
  /\ Close(t)
  /\ \/ /\ t = "policy"
        /\ \E r \in Repo, b \in Branch, p \in {"locked", "open"} :
             policy' = [policy EXCEPT ![r][b] = p]
     \/ UNCHANGED policy
  /\ UNCHANGED <<pc, ver, branch, left, result, world, busy, progress, events>>

-----------------------------------------------------------------------------
\* The steps of a call that need nobody's answer.
Step(o) ==
  \/ PublishInstead(o) \/ Skip(o) \/ ThrowEarly(o)
  \/ StartPush(o) \/ StartPull(o) \/ StartOther(o)
  \/ ListSubmodules(o) \/ ListingFails(o)
  \/ SubmoduleDone(o) \/ SubmoduleFails(o) \/ SubmodulesDone(o)
  \/ \E how \in {"ok", "failed"} : MainDone(o, how)
  \/ HookFails(o) \/ RemoteGuardBlocks(o)
  \/ FinishPush(o) \/ FinishPull(o) \/ FinishBatch(o)
  \/ FinishFetch(o) \/ FinishIndicator(o) \/ FinishSubmodule(o)

Answer(o) ==
  \/ DismissPolicy(o)
  \/ \E answer \in {"locked", "open"} : AnswerPolicy(o, answer)
  \/ \E answer \in {"ignore", "abort"} : AnswerHook(o, answer)

Environment ==
  \/ \E r \in Repo : ChangeIdentity(r) \/ RefreshRepository(r)
  \/ \E r \in Repo, b \in Branch \cup {Detached} : Checkout(r, b)
  \/ \E t \in Prompt : OpenOtherDialog(t) \/ CloseOtherDialog(t)

Next ==
  \/ \E o \in Op : \/ Invoke(o) \/ RefreshGitHubRepository(o)
                   \/ Step(o) \/ Answer(o) \/ ReportProgress(o)
  \/ Environment

\* git commands end, and the user answers the prompts on the screen.
Fairness ==
  \A o \in Op :
    /\ WF_vars(Step(o))
    /\ WF_vars(Answer(o))

Spec == Init /\ [][Next]_vars

-----------------------------------------------------------------------------
(* Properties.                                                             *)

\* The variables have the shape the actions rely on.
TypeOK ==
  /\ kind \in [Op -> Kind] /\ repo \in [Op -> Repo]
  /\ pc \in [Op -> Control]
  /\ ver \in [Op -> 0 .. MaxVersion]
  /\ branch \in [Op -> Branch \cup {Detached}]
  /\ left \in [Op -> 0 .. Subs]
  /\ result \in [Op -> Result]
  /\ version \in [Repo -> 0 .. MaxVersion]
  /\ loaded \in [Key -> BOOLEAN] /\ busy \in [Key -> BOOLEAN]
  /\ progress \in [Key -> Op \cup {NoOp}]
  /\ tip \in [Repo -> Branch \cup {Detached}]
  /\ policy \in [Repo -> [Branch -> Policy]]
  /\ dialog \in [Prompt -> Op \cup {NoOp, User}]
  /\ events \subseteq [op : Op, name : {"git-push", "git-pull"},
                        branch : Branch \cup {Detached}, landed : BOOLEAN]

\* Under one identity of a repository two guarded network operations never
\* overlap, whatever a first push, a failing listing or a hook does.
OneNetworkOpPerKey ==
  \A o, p \in Op : Holder(o) /\ Holder(p) /\ key(o) = key(p) => o = p

\* The flag is up exactly while some call is inside withPushPullFetch: no
\* path out of a call leaves a repository refusing every later operation.
FlagMeansRunning ==
  \A k \in Key : busy[k] <=> \E o \in Op : Holder(o) /\ key(o) = k

\* withPushPullFetch implements a gate: in one step of the store at most one
\* call goes in, into an empty key, or comes out, under the key it holds.
Exclusive == INSTANCE Gate
               WITH inside <- {<<key(o), o>> : o \in {p \in Op : Holder(p)}}
ImplementsGate == Exclusive!Spec

\* The wish of the comment in withPushPullFetch, "Don't allow concurrent
\* network operations", taken for a repository rather than for a cache entry.
OneNetworkOpPerRepository ==
  \A o, p \in Op :
    Holder(o) /\ Holder(p) /\ repo[o] = repo[p] => o = p

\* Only an operation whose promise was rejected can leave progress behind.
ProgressOnlyLeftByThrow ==
  \A k \in Key : progress[k] # NoOp =>
    LET o == progress[k] IN
      key(o) = k /\ (Holder(o) \/ (pc[o] = "done" /\ result[o] = "threw"
                                    /\ kind[o] \in {"push", "indicator"}))

\* The documentation of pushPullFetchProgress: null if no push, fetch or pull
\* of the repository is in flight.
ProgressMeansInFlight ==
  \A k \in Key : progress[k] # NoOp => busy[k]

\* A call waiting for the answer to its prompt has that prompt on the stack.
PromptIsOnScreen ==
  \A o \in Op : /\ pc[o] = "ask" => dialog["policy"] = o
                /\ pc[o] = "hook" => dialog["hook"] = o

\* "The app refuses a push that breaks the lock": the main push is never
\* running for a branch whose lock forbids it.
LockedBranchNotPushed ==
  [][\A o \in Op :
       kind[o] = "push" /\ pc[o] # "main" /\ pc'[o] = "main"
         => policy[repo[o]][branch[o]] # "locked"]_vars

\* Events are sent when a push or pull is done: the push has landed.
PushEventMeansLanded ==
  \A e \in events : e.name = "git-push" => e.landed

\* Every call ends, unless the prompt it waits for was never shown.
Dropped(o) == \/ pc[o] = "ask" /\ dialog["policy"] # o
              \/ pc[o] = "hook" /\ dialog["hook"] # o
EveryCallEnds ==
  \A o \in Op : pc[o] # "idle" ~> (pc[o] = "done" \/ Dropped(o))
=============================================================================
