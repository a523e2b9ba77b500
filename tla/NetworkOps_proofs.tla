------------------------- MODULE NetworkOps_proofs -------------------------
(***************************************************************************)
(* NetworkOps for every set of repositories, calls and branches, every     *)
(* bound on identities and every number of submodules: the type invariant  *)
(* and the exclusion that withPushPullFetch provides.                      *)
(***************************************************************************)
EXTENDS NetworkOps, TLAPS

LEMMA InitType == Init => TypeOK
BY ConstantsOK DEF Init, TypeOK, Key, Prompt, Policy, Control, Result, Kind

-----------------------------------------------------------------------------
(* What the shared parts of the actions do to the types.                   *)

LEMMA KeyType ==
  ASSUME TypeOK, NEW o \in Op PROVE key(o) \in Key /\ key(o)[1] = repo[o]
BY DEF TypeOK, Key, key

LEMMA GotoType ==
  ASSUME TypeOK, NEW o \in Op, NEW label \in Control, Goto(o, label)
  PROVE  pc' \in [Op -> Control]
BY DEF TypeOK, Goto

LEMMA EnterType ==
  ASSUME TypeOK, NEW o \in Op, NEW label \in Control, Enter(o, label)
  PROVE  pc' \in [Op -> Control] /\ busy' \in [Key -> BOOLEAN]
BY KeyType, GotoType DEF TypeOK, Enter

LEMMA LeaveType ==
  ASSUME TypeOK, NEW o \in Op, NEW how \in Result, Leave(o, how)
  PROVE  /\ pc' \in [Op -> Control] /\ busy' \in [Key -> BOOLEAN]
         /\ result' \in [Op -> Result]
<1>1. "done" \in Control
  BY DEF Control
<1> QED
  BY <1>1, KeyType, GotoType DEF TypeOK, Leave

LEMMA ProgressType ==
  ASSUME TypeOK, NEW o \in Op, NEW who \in Op \cup {NoOp}, SetProgress(o, who)
  PROVE  progress' \in [Key -> Op \cup {NoOp}]
BY KeyType DEF TypeOK, SetProgress

LEMMA DialogType ==
  ASSUME TypeOK, NEW t \in Prompt,
         Close(t) \/ \E o \in Op : Show(o, t)
  PROVE  dialog' \in [Prompt -> Op \cup {NoOp, User}]
BY DEF TypeOK, Close, Show

\* A verdict stored for a branch; a detached HEAD has none.
LEMMA PolicyType ==
  ASSUME TypeOK, NEW r \in Repo, NEW b, NEW p \in Policy,
         policy' = [policy EXCEPT ![r][b] = p]
  PROVE  policy' \in [Repo -> [Branch -> Policy]]
<1>1. policy[r] \in [Branch -> Policy]
  BY DEF TypeOK
<1>2. [policy[r] EXCEPT ![b] = p] \in [Branch -> Policy]
  BY <1>1
<1> QED
  BY <1>2 DEF TypeOK

LEMMA EventType ==
  ASSUME TypeOK, NEW o \in Op, NEW name \in {"git-push", "git-pull"},
         NEW b \in Branch \cup {Detached},
         events' = events \cup {Event(o, name, b)}
  PROVE  events' \subseteq [op : Op, name : {"git-push", "git-pull"},
                             branch : Branch \cup {Detached},
                             landed : BOOLEAN]
<1>1. (result[o] = "ok") \in BOOLEAN
  OBVIOUS
<1>2. Event(o, name, b) \in [op : Op, name : {"git-push", "git-pull"},
                           branch : Branch \cup {Detached}, landed : BOOLEAN]
  BY <1>1 DEF Event
<1> QED
  BY <1>2 DEF TypeOK

-----------------------------------------------------------------------------
\* Each action keeps the variables in their types.
LEMMA NextType == ASSUME TypeOK, [Next]_vars PROVE TypeOK'
<1> USE ConstantsOK
<1>l. /\ Inside \cup {"entry", "alone", "done"} \subseteq Control
      /\ {"ask", "list", "subs", "main", "hook", "git", "tail"} \subseteq
           Control
      /\ {"ok", "failed", "ignored", "aborted", "threw", "refused"} \subseteq
           Result
      /\ "done" \in Control /\ "policy" \in Prompt /\ "hook" \in Prompt
  BY DEF Control, Inside, Result, Prompt
<1>1. ASSUME NEW o \in Op, Invoke(o) PROVE TypeOK'
  BY <1>1, <1>l, GotoType
  DEF TypeOK, Invoke, world, asked
<1>2. ASSUME NEW o \in Op, RefreshGitHubRepository(o) PROVE TypeOK'
  BY <1>2, <1>l
  DEF TypeOK, RefreshGitHubRepository, asked
<1>3. ASSUME NEW o \in Op, PublishInstead(o) PROVE TypeOK'
  BY <1>3, <1>l, GotoType, KeyType
  DEF TypeOK, PublishInstead, world, asked
<1>4. ASSUME NEW o \in Op, Skip(o) PROVE TypeOK'
  BY <1>4, <1>l, GotoType, ProgressType, KeyType
  DEF TypeOK, Skip, world, asked
<1>5. ASSUME NEW o \in Op, ThrowEarly(o) PROVE TypeOK'
  BY <1>5, <1>l, LeaveType
  DEF TypeOK, ThrowEarly, world, asked
<1>6. ASSUME NEW o \in Op, StartPush(o) PROVE TypeOK'
  BY <1>6, <1>l, EnterType, LeaveType, ProgressType, DialogType
  DEF TypeOK, StartPush, world, asked
<1>7. ASSUME NEW o \in Op, StartPull(o) PROVE TypeOK'
  BY <1>7, <1>l, EnterType, ProgressType
  DEF TypeOK, StartPull, world, asked
<1>8. ASSUME NEW o \in Op, StartOther(o) PROVE TypeOK'
  BY <1>8, <1>l, EnterType
  DEF TypeOK, StartOther, world, asked
<1>9. ASSUME NEW o \in Op, DismissPolicy(o) PROVE TypeOK'
  BY <1>9, <1>l, LeaveType, DialogType
  DEF TypeOK, DismissPolicy, world, asked
<1>10. ASSUME NEW o \in Op, NEW answer \in {"locked", "open"}, AnswerPolicy(o, answer)
       PROVE  TypeOK'
  <2> USE <1>10
  <2>1. policy' \in [Repo -> [Branch -> Policy]]
    <3>1. CASE UNCHANGED policy
      BY <3>1 DEF TypeOK
    <3>2. CASE policy' = [policy EXCEPT ![repo[o]][branch[o]] = answer]
      <4>1. repo[o] \in Repo /\ answer \in Policy
        BY DEF TypeOK, Policy
      <4> QED
        BY <3>2, <4>1, PolicyType
    <3> QED
      BY <3>1, <3>2 DEF AnswerPolicy
  <2>2. CASE answer = "open"
    <3>1. Goto(o, "list") /\ SetProgress(o, o) /\ UNCHANGED <<busy, result>>
      BY <2>2 DEF AnswerPolicy
    <3> QED
      BY <2>1, <3>1, <1>l, GotoType, ProgressType, DialogType
      DEF TypeOK, AnswerPolicy, world, asked
  <2>3. CASE answer # "open"
    <3>1. Leave(o, "refused") /\ UNCHANGED progress
      BY <2>3 DEF AnswerPolicy
    <3> QED
      BY <2>1, <3>1, <1>l, LeaveType, DialogType
      DEF TypeOK, AnswerPolicy, world, asked
  <2> QED
    BY <2>2, <2>3
<1>11. ASSUME NEW o \in Op, ListSubmodules(o) PROVE TypeOK'
  BY <1>11, <1>l, GotoType
  DEF TypeOK, ListSubmodules, world, asked
<1>12. ASSUME NEW o \in Op, ListingFails(o) PROVE TypeOK'
  BY <1>12, <1>l, LeaveType, GotoType, ProgressType
  DEF TypeOK, ListingFails, world, asked
<1>13. ASSUME NEW o \in Op, SubmoduleDone(o) PROVE TypeOK'
  BY <1>13, <1>l
  DEF TypeOK, SubmoduleDone, world, asked
<1>14. ASSUME NEW o \in Op, SubmoduleFails(o) PROVE TypeOK'
  <2> USE <1>14
  <2>1. CASE kind[o] = "pull"
    <3>1. Leave(o, "threw") /\ SetProgress(o, NoOp) /\ UNCHANGED left
      BY <2>1 DEF SubmoduleFails, GivesUp
    <3> QED
      BY <3>1, <1>l, LeaveType, ProgressType
      DEF TypeOK, SubmoduleFails, GivesUp, world, asked
  <2>2. CASE kind[o] # "pull"
    <3>0. left' = [left EXCEPT ![o] = left[o] - 1] /\ left[o] > 0
      BY <2>2 DEF SubmoduleFails, GivesUp
    <3>1. left' \in [Op -> 0 .. Subs]
      BY <3>0 DEF TypeOK
    <3>2. result' \in [Op -> Result] /\ UNCHANGED <<pc, busy, progress>>
      BY <2>2, <1>l DEF TypeOK, SubmoduleFails, GivesUp
    <3> QED
      BY <3>1, <3>2 DEF TypeOK, SubmoduleFails, GivesUp, world, asked
  <2> QED
    BY <2>1, <2>2
<1>15. ASSUME NEW o \in Op, SubmodulesDone(o) PROVE TypeOK'
  BY <1>15, <1>l, GotoType
  DEF TypeOK, SubmodulesDone, world, asked
<1>16. ASSUME NEW o \in Op, NEW how \in {"ok", "failed"}, MainDone(o, how)
       PROVE  TypeOK'
  BY <1>16, <1>l, GotoType
  DEF TypeOK, MainDone, world, asked
<1>17. ASSUME NEW o \in Op, HookFails(o) PROVE TypeOK'
  BY <1>17, <1>l, GotoType, DialogType
  DEF TypeOK, HookFails, world, asked
<1>18. ASSUME NEW o \in Op, RemoteGuardBlocks(o) PROVE TypeOK'
  BY <1>18, <1>l, GotoType
  DEF TypeOK, RemoteGuardBlocks, world, asked
<1>19. ASSUME NEW o \in Op, NEW answer \in {"ignore", "abort"}, AnswerHook(o, answer)
       PROVE  TypeOK'
  <2> USE <1>19
  <2>1. pc' \in [Op -> Control]
    BY <1>l, GotoType DEF AnswerHook
  <2>2. result' \in [Op -> Result]
    BY <1>l DEF TypeOK, AnswerHook
  <2>3. dialog' \in [Prompt -> Op \cup {NoOp, User}]
    BY <1>l, DialogType DEF AnswerHook
  <2> QED
    BY <2>1, <2>2, <2>3 DEF TypeOK, AnswerHook, world, asked
<1>20. ASSUME NEW o \in Op, FinishPush(o) PROVE TypeOK'
  <2> USE <1>20
  <2>1. progress' \in [Key -> Op \cup {NoOp}]
    BY ProgressType DEF FinishPush
  <2>2. result[o] \in Result /\ tip[repo[o]] \in Branch \cup {Detached}
    BY DEF TypeOK
  <2>3. CASE tip[repo[o]] = Detached
    <3>1. Leave(o, "threw") /\ UNCHANGED events
      BY <2>3 DEF FinishPush
    <3> QED
      BY <2>1, <3>1, <1>l, LeaveType DEF TypeOK, FinishPush, world, asked
  <2>4. CASE tip[repo[o]] # Detached
    <3>1. Leave(o, result[o])
      BY <2>4 DEF FinishPush
    <3>2. events' \subseteq [op : Op, name : {"git-push", "git-pull"},
                            branch : Branch \cup {Detached},
                            landed : BOOLEAN]
      BY <2>2, <2>4, EventType DEF FinishPush
    <3> QED
      BY <2>1, <2>2, <3>1, <3>2, LeaveType DEF TypeOK, FinishPush, world, asked
  <2> QED
    BY <2>3, <2>4
<1>21. ASSUME NEW o \in Op, FinishPull(o) PROVE TypeOK'
  <2> USE <1>21
  <2>1. progress' \in [Key -> Op \cup {NoOp}]
    BY ProgressType DEF FinishPull
  <2>2. result[o] \in Result /\ branch[o] \in Branch \cup {Detached}
    BY DEF TypeOK
  <2>3. CASE Leave(o, "threw") /\ UNCHANGED events
    BY <2>1, <2>3, <1>l, LeaveType DEF TypeOK, FinishPull, world, asked
  <2>4. CASE /\ Leave(o, result[o])
             /\ events' = events \cup {Event(o, "git-pull", branch[o])}
    <3>1. events' \subseteq [op : Op, name : {"git-push", "git-pull"},
                            branch : Branch \cup {Detached},
                            landed : BOOLEAN]
      BY <2>2, <2>4, EventType
    <3> QED
      BY <2>1, <2>2, <2>4, <3>1, LeaveType DEF TypeOK, FinishPull, world, asked
  <2> QED
    BY <2>3, <2>4 DEF FinishPull
<1>22. ASSUME NEW o \in Op, FinishBatch(o) PROVE TypeOK'
  BY <1>22, <1>l, LeaveType, ProgressType, KeyType
  DEF TypeOK, FinishBatch, asked
<1>23. ASSUME NEW o \in Op, FinishFetch(o) PROVE TypeOK'
  BY <1>23, <1>l, LeaveType, ProgressType, KeyType
  DEF TypeOK, FinishFetch, asked
<1>24. ASSUME NEW o \in Op, FinishIndicator(o) PROVE TypeOK'
  BY <1>24, <1>l, LeaveType, ProgressType
  DEF TypeOK, FinishIndicator, world, asked
<1>25. ASSUME NEW o \in Op, FinishSubmodule(o) PROVE TypeOK'
  BY <1>25, <1>l, GotoType
  DEF TypeOK, FinishSubmodule, world, asked
<1>26. ASSUME NEW o \in Op, ReportProgress(o) PROVE TypeOK'
  BY <1>26, <1>l, ProgressType, KeyType
  DEF TypeOK, ReportProgress, world, asked
<1>27. CASE Environment
  <2>1. ASSUME NEW r \in Repo, ChangeIdentity(r) PROVE TypeOK'
    BY <2>1 DEF TypeOK, ChangeIdentity, asked
  <2>2. ASSUME NEW r \in Repo, RefreshRepository(r) PROVE TypeOK'
    BY <2>2 DEF TypeOK, RefreshRepository, asked
  <2>3. ASSUME NEW r \in Repo, NEW b \in Branch \cup {Detached}, Checkout(r, b)
        PROVE  TypeOK'
    BY <2>3 DEF TypeOK, Checkout, asked
  <2>4. ASSUME NEW t \in Prompt, OpenOtherDialog(t) PROVE TypeOK'
    BY <2>4 DEF TypeOK, OpenOtherDialog, world, asked
  <2>5. ASSUME NEW t \in Prompt, CloseOtherDialog(t) PROVE TypeOK'
    <3>1. policy' \in [Repo -> [Branch -> Policy]]
      <4>1. CASE UNCHANGED policy
        BY <4>1 DEF TypeOK
      <4>2. ASSUME NEW r \in Repo, NEW b \in Branch, NEW p \in {"locked", "open"},
                   policy' = [policy EXCEPT ![r][b] = p]
            PROVE  policy' \in [Repo -> [Branch -> Policy]]
        BY <4>2, PolicyType DEF Policy
      <4> QED
        BY <2>5, <4>1, <4>2 DEF CloseOtherDialog
    <3> QED
      BY <2>5, <3>1, DialogType DEF TypeOK, CloseOtherDialog, world, asked
  <2> QED
    BY <1>27, <2>1, <2>2, <2>3, <2>4, <2>5 DEF Environment
<1>28. CASE UNCHANGED vars
  BY <1>28 DEF TypeOK, vars, world, asked
<1> QED
  BY <1>1, <1>2, <1>3, <1>4, <1>5, <1>6, <1>7, <1>8, <1>9, <1>10, <1>11,
     <1>12, <1>13, <1>14, <1>15, <1>16, <1>17, <1>18, <1>19, <1>20, <1>21,
     <1>22, <1>23, <1>24, <1>25, <1>26, <1>27, <1>28
  DEF Next, Step, Answer

\* The variables of every behaviour of the store keep their types.
THEOREM TypeCorrect == Spec => []TypeOK
BY InitType, NextType, PTL DEF Spec

-----------------------------------------------------------------------------
(* The exclusion.  Neither half is inductive alone: two calls overlap only *)
(* when one enters while the flag is down although the other is inside,    *)
(* and the flag goes down under a call only when another one leaves.       *)

Exclusion == OneNetworkOpPerKey /\ FlagMeansRunning

LEMMA InitExclusion == Init => Exclusion
BY DEF Init, Exclusion, OneNetworkOpPerKey, FlagMeansRunning, Holder, Inside

\* What a step of the store does to the gate: nothing; one call comes in, and
\* raises a flag that was down; one call goes out, and lowers the flag.
StaysPut ==
  /\ UNCHANGED busy
  /\ \A p \in Op : /\ Holder(p)' <=> Holder(p)
                   /\ Holder(p) => key(p)' = key(p)

ComesIn(o) ==
  /\ key(o) \in Key /\ ~busy[key(o)]
  /\ \A k \in Key : busy'[k] <=> (busy[k] \/ k = key(o))
  /\ \A p \in Op : /\ Holder(p)' <=> (Holder(p) \/ p = o)
                   /\ key(p)' = key(p)

\* A call that throws before its first await goes out without having come in.
GoesOut(o) ==
  /\ key(o) \in Key /\ (Holder(o) \/ ~busy[key(o)])
  /\ \A k \in Key : busy'[k] <=> (busy[k] /\ k # key(o))
  /\ \A p \in Op : /\ Holder(p)' <=> (Holder(p) /\ p # o)
                   /\ key(p)' = key(p)

Gated == StaysPut \/ \E o \in Op : ComesIn(o) \/ GoesOut(o)

LEMMA StayPut ==
  ASSUME UNCHANGED <<busy, repo>>,
         \A p \in Op : /\ Holder(p)' <=> Holder(p)
                       /\ Holder(p) => ver'[p] = ver[p]
  PROVE  Gated
BY DEF Gated, StaysPut, key

\* One call moves between two awaits that are both inside or both outside.
LEMMA MoveGated ==
  ASSUME TypeOK, NEW o \in Op, NEW label, Goto(o, label),
         Holder(o) <=> label \in Inside, UNCHANGED <<busy, repo, ver>>
  PROVE  Gated
<1>1. \A p \in Op : Holder(p)' <=> Holder(p)
  BY DEF TypeOK, Goto, Holder
<1> QED
  BY <1>1, StayPut

LEMMA EnterGated ==
  ASSUME TypeOK, NEW o \in Op, NEW label \in Inside, Free(o),
         Enter(o, label), UNCHANGED <<repo, ver>>
  PROVE  Gated
<1>1. key(o) \in Key /\ ~busy[key(o)]
  BY KeyType DEF Free
<1>2. \A p \in Op : Holder(p)' <=> (Holder(p) \/ p = o)
  BY DEF TypeOK, Enter, Goto, Holder
<1>3. \A p \in Op : key(p)' = key(p)
  BY DEF key
<1>4. \A k \in Key : busy'[k] <=> (busy[k] \/ k = key(o))
  BY <1>1 DEF TypeOK, Enter
<1>5. ComesIn(o)
  BY <1>1, <1>2, <1>3, <1>4 DEF ComesIn
<1> QED
  BY <1>5 DEF Gated

LEMMA LeaveGated ==
  ASSUME TypeOK, NEW o \in Op, NEW how, Leave(o, how),
         Holder(o) \/ Free(o), UNCHANGED <<repo, ver>>
  PROVE  Gated
<1>1. key(o) \in Key /\ (Holder(o) \/ ~busy[key(o)])
  BY KeyType DEF Free
<1>2. \A p \in Op : Holder(p)' <=> (Holder(p) /\ p # o)
  BY DEF TypeOK, Leave, Goto, Holder, Inside
<1>3. \A p \in Op : key(p)' = key(p)
  BY DEF key
<1>4. \A k \in Key : busy'[k] <=> (busy[k] /\ k # key(o))
  BY <1>1 DEF TypeOK, Leave
<1>5. GoesOut(o)
  BY <1>1, <1>2, <1>3, <1>4 DEF GoesOut
<1> QED
  BY <1>5 DEF Gated

\* Every step of the store is one of the three.
LEMMA NextGated == ASSUME TypeOK, [Next]_vars PROVE Gated
<1>l. /\ {"ask", "list", "subs", "main", "hook", "git", "tail"} = Inside
      /\ "idle" \notin Inside /\ "entry" \notin Inside /\ "alone" \notin Inside
      /\ "done" \notin Inside
  BY DEF Inside
<1>1. ASSUME NEW o \in Op, Invoke(o) PROVE Gated
  <2>1. /\ UNCHANGED <<busy, repo>> /\ ~Holder(o)
        /\ \A p \in Op \ {o} : pc'[p] = pc[p] /\ ver'[p] = ver[p]
        /\ pc'[o] \in {"entry", "alone"}
    BY <1>1, <1>l DEF TypeOK, Invoke, Goto, Holder, world, asked
  <2>2. \A p \in Op : /\ Holder(p)' <=> Holder(p)
                      /\ Holder(p) => ver'[p] = ver[p]
    BY <2>1, <1>l DEF Holder
  <2> QED
    BY <2>1, <2>2, StayPut
<1>2. ASSUME NEW o \in Op, RefreshGitHubRepository(o) PROVE Gated
  <2>1. /\ UNCHANGED <<busy, repo>> /\ ~Holder(o)
        /\ \A p \in Op \ {o} : pc'[p] = pc[p] /\ ver'[p] = ver[p]
        /\ pc'[o] \in {"entry", "alone"}
    BY <1>2, <1>l DEF TypeOK, RefreshGitHubRepository, Goto, Holder, world,
       asked
  <2>2. \A p \in Op : /\ Holder(p)' <=> Holder(p)
                      /\ Holder(p) => ver'[p] = ver[p]
    BY <2>1, <1>l DEF Holder
  <2> QED
    BY <2>1, <2>2, StayPut
<1>3. ASSUME NEW o \in Op, PublishInstead(o) PROVE Gated
  BY <1>3, <1>l, MoveGated DEF PublishInstead, Ready, Holder, world, asked
<1>4. ASSUME NEW o \in Op, Skip(o) PROVE Gated
  BY <1>4, <1>l, MoveGated DEF Skip, Ready, Holder, world, asked
<1>5. ASSUME NEW o \in Op, ThrowEarly(o) PROVE Gated
  BY <1>5, <1>l, LeaveGated DEF ThrowEarly, Holder, world, asked
<1>6. ASSUME NEW o \in Op, StartPush(o) PROVE Gated
  <2> USE <1>6
  <2>1. Free(o) /\ UNCHANGED <<repo, ver>>
    BY DEF StartPush, world, asked
  <2> QED
    BY <2>1, <1>l, EnterGated, LeaveGated DEF StartPush
<1>7. ASSUME NEW o \in Op, StartPull(o) PROVE Gated
  BY <1>7, <1>l, EnterGated DEF StartPull, world, asked
<1>8. ASSUME NEW o \in Op, StartOther(o) PROVE Gated
  BY <1>8, <1>l, EnterGated DEF StartOther, world, asked
<1>9. ASSUME NEW o \in Op, DismissPolicy(o) PROVE Gated
  BY <1>9, <1>l, LeaveGated DEF DismissPolicy, Holder, world, asked
<1>10. ASSUME NEW o \in Op, NEW answer \in {"locked", "open"}, AnswerPolicy(o, answer)
       PROVE  Gated
  <2> USE <1>10
  <2>1. Holder(o) /\ UNCHANGED <<repo, ver>>
    BY <1>l DEF AnswerPolicy, Holder, world, asked
  <2> QED
    BY <2>1, <1>l, MoveGated, LeaveGated DEF AnswerPolicy
<1>11. ASSUME NEW o \in Op, ListSubmodules(o) PROVE Gated
  BY <1>11, <1>l, MoveGated DEF ListSubmodules, Ready, Holder, world, asked
<1>12. ASSUME NEW o \in Op, ListingFails(o) PROVE Gated
  <2> USE <1>12
  <2>1. Holder(o) /\ UNCHANGED <<repo, ver>>
    BY <1>l DEF ListingFails, Holder, world, asked
  <2> QED
    BY <2>1, <1>l, MoveGated, LeaveGated DEF ListingFails
<1>13. ASSUME NEW o \in Op, SubmoduleDone(o) PROVE Gated
  BY <1>13, StayPut DEF SubmoduleDone, Holder, world, asked
<1>14. ASSUME NEW o \in Op, SubmoduleFails(o) PROVE Gated
  <2> USE <1>14
  <2>1. Holder(o) /\ UNCHANGED <<repo, ver>>
    BY <1>l DEF SubmoduleFails, GivesUp, Holder, world, asked
  <2>2. CASE kind[o] = "pull"
    BY <2>1, <2>2, LeaveGated DEF SubmoduleFails, GivesUp
  <2>3. CASE kind[o] # "pull"
    BY <2>1, <2>3, StayPut DEF SubmoduleFails, GivesUp, Holder
  <2> QED
    BY <2>2, <2>3
<1>15. ASSUME NEW o \in Op, SubmodulesDone(o) PROVE Gated
  BY <1>15, <1>l, MoveGated DEF SubmodulesDone, Ready, Holder, world, asked
<1>16. ASSUME NEW o \in Op, NEW how \in {"ok", "failed"}, MainDone(o, how)
       PROVE  Gated
  BY <1>16, <1>l, MoveGated DEF MainDone, Ready, Holder, world, asked
<1>17. ASSUME NEW o \in Op, HookFails(o) PROVE Gated
  BY <1>17, <1>l, MoveGated DEF HookFails, Ready, Holder, world, asked
<1>18. ASSUME NEW o \in Op, RemoteGuardBlocks(o) PROVE Gated
  BY <1>18, <1>l, MoveGated DEF RemoteGuardBlocks, Ready, Holder, world,
     asked
<1>19. ASSUME NEW o \in Op, NEW answer \in {"ignore", "abort"}, AnswerHook(o, answer)
       PROVE  Gated
  <2> USE <1>19
  <2>1. Holder(o) /\ UNCHANGED <<busy, repo, ver>>
    BY <1>l DEF AnswerHook, Holder, world, asked
  <2> QED
    BY <2>1, <1>l, MoveGated DEF AnswerHook
<1>20. ASSUME NEW o \in Op, FinishPush(o) PROVE Gated
  BY <1>20, <1>l, LeaveGated DEF FinishPush, Holder, world, asked
<1>21. ASSUME NEW o \in Op, FinishPull(o) PROVE Gated
  BY <1>21, <1>l, LeaveGated DEF FinishPull, Holder, world, asked
<1>22. ASSUME NEW o \in Op, FinishBatch(o) PROVE Gated
  BY <1>22, <1>l, LeaveGated DEF FinishBatch, Holder, world, asked
<1>23. ASSUME NEW o \in Op, FinishFetch(o) PROVE Gated
  BY <1>23, <1>l, LeaveGated DEF FinishFetch, Holder, world, asked
<1>24. ASSUME NEW o \in Op, FinishIndicator(o) PROVE Gated
  BY <1>24, <1>l, LeaveGated DEF FinishIndicator, Holder, world, asked
<1>25. ASSUME NEW o \in Op, FinishSubmodule(o) PROVE Gated
  BY <1>25, <1>l, MoveGated DEF FinishSubmodule, Ready, Holder, world, asked
<1>26. ASSUME NEW o \in Op, ReportProgress(o) PROVE Gated
  BY <1>26, StayPut DEF ReportProgress, Holder, world, asked
<1>27. CASE Environment
  <2>1. UNCHANGED <<busy, repo, pc, ver>>
    BY <1>27 DEF Environment, ChangeIdentity, RefreshRepository, Checkout,
       OpenOtherDialog, CloseOtherDialog, world, asked
  <2> QED
    BY <2>1, StayPut DEF Holder
<1>28. CASE UNCHANGED vars
  BY <1>28, StayPut DEF Holder, vars, world, asked
<1> QED
  BY <1>1, <1>2, <1>3, <1>4, <1>5, <1>6, <1>7, <1>8, <1>9, <1>10, <1>11,
     <1>12, <1>13, <1>14, <1>15, <1>16, <1>17, <1>18, <1>19, <1>20, <1>21,
     <1>22, <1>23, <1>24, <1>25, <1>26, <1>27, <1>28
  DEF Next, Step, Answer

\* None of the three disturbs the exclusion: who comes in finds the flag down,
\* hence nobody inside; who goes out was the only one.
LEMMA GatedExclusion == ASSUME Exclusion, Gated PROVE Exclusion'
<1>1. CASE StaysPut
  BY <1>1 DEF StaysPut, Exclusion, OneNetworkOpPerKey, FlagMeansRunning
<1>2. ASSUME NEW o \in Op, ComesIn(o) PROVE Exclusion'
  <2>1. \A p \in Op : Holder(p) => key(p) # key(o)
    BY <1>2 DEF ComesIn, Exclusion, FlagMeansRunning
  <2>2. OneNetworkOpPerKey'
    BY <1>2, <2>1 DEF ComesIn, Exclusion, OneNetworkOpPerKey
  <2>3. FlagMeansRunning'
    BY <1>2 DEF ComesIn, Exclusion, FlagMeansRunning
  <2> QED
    BY <2>2, <2>3 DEF Exclusion
<1>3. ASSUME NEW o \in Op, GoesOut(o) PROVE Exclusion'
  <2>1. \A p \in Op : Holder(p) /\ p # o => key(p) # key(o)
    BY <1>3 DEF GoesOut, Exclusion, OneNetworkOpPerKey, FlagMeansRunning
  <2>2. OneNetworkOpPerKey'
    BY <1>3 DEF GoesOut, Exclusion, OneNetworkOpPerKey
  <2>3. FlagMeansRunning'
    BY <1>3, <2>1 DEF GoesOut, Exclusion, FlagMeansRunning
  <2> QED
    BY <2>2, <2>3 DEF Exclusion
<1> QED
  BY <1>1, <1>2, <1>3 DEF Gated

LEMMA NextExclusion == ASSUME TypeOK, Exclusion, [Next]_vars PROVE Exclusion'
BY NextGated, GatedExclusion

\* Two calls under one identity of a repository are never both inside
\* withPushPullFetch, for any number of calls and repositories.
THEOREM Excluded == Spec => []OneNetworkOpPerKey
<1>1. Init => TypeOK /\ Exclusion
  BY InitType, InitExclusion
<1>2. TypeOK /\ Exclusion /\ [Next]_vars => (TypeOK /\ Exclusion)'
  BY NextType, NextExclusion
<1>3. Exclusion => OneNetworkOpPerKey
  BY DEF Exclusion
<1> QED
  BY <1>1, <1>2, <1>3, PTL DEF Spec

\* The flag of a cache entry is up exactly while a call is inside: no path out
\* of a call, thrown or not, leaves it up.
THEOREM FlagIsRight == Spec => []FlagMeansRunning
<1>1. Init => TypeOK /\ Exclusion
  BY InitType, InitExclusion
<1>2. TypeOK /\ Exclusion /\ [Next]_vars => (TypeOK /\ Exclusion)'
  BY NextType, NextExclusion
<1>3. Exclusion => FlagMeansRunning
  BY DEF Exclusion
<1> QED
  BY <1>1, <1>2, <1>3, PTL DEF Spec

-----------------------------------------------------------------------------
(* The gate: the three kinds of step are its steps.                        *)

\* The calls inside, as the gate sees them.
inside == {<<key(o), o>> : o \in {p \in Op : Holder(p)}}

LEMMA GatedSteps ==
  ASSUME TypeOK, Exclusion, Gated PROVE [Exclusive!Next]_inside
<1>1. CASE StaysPut
  <2>1. inside' = inside
    BY <1>1 DEF StaysPut, inside
  <2> QED
    BY <2>1
<1>2. ASSUME NEW o \in Op, ComesIn(o) PROVE [Exclusive!Next]_inside
  <2>1. \A p \in Op : Holder(p) => key(p) # key(o)
    BY <1>2 DEF ComesIn, Exclusion, FlagMeansRunning
  <2>2. \A e \in inside : e[1] # key(o) /\ e[2] # o
    BY <2>1 DEF inside
  <2>3. inside' = inside \cup {<<key(o), o>>}
    BY <1>2 DEF ComesIn, inside
  <2>4. Exclusive!Enter(key(o), o)
    BY <2>2, <2>3 DEF Exclusive!Enter, inside
  <2> QED
    BY <1>2, <2>4 DEF ComesIn, Exclusive!Next
<1>3. ASSUME NEW o \in Op, GoesOut(o) PROVE [Exclusive!Next]_inside
  <2>1. inside' = inside \ {<<key(o), o>>}
    BY <1>3 DEF GoesOut, inside
  <2>2. CASE Holder(o)
    <3>1. <<key(o), o>> \in inside
      BY <2>2 DEF inside
    <3> QED
      BY <3>1, <2>1 DEF Exclusive!Next, Exclusive!Exit, inside
  <2>3. CASE ~Holder(o)
    <3>1. inside' = inside
      BY <2>1, <2>3 DEF inside
    <3> QED
      BY <3>1
  <2> QED
    BY <2>2, <2>3
<1> QED
  BY <1>1, <1>2, <1>3 DEF Gated

\* withPushPullFetch is a gate: whatever its closures do, throw or wait for,
\* calls come in one by one into an empty key, and out under the same key.
THEOREM GateImplemented == Spec => ImplementsGate
<1>1. Init => TypeOK /\ Exclusion
  BY InitType, InitExclusion
<1>2. TypeOK /\ Exclusion /\ [Next]_vars => (TypeOK /\ Exclusion)'
  BY NextType, NextExclusion
<1>3. Init => Exclusive!Init
  BY DEF Init, Exclusive!Init, Holder, Inside
<1>4. TypeOK /\ Exclusion /\ [Next]_vars => [Exclusive!Next]_inside
  BY NextGated, GatedSteps
<1> QED
  BY <1>1, <1>2, <1>3, <1>4, PTL DEF Spec, ImplementsGate, Exclusive!Spec, inside

-----------------------------------------------------------------------------
(* The progress.  A call that waits for the policy has not written any yet; *)
(* the invariant needs to say so, as being refused does not clear it.       *)

Owns(o, k) ==
  /\ key(o) = k
  /\ \/ Holder(o) /\ pc[o] # "ask"
     \/ pc[o] = "done" /\ result[o] = "threw" /\ kind[o] \in {"push", "indicator"}

Written == \A k \in Key, o \in Op : progress[k] = o => Owns(o, k)

LEMMA InitWritten == Init => Written
BY ConstantsOK DEF Init, Written

\* One call moves: nobody else loses what is his, and what is left to this one
\* under any key it owns.
LEMMA MoveWritten ==
  ASSUME TypeOK, Written, NEW o \in Op, UNCHANGED <<kind, repo>>,
         \A p \in Op \ {o} :
           pc'[p] = pc[p] /\ ver'[p] = ver[p] /\ result'[p] = result[p],
         \A k \in Key : progress'[k] \in {progress[k], NoOp, o},
         \A k \in Key : progress'[k] = o => Owns(o, k)'
  PROVE  Written'
<1>1. ASSUME NEW k \in Key, NEW p \in Op \ {o}, progress'[k] = p
      PROVE  Owns(p, k)'
  <2>1. progress[k] = p BY <1>1, ConstantsOK
  <2>2. Owns(p, k) BY <2>1 DEF Written
  <2> QED BY <2>2 DEF Owns, key, Holder
<1> QED BY <1>1 DEF Written

\* A call that has written nothing leaves the progress alone, or clears it.
LEMMA QuietWritten ==
  ASSUME TypeOK, Written, NEW o \in Op, UNCHANGED <<kind, repo>>,
         pc[o] \in {"idle", "entry", "alone", "ask"},
         \A p \in Op \ {o} :
           pc'[p] = pc[p] /\ ver'[p] = ver[p] /\ result'[p] = result[p],
         UNCHANGED progress \/ SetProgress(o, NoOp)
  PROVE  Written'
<1>1. \A k \in Key : progress'[k] \in {progress[k], NoOp}
  BY DEF SetProgress, TypeOK
<1>2. \A k \in Key : progress[k] # o
  BY DEF Written, Owns, Holder, Inside
<1> QED BY <1>1, <1>2, MoveWritten, ConstantsOK

\* A call goes on inside, writing its own progress or none.
LEMMA InsideWritten ==
  ASSUME TypeOK, Written, NEW o \in Op, UNCHANGED <<kind, repo, ver>>,
         \A p \in Op \ {o} : pc'[p] = pc[p] /\ result'[p] = result[p],
         pc'[o] \in Inside \ {"ask"},
         UNCHANGED progress \/ SetProgress(o, o)
  PROVE  Written'
<1>1. \A k \in Key : progress'[k] \in {progress[k], o}
  BY DEF SetProgress, TypeOK
<1>2. \A k \in Key : progress'[k] = o => key(o) = k
  <2>1. \A k \in Key : progress[k] = o => key(o) = k
    BY DEF Written, Owns
  <2> QED BY <2>1, KeyType DEF SetProgress, TypeOK
<1>3. \A k \in Key : progress'[k] = o => Owns(o, k)'
  BY <1>2 DEF Owns, key, Holder
<1> QED BY <1>1, <1>3, MoveWritten

\* A call that clears its progress owns none.
LEMMA ClearWritten ==
  ASSUME TypeOK, Written, NEW o \in Op, UNCHANGED <<kind, repo, ver>>,
         \A p \in Op \ {o} : pc'[p] = pc[p] /\ result'[p] = result[p],
         SetProgress(o, NoOp)
  PROVE  Written'
<1>1. \A k \in Key : progress'[k] \in {progress[k], NoOp}
  BY DEF SetProgress, TypeOK
<1>2. \A k \in Key : progress'[k] # o
  <2>1. \A k \in Key : progress[k] = o => key(o) = k
    BY DEF Written, Owns
  <2> QED BY <2>1, KeyType, ConstantsOK DEF SetProgress, TypeOK
<1> QED BY <1>1, <1>2, MoveWritten

\* A push or an indicator fetch that throws keeps what it owns.
LEMMA ThrowWritten ==
  ASSUME TypeOK, Written, NEW o \in Op, UNCHANGED <<kind, repo, ver, progress>>,
         kind[o] \in {"push", "indicator"}, Leave(o, "threw")
  PROVE  Written'
<1>1. \A p \in Op \ {o} : pc'[p] = pc[p] /\ result'[p] = result[p]
  BY DEF Leave, Goto, TypeOK
<1>2. pc'[o] = "done" /\ result'[o] = "threw"
  BY DEF Leave, Goto, TypeOK
<1>3. \A k \in Key : progress'[k] = o => Owns(o, k)'
  BY <1>2 DEF Written, Owns, key
<1> QED BY <1>1, <1>3, MoveWritten

LEMMA NextWritten == ASSUME TypeOK, Written, [Next]_vars PROVE Written'
<1>l. /\ Inside = {"ask", "list", "subs", "main", "hook", "git", "tail"}
      /\ \A o \in Op : \A label : Goto(o, label)
           => pc'[o] = label /\ \A p \in Op \ {o} : pc'[p] = pc[p]
      /\ \A o \in Op : \A how : Leave(o, how)
           => \A p \in Op \ {o} : pc'[p] = pc[p] /\ result'[p] = result[p]
      /\ \A o \in Op : \A label : Enter(o, label)
           => pc'[o] = label /\ \A p \in Op \ {o} : pc'[p] = pc[p]
  BY DEF Inside, Goto, Leave, Enter, TypeOK
<1>1. ASSUME NEW o \in Op,
             \/ Invoke(o) \/ RefreshGitHubRepository(o) \/ PublishInstead(o)
             \/ Skip(o) \/ ThrowEarly(o) \/ DismissPolicy(o)
             \/ FinishSubmodule(o)
      PROVE  Written'
  <2>1. /\ pc[o] \in {"idle", "entry", "alone", "ask"}
        /\ UNCHANGED <<kind, repo>>
        /\ UNCHANGED progress \/ SetProgress(o, NoOp)
    BY <1>1 DEF Invoke, RefreshGitHubRepository, PublishInstead, Skip,
         ThrowEarly, DismissPolicy, FinishSubmodule, Free, Ready, world, asked
  <2>2. \A p \in Op \ {o} :
          pc'[p] = pc[p] /\ ver'[p] = ver[p] /\ result'[p] = result[p]
    BY <1>1, <1>l
       DEF Invoke, RefreshGitHubRepository, PublishInstead, Skip,
         ThrowEarly, DismissPolicy, FinishSubmodule, TypeOK
  <2> QED BY <2>1, <2>2, QuietWritten
<1>2. ASSUME NEW o \in Op, StartPush(o) \/ StartPull(o) PROVE Written'
  <2>1. pc[o] = "entry" /\ UNCHANGED <<kind, repo, ver>>
    BY <1>2 DEF StartPush, StartPull, Free, Ready, world, asked
  <2>2. CASE UNCHANGED progress
             /\ \A p \in Op \ {o} : pc'[p] = pc[p] /\ result'[p] = result[p]
    BY <2>1, <2>2, QuietWritten
  <2>3. CASE Enter(o, "list") /\ SetProgress(o, o) /\ UNCHANGED result
    <3>1. pc'[o] \in Inside \ {"ask"} BY <2>3, <1>l
    <3> QED BY <1>l, <2>1, <2>3, <3>1, InsideWritten
  <2> QED BY <1>2, <1>l, <2>2, <2>3 DEF StartPush, StartPull
<1>3. ASSUME NEW o \in Op, StartOther(o) PROVE Written'
  BY <1>3, <1>l, QuietWritten DEF StartOther, Free, Ready, world, asked
<1>4. ASSUME NEW o \in Op, NEW answer \in {"locked", "open"},
             AnswerPolicy(o, answer)
      PROVE  Written'
  <2>1. pc[o] = "ask" /\ UNCHANGED <<kind, repo, ver>>
    BY <1>4 DEF AnswerPolicy, world, asked
  <2>2. CASE answer = "open"
    <3>1. Goto(o, "list") /\ SetProgress(o, o) /\ UNCHANGED result
      BY <1>4, <2>2 DEF AnswerPolicy
    <3>2. pc'[o] \in Inside \ {"ask"} BY <3>1, <1>l
    <3> QED BY <1>l, <2>1, <3>1, <3>2, InsideWritten
  <2>3. CASE answer # "open"
    <3>1. Leave(o, "refused") /\ UNCHANGED progress
      BY <1>4, <2>3 DEF AnswerPolicy
    <3> QED BY <1>l, <2>1, <3>1, QuietWritten
  <2> QED BY <2>2, <2>3
<1>5. ASSUME NEW o \in Op, ListSubmodules(o) \/ SubmodulesDone(o) \/ HookFails(o)
      PROVE  Written'
  <2>1. /\ UNCHANGED <<kind, repo, ver, progress, result>>
        /\ \E label \in Inside \ {"ask"} : Goto(o, label)
    BY <1>5, <1>l
       DEF ListSubmodules, SubmodulesDone, HookFails, world, asked
  <2> QED BY <1>l, <2>1, InsideWritten
<1>6. ASSUME NEW o \in Op, ListingFails(o) PROVE Written'
  <2>1. UNCHANGED <<kind, repo, ver>>
    BY <1>6 DEF ListingFails, world, asked
  <2>2. CASE kind[o] = "push" /\ Leave(o, "threw") /\ UNCHANGED progress
    BY <2>1, <2>2, ThrowWritten
  <2>3. CASE Leave(o, "threw") /\ SetProgress(o, NoOp)
    BY <1>l, <2>1, <2>3, ClearWritten
  <2>4. CASE /\ Goto(o, "tail") /\ UNCHANGED progress
             /\ result' = [result EXCEPT ![o] = "failed"]
    <3>1. \A p \in Op \ {o} : pc'[p] = pc[p] /\ result'[p] = result[p]
      BY <1>l, <2>4 DEF TypeOK
    <3>2. pc'[o] \in Inside \ {"ask"} BY <1>l, <2>4
    <3> QED BY <2>1, <2>4, <3>1, <3>2, InsideWritten
  <2> QED BY <1>6, <2>2, <2>3, <2>4 DEF ListingFails
<1>7. ASSUME NEW o \in Op, SubmoduleDone(o) \/ ReportProgress(o) PROVE Written'
  <2>1. /\ UNCHANGED <<kind, repo, ver, pc, result>>
        /\ pc[o] \in Inside \ {"ask"}
        /\ UNCHANGED progress \/ SetProgress(o, o)
    BY <1>7, <1>l DEF SubmoduleDone, ReportProgress, world, asked
  <2> QED BY <2>1, InsideWritten
<1>8. ASSUME NEW o \in Op, SubmoduleFails(o) PROVE Written'
  <2>1. UNCHANGED <<kind, repo, ver>> /\ pc[o] = "subs"
    BY <1>8 DEF SubmoduleFails, world, asked
  <2>2. CASE GivesUp(o)
    BY <1>8, <1>l, <2>1, <2>2, ClearWritten DEF SubmoduleFails
  <2>3. CASE ~GivesUp(o)
    <3>1. UNCHANGED <<pc, progress>> BY <1>8, <2>3 DEF SubmoduleFails
    <3>2. \A p \in Op \ {o} : result'[p] = result[p]
      BY <1>8, <2>3 DEF SubmoduleFails, TypeOK
    <3> QED BY <1>l, <2>1, <3>1, <3>2, InsideWritten
  <2> QED BY <2>2, <2>3
<1>9. ASSUME NEW o \in Op, NEW how \in {"ok", "failed"},
             MainDone(o, how) \/ RemoteGuardBlocks(o)
      PROVE  Written'
  <2>1. /\ UNCHANGED <<kind, repo, ver, progress>> /\ Goto(o, "tail")
        /\ \A p \in Op \ {o} : result'[p] = result[p]
    BY <1>9 DEF MainDone, RemoteGuardBlocks, world, asked, TypeOK
  <2>2. pc'[o] \in Inside \ {"ask"} BY <1>l, <2>1
  <2> QED BY <1>l, <2>1, <2>2, InsideWritten
<1>10. ASSUME NEW o \in Op, NEW answer \in {"ignore", "abort"},
              AnswerHook(o, answer)
       PROVE  Written'
  <2>1. /\ UNCHANGED <<kind, repo, ver, progress>>
        /\ \E label \in Inside \ {"ask"} : Goto(o, label)
        /\ \A p \in Op \ {o} : result'[p] = result[p]
    BY <1>10, <1>l DEF AnswerHook, world, asked, TypeOK
  <2> QED BY <1>l, <2>1, InsideWritten
<1>11. ASSUME NEW o \in Op, \/ FinishPush(o) \/ FinishPull(o) \/ FinishBatch(o)
                            \/ FinishFetch(o)
       PROVE  Written'
  <2>1. /\ UNCHANGED <<kind, repo, ver>> /\ SetProgress(o, NoOp)
        /\ \E how : Leave(o, how)
    BY <1>11
       DEF FinishPush, FinishPull, FinishBatch, FinishFetch, world, asked
  <2> QED BY <1>l, <2>1, ClearWritten
<1>12. ASSUME NEW o \in Op, FinishIndicator(o) PROVE Written'
  <2>1. UNCHANGED <<kind, repo, ver>> /\ kind[o] = "indicator"
    BY <1>12 DEF FinishIndicator, world, asked
  <2>2. CASE Leave(o, "ok") /\ SetProgress(o, NoOp)
    BY <1>l, <2>1, <2>2, ClearWritten
  <2>3. CASE Leave(o, "threw") /\ UNCHANGED progress
    BY <2>1, <2>3, ThrowWritten
  <2> QED BY <1>12, <2>2, <2>3 DEF FinishIndicator
<1>13. CASE Environment \/ UNCHANGED vars
  <2>1. UNCHANGED <<kind, repo, pc, ver, result, progress>>
    BY <1>13 DEF Environment, ChangeIdentity, RefreshRepository, Checkout,
         OpenOtherDialog, CloseOtherDialog, vars, world, asked
  <2> QED BY <2>1 DEF Written, Owns, key, Holder
<1> QED
  BY <1>1, <1>2, <1>3, <1>4, <1>5, <1>6, <1>7, <1>8, <1>9, <1>10, <1>11,
     <1>12, <1>13
  DEF Next, Step, Answer

\* Progress is left behind by a push or an indicator fetch that threw, and by
\* no other path out of any call.
THEOREM OnlyThrowsLeaveProgress == Spec => []ProgressOnlyLeftByThrow
<1>1. TypeOK /\ Written => ProgressOnlyLeftByThrow
  <2> SUFFICES ASSUME TypeOK, Written, NEW k \in Key, progress[k] # NoOp
               PROVE  Owns(progress[k], k)
    BY DEF ProgressOnlyLeftByThrow, Owns
  <2> QED BY DEF TypeOK, Written
<1>2. TypeOK /\ Written /\ [Next]_vars => (TypeOK /\ Written)'
  BY NextType, NextWritten
<1> QED
  BY InitType, InitWritten, <1>1, <1>2, PTL DEF Spec
=============================================================================
