---------------------------- MODULE Stores_proofs ----------------------------
(***************************************************************************)
(* Theorems about three caches.  AheadBehind: for any calls, any ranges    *)
(* and any limit.  CommitStatus: for any views, any number of changes of   *)
(* the checks, and room for any number of refreshes.  PullRequests: for    *)
(* any pull requests, clock and number of changes.                         *)
(***************************************************************************)
EXTENDS AheadBehind, CommitStatus, PullRequestsSynced, FiniteSetTheorems,
        TLAPS

Calls == [Call -> [at : {"unmade", "limited", "waiting", "over"},
                   range : RevRange \cup {NoRange}]]

\* A call that was made is about a range.
Ranged == \A c \in Call : call[c].at # "unmade" => call[c].range \in RevRange

LEMMA InitCallTypes == AheadBehindInit => AheadBehindTypeOK /\ Ranged
<1> SUFFICES ASSUME AheadBehindInit PROVE AheadBehindTypeOK /\ Ranged
  OBVIOUS
<1>1. Waiting = {} BY DEF AheadBehindInit, Unmade, At, Waiting
<1> QED BY <1>1 DEF AheadBehindInit, AheadBehindTypeOK, Ranged, Unmade, At

LEMMA StepCallTypes ==
  ASSUME AheadBehindTypeOK, Ranged, [AheadBehindNext]_abVars
  PROVE  AheadBehindTypeOK' /\ Ranged'
<1>1. CASE UNCHANGED abVars
  BY <1>1 DEF abVars, Waiting, AheadBehindTypeOK, Ranged
<1>2. ASSUME NEW c \in Call, NEW r \in RevRange, GetAheadBehind(c, r)
      PROVE  AheadBehindTypeOK' /\ Ranged'
  <2> DEFINE there == IF memo[r] = "absent" THEN "limited" ELSE "over"
  <2>1. /\ there \in {"limited", "over"}
        /\ call[c].at = "unmade" /\ call' = [call EXCEPT ![c] = At(there, r)]
    BY <1>2 DEF GetAheadBehind, At, Unmade
  <2> HIDE DEF there
  <2>2. call' \in Calls /\ Ranged'
    BY <2>1 DEF AheadBehindTypeOK, Calls, Ranged, At
  <2>3. Waiting' = Waiting /\ \A d \in Waiting : call'[d] = call[d]
    BY <2>1 DEF Waiting, At, AheadBehindTypeOK
  <2>4. worker' = {call'[d].range : d \in Waiting'}
    BY <1>2, <2>3 DEF GetAheadBehind, AheadBehindTypeOK
  <2> QED BY <1>2, <2>2, <2>4 DEF GetAheadBehind, Tell, AheadBehindTypeOK, Calls
<1>3. ASSUME NEW c \in Call, Dispose(c) PROVE AheadBehindTypeOK' /\ Ranged'
  BY <1>3 DEF Dispose, Waiting, AheadBehindTypeOK, Ranged
<1>4. ASSUME NEW c \in Call, Enter(c) PROVE AheadBehindTypeOK' /\ Ranged'
  <2> DEFINE r == call[c].range
             wait == memo[r] = "absent" /\ c \notin disposed
  <2>1. /\ call[c].at = "limited" /\ r \in RevRange
        /\ call' = [call EXCEPT ![c] = At(IF wait THEN "waiting" ELSE "over", r)]
        /\ worker' = IF wait THEN worker \cup {r} ELSE worker
        /\ answered' \subseteq answered \cup {c}
        /\ UNCHANGED <<memo, disposed>>
    BY <1>4 DEF Enter, Tell, Ranged
  <2>2. call' \in Calls /\ Ranged'
    BY <2>1 DEF AheadBehindTypeOK, Calls, Ranged, At
  <2>3. /\ \A d \in Call : call'[d].range = call[d].range
        /\ Waiting' = IF wait THEN Waiting \cup {c} ELSE Waiting
    BY <2>1 DEF Waiting, AheadBehindTypeOK, At
  <2>4. worker' = {call'[d].range : d \in Waiting'}
    <3>1. {call'[d].range : d \in Waiting'} = {call[d].range : d \in Waiting'}
      BY <2>3 DEF Waiting
    <3>2. worker = {call[d].range : d \in Waiting} BY DEF AheadBehindTypeOK
    <3>3. CASE wait
      <4>1. worker' = worker \cup {call[c].range} /\ Waiting' = Waiting \cup {c}
        BY <2>1, <2>3, <3>3
      <4> QED BY <3>1, <3>2, <4>1
    <3>4. CASE ~wait
      BY <2>1, <2>3, <3>1, <3>2, <3>4
    <3> QED BY <3>3, <3>4
  <2> QED BY <2>1, <2>2, <2>4 DEF AheadBehindTypeOK, Calls
<1>5. ASSUME NEW r \in RevRange, GitEnds(r) PROVE AheadBehindTypeOK' /\ Ranged'
  <2> DEFINE mine == {c \in Waiting : call[c].range = r}
  <2>1. /\ call' = [c \in Call |-> IF c \in mine THEN At("over", r) ELSE call[c]]
        /\ worker' = worker \ {r} /\ disposed' = disposed
    BY <1>5 DEF GitEnds
  <2>2. /\ memo' \in [RevRange -> {"absent", "failed", "known"}]
        /\ answered' \subseteq Call
    BY <1>5 DEF GitEnds, Tell, Waiting, AheadBehindTypeOK
  <2>3. call' \in Calls /\ Ranged'
    BY <2>1 DEF At, AheadBehindTypeOK, Calls, Ranged
  <2>4. /\ Waiting' = Waiting \ mine
        /\ \A c \in Waiting \ mine : call'[c] = call[c]
    BY <2>1 DEF At, Waiting
  <2>5. worker' = {call[c].range : c \in Waiting \ mine}
    BY <2>1 DEF AheadBehindTypeOK
  <2>6. worker' = {call'[c].range : c \in Waiting'} BY <2>4, <2>5
  <2>7. worker' \subseteq RevRange /\ disposed' \subseteq Call
    BY <2>1 DEF AheadBehindTypeOK
  <2> QED BY <2>2, <2>3, <2>6, <2>7 DEF AheadBehindTypeOK, Calls
<1>6. ASSUME NEW r \in RevRange, Forget(r) PROVE AheadBehindTypeOK' /\ Ranged'
  BY <1>6 DEF Forget, Waiting, AheadBehindTypeOK, Ranged
<1> QED BY <1>1, <1>2, <1>3, <1>4, <1>5, <1>6 DEF AheadBehindNext, abVars

\* The variables keep their types, and git works on the ranges calls wait for.
THEOREM CallTypesCorrect == AheadBehindSpec => []AheadBehindTypeOK
  BY InitCallTypes, StepCallTypes, PTL DEF AheadBehindSpec

-----------------------------------------------------------------------------
(* The limiter: as many calls wait for git as it lets in, and git works on  *)
(* a range for some call that waits.                                        *)
Limited == IsFiniteSet(Waiting) /\ Cardinality(Waiting) =< MaxConcurrent

LEMMA StepLimited ==
  ASSUME AheadBehindTypeOK, Ranged, Limited, AheadBehindConstants,
         [AheadBehindNext]_abVars
  PROVE  Limited'
<1> USE DEF AheadBehindConstants
<1>1. ASSUME Waiting' \subseteq Waiting PROVE Limited'
  <2>1. /\ IsFiniteSet(Waiting') /\ Cardinality(Waiting') =< Cardinality(Waiting)
        /\ Cardinality(Waiting) \in Nat /\ Cardinality(Waiting') \in Nat
    BY <1>1, FS_Subset, FS_CardinalityType DEF Limited
  <2> QED BY <2>1 DEF Limited
<1>2. ASSUME NEW c \in Call, Enter(c) PROVE Limited'
  <2>1. Waiting' \subseteq Waiting \/ Waiting' = Waiting \cup {c}
    BY <1>2 DEF Enter, Waiting, AheadBehindTypeOK, At
  <2>2. CASE Waiting' = Waiting \cup {c}
    <3>1. Cardinality(Waiting) \in Nat
      BY FS_CardinalityType DEF Limited
    <3>2. /\ IsFiniteSet(Waiting')
          /\ \/ Cardinality(Waiting') = Cardinality(Waiting)
             \/ Cardinality(Waiting') = Cardinality(Waiting) + 1
      BY <2>2, FS_AddElement DEF Limited
    <3>3. Cardinality(Waiting) < MaxConcurrent BY <1>2 DEF Enter
    <3> QED BY <3>1, <3>2, <3>3 DEF Limited
  <2> QED BY <1>1, <2>1, <2>2
<1>3. CASE UNCHANGED abVars BY <1>1, <1>3 DEF abVars, Waiting
<1>4. ASSUME NEW c \in Call, NEW r \in RevRange, GetAheadBehind(c, r)
      PROVE  Limited'
  BY <1>1, <1>4 DEF GetAheadBehind, At, Unmade, Waiting, AheadBehindTypeOK
<1>5. ASSUME NEW c \in Call, Dispose(c) PROVE Limited'
  BY <1>1, <1>5 DEF Dispose, Waiting
<1>6. ASSUME NEW r \in RevRange, GitEnds(r) PROVE Limited'
  <2>1. Waiting' \subseteq Waiting BY <1>6 DEF GitEnds, At, Waiting
  <2> QED BY <1>1, <2>1
<1>7. ASSUME NEW r \in RevRange, Forget(r) PROVE Limited'
  BY <1>1, <1>7 DEF Forget, Waiting
<1> QED BY <1>2, <1>3, <1>4, <1>5, <1>6, <1>7 DEF AheadBehindNext, abVars

LEMMA LimitBinds ==
  ASSUME AheadBehindTypeOK, Limited, AheadBehindConstants
  PROVE  BoundedGit
<1> DEFINE ask == [c \in Waiting |-> call[c].range]
<1>1. ask \in Surjection(Waiting, worker)
  BY DEF AheadBehindTypeOK, Surjection
<1>2. /\ IsFiniteSet(worker) /\ Cardinality(worker) =< Cardinality(Waiting)
  BY <1>1, FS_Surjection DEF Limited
<1>3. Cardinality(worker) \in Nat /\ Cardinality(Waiting) \in Nat
  BY <1>2, FS_CardinalityType DEF Limited
<1> QED BY <1>2, <1>3 DEF BoundedGit, Limited, AheadBehindConstants

\* Never more git processes than the limiter allows, however many calls share
\* them, are disposed of or ask again.
THEOREM GitIsBounded ==
  ASSUME AheadBehindConstants
  PROVE  AheadBehindSpec => []BoundedGit
<1>1. AheadBehindInit => Limited
  <2> SUFFICES ASSUME AheadBehindInit PROVE Limited OBVIOUS
  <2>1. Waiting = {} BY DEF AheadBehindInit, Unmade, At, Waiting
  <2> QED BY <2>1, FS_EmptySet DEF Limited, AheadBehindConstants
<1> QED BY <1>1, InitCallTypes, StepCallTypes, StepLimited, LimitBinds, PTL
        DEF AheadBehindSpec

-----------------------------------------------------------------------------
(* The store implements DisposableCalls, as far as safety goes: a call is   *)
(* made, several of them end together, or one is disposed of, and nothing   *)
(* else is seen of git, of the limiter and of the cache.                    *)

Made == {c \in Call : call[c] # Unmade}
Open == {c \in Call : call[c].at \in {"limited", "waiting"}}

LEMMA StepPromise ==
  ASSUME AheadBehindTypeOK, Ranged, [AheadBehindNext]_abVars
  PROVE  [Promise!CallsNext]_(Promise!callVars)
<1> USE DEF AheadBehindTypeOK
<1>1. CASE UNCHANGED abVars
  BY <1>1 DEF abVars, Promise!callVars
<1>2. ASSUME NEW c \in Call, NEW r \in RevRange, GetAheadBehind(c, r)
      PROVE  Promise!Make(c)
  <2> DEFINE there == IF memo[r] = "absent" THEN "limited" ELSE "over"
  <2>1. /\ call[c] = Unmade /\ call' = [call EXCEPT ![c] = At(there, r)]
        /\ there \in {"limited", "over"}
        /\ (there = "over" <=> memo[r] # "absent")
        /\ disposed' = disposed
    BY <1>2 DEF GetAheadBehind
  <2>2. \/ answered' = answered
        \/ memo[r] # "absent" /\ answered' = answered \cup ({c} \ disposed)
    BY <1>2 DEF GetAheadBehind, Tell
  <2> HIDE DEF there
  <2>3. c \notin Made /\ Made' = Made \cup {c}
    BY <2>1 DEF Made, At, Unmade
  <2>4. Open' = IF there = "limited" THEN Open \cup {c} ELSE Open
    BY <2>1 DEF Open, At, Unmade
  <2>5. answered' \in {answered, answered \cup {c}}
        /\ (there = "limited" => answered' = answered)
    BY <2>1, <2>2
  <2> QED BY <2>1, <2>3, <2>4, <2>5 DEF Promise!Make, Made, Open
<1>3. ASSUME NEW c \in Call, Dispose(c) PROVE Promise!DisposeOf(c)
  BY <1>3 DEF Dispose, Promise!DisposeOf
<1>4. ASSUME NEW over \in SUBSET Open, over # {}, Made' = Made,
             Open' = Open \ over, disposed' = disposed,
             answered' \in {answered, answered \cup (over \ disposed)}
      PROVE  Promise!CallsNext
  <2>1. Promise!End(over) BY <1>4 DEF Promise!End, Made, Open
  <2> QED BY <2>1 DEF Promise!CallsNext, Open
<1>5. ASSUME NEW c \in Call, Enter(c)
      PROVE  Promise!CallsNext \/ UNCHANGED Promise!callVars
  <2> DEFINE r == call[c].range
             wait == memo[r] = "absent" /\ c \notin disposed
  <2>1. /\ call[c].at = "limited" /\ disposed' = disposed
        /\ call' = [call EXCEPT ![c] = At(IF wait THEN "waiting" ELSE "over", r)]
        /\ answered' = IF memo[r] = "known" THEN answered \cup ({c} \ disposed)
                                            ELSE answered
    BY <1>5 DEF Enter, Tell
  <2>2. Made' = Made /\ Open' = IF wait THEN Open ELSE Open \ {c}
    BY <2>1 DEF Made, Open, At, Unmade
  <2>3. CASE wait
    <3>1. answered' = answered BY <2>1, <2>3
    <3> QED BY <2>1, <2>2, <2>3, <3>1 DEF Promise!callVars, Made, Open
  <2>4. CASE ~wait
    <3>1. {c} \in SUBSET Open /\ {c} # {} BY <2>1 DEF Open
    <3>2. answered' \in {answered, answered \cup ({c} \ disposed)} BY <2>1
    <3> QED BY <1>4, <2>1, <2>2, <2>4, <3>1, <3>2
  <2> QED BY <2>3, <2>4
<1>6. ASSUME NEW r \in RevRange, GitEnds(r)
      PROVE  Promise!CallsNext
  <2> DEFINE mine == {c \in Waiting : call[c].range = r}
  <2>1. /\ call' = [c \in Call |-> IF c \in mine THEN At("over", r) ELSE call[c]]
        /\ disposed' = disposed /\ r \in worker
        /\ answered' \in {answered, answered \cup (mine \ disposed)}
    BY <1>6 DEF GitEnds, Tell
  <2>2. mine \in SUBSET Open /\ mine # {}
    BY <2>1 DEF Waiting, Open
  <2>3. \A c \in mine : call[c].at = "waiting" BY DEF Waiting
  <2> HIDE DEF mine
  <2>4. Made' = Made
    BY <2>1, <2>3 DEF Made, At, Unmade
  <2>5. Open' = Open \ mine
    BY <2>1, <2>3 DEF Open, At
  <2> QED BY <1>4, <2>1, <2>2, <2>4, <2>5
<1>7. ASSUME NEW r \in RevRange, Forget(r) PROVE UNCHANGED Promise!callVars
  BY <1>7 DEF Forget, Promise!callVars
<1> QED BY <1>1, <1>2, <1>3, <1>5, <1>6, <1>7
        DEF AheadBehindNext, Promise!CallsNext

\* A call is answered at most once, when it ends, and never after it was
\* disposed of, however the calls share git and the limiter.
THEOREM PromiseIsSafe ==
  AheadBehindSpec => Promise!CallsInit /\ [][Promise!CallsNext]_(Promise!callVars)
<1>1. AheadBehindInit => Promise!CallsInit
  BY DEF AheadBehindInit, Promise!CallsInit, At, Unmade
<1>2. AheadBehindTypeOK /\ Ranged /\ [AheadBehindNext]_abVars
        => [Promise!CallsNext]_(Promise!callVars)
  BY StepPromise
<1> QED BY <1>1, <1>2, InitCallTypes, StepCallTypes, PTL DEF AheadBehindSpec

-----------------------------------------------------------------------------
(* CommitStatus.                                                            *)

Fetches == [at : {"idle", "limited", "fetching", "actions"}, v : Version,
            named : BOOLEAN, own : BOOLEAN]
Entries == [in : BOOLEAN, check : Version, actions : BOOLEAN, fresh : BOOLEAN]

LEMMA Versions ==
  ASSUME CommitStatusConstants
  PROVE  /\ 0 \in Version /\ 1 .. MaxVersion \subseteq Version
         /\ 1 \in 1 .. MaxVersion
BY DEF CommitStatusConstants, Version

LEMMA InitStatusTypes ==
  ASSUME CommitStatusConstants, CommitStatusInit
  PROVE  CommitStatusTypeOK
<1>1. Idle \in Fetches BY Versions DEF Idle, Fetch, Fetches
<1>2. NoEntry \in Entries /\ NoEntry.check = 0
  BY Versions DEF NoEntry, Entries
<1> QED BY <1>1, <1>2, Versions
        DEF CommitStatusInit, CommitStatusTypeOK, Fetches, Entries

LEMMA FetchType ==
  ASSUME NEW there \in {"idle", "limited", "fetching", "actions"},
         NEW v \in Version, NEW named \in BOOLEAN, NEW own \in BOOLEAN
  PROVE  Fetch(there, v, named, own) \in Fetches
BY DEF Fetch, Fetches

\* Of every action that moves refresh i: what it may do to the rest.
LEMMA EndsTypes ==
  ASSUME CommitStatusConstants, CommitStatusTypeOK, NEW i \in Slot, Ends(i)
  PROVE  fetch' \in [Slot -> Fetches]
BY DEF CommitStatusConstants, CommitStatusTypeOK, Ends, Idle, Fetch, Fetches,
       Version

LEMMA DeliverTypes ==
  ASSUME CommitStatusConstants, CommitStatusTypeOK, NEW i \in Slot,
         NEW v \in Version, NEW actions \in BOOLEAN, Deliver(i, v, actions)
  PROVE  /\ cached' \in Entries /\ cached'.in
         /\ fetch' \in [Slot -> Fetches] /\ told' \in [Callback -> Version]
<1>1. fetch' \in [Slot -> Fetches] BY EndsTypes DEF Deliver
<1> QED BY <1>1 DEF Deliver, Entry, Entries, CommitStatusTypeOK

LEMMA StepStatusTypes ==
  ASSUME CommitStatusConstants, CommitStatusTypeOK, [CommitStatusNext]_csVars
  PROVE  CommitStatusTypeOK'
<1> USE DEF CommitStatusConstants
<1>1. CASE UNCHANGED csVars
  BY <1>1 DEF csVars, outside, background, map, views, CommitStatusTypeOK
<1>2. ASSUME NEW c \in Callback, NEW kind \in {"plain", "named"},
             Subscribe(c, kind)
      PROVE  CommitStatusTypeOK'
  <2>1. Shown(kind) \in Version
    BY DEF Shown, CommitStatusTypeOK, Version
  <2>2. told' \in [Callback -> Version]
    BY <1>2, <2>1 DEF Subscribe, CommitStatusTypeOK
  <2>3. cached' \in Entries /\ (~cached'.in => cached'.check = 0)
    <3>1. [cached EXCEPT !.fresh = FALSE] \in Entries
      BY DEF CommitStatusTypeOK, Entries
    <3>2. [cached EXCEPT !.fresh = FALSE].in = cached.in
      BY DEF CommitStatusTypeOK
    <3>3. [cached EXCEPT !.fresh = FALSE].check = cached.check
      BY DEF CommitStatusTypeOK
    <3>4. cached \in Entries /\ (~cached.in => cached.check = 0)
      BY DEF CommitStatusTypeOK, Entries
    <3>5. \/ cached' = cached
          \/ cached' = [cached EXCEPT !.fresh = FALSE]
      BY <1>2 DEF Subscribe
    <3> QED BY <3>1, <3>2, <3>3, <3>4, <3>5
  <2> QED BY <1>2, <2>2, <2>3
          DEF Subscribe, CommitStatusTypeOK, outside, Entries
<1>3. ASSUME NEW c \in Callback, Unsubscribe(c) PROVE CommitStatusTypeOK'
  <2>1. fetch' \in [Slot -> Fetches]
    <3>1. \A i \in Slot : [fetch[i] EXCEPT !.own = FALSE] \in Fetches
      BY DEF CommitStatusTypeOK, Fetches
    <3> QED BY <1>3, <3>1 DEF Unsubscribe, CommitStatusTypeOK, Fetches
  <2> QED BY <1>3, <2>1
          DEF Unsubscribe, CommitStatusTypeOK, outside, background, views,
              Fetches
<1>4. ASSUME RefreshEligible PROVE CommitStatusTypeOK'
  <2>1. fetch' \in [Slot -> Fetches]
    <3>1. Fetch("limited", 0, FALSE, FALSE) \in Fetches
      BY FetchType, Versions
    <3> QED BY <1>4, <3>1 DEF RefreshEligible, CommitStatusTypeOK, Fetches
  <2> QED BY <1>4, <2>1
          DEF RefreshEligible, CommitStatusTypeOK, outside, views, map, Fetches
<1>5. CASE StartBackground \/ StopBackground \/ Tick
  BY <1>5 DEF StartBackground, StopBackground, Tick, CommitStatusTypeOK,
              outside, views, map
<1>6. ASSUME NEW i \in Slot, BeginFetch(i) PROVE CommitStatusTypeOK'
  <2>1. Fetch("fetching", version, subscription = "named", TRUE) \in Fetches
    <3>1. version \in Version /\ (subscription = "named") \in BOOLEAN
      BY Versions DEF CommitStatusTypeOK
    <3> QED BY <3>1, FetchType
  <2>2. fetch' \in [Slot -> Fetches]
    BY <1>6, <2>1, EndsTypes DEF BeginFetch, CommitStatusTypeOK, Fetches
  <2> QED BY <1>6, <2>2
          DEF BeginFetch, CommitStatusTypeOK, outside, background, views, map,
              Fetches
<1>7. ASSUME NEW i \in Slot, Answered(i) PROVE CommitStatusTypeOK'
  <2>1. PICK v \in fetch[i].v .. version :
          \/ \E actions \in BOOLEAN : Deliver(i, v, actions)
          \/ /\ fetch' = [fetch EXCEPT ![i].at = "actions", ![i].v = v]
             /\ UNCHANGED views
    BY <1>7 DEF Answered
  <2>2. v \in Version
    BY DEF CommitStatusTypeOK, Version
  <2>3. CASE \E actions \in BOOLEAN : Deliver(i, v, actions)
    BY <1>7, <2>2, <2>3, DeliverTypes
       DEF Answered, CommitStatusTypeOK, outside, background, map, Fetches,
           Entries
  <2>4. CASE /\ fetch' = [fetch EXCEPT ![i].at = "actions", ![i].v = v]
             /\ UNCHANGED views
    BY <1>7, <2>2, <2>4
       DEF Answered, CommitStatusTypeOK, outside, background, map, views
  <2> QED BY <2>1, <2>3, <2>4
<1>8. ASSUME NEW i \in Slot, NoAnswer(i) PROVE CommitStatusTypeOK'
  <2>1. fetch' \in [Slot -> Fetches] BY <1>8, EndsTypes DEF NoAnswer
  <2> QED BY <1>8, <2>1
          DEF NoAnswer, CommitStatusTypeOK, Entry, outside, background, map,
              Fetches
<1>9. ASSUME NEW i \in Slot, ActionsAnswered(i) PROVE CommitStatusTypeOK'
  <2>1. PICK actions \in BOOLEAN : Deliver(i, fetch[i].v, actions)
    BY <1>9 DEF ActionsAnswered, CommitStatusTypeOK
  <2>2. fetch[i].v \in Version BY DEF CommitStatusTypeOK
  <2> QED BY <1>9, <2>1, <2>2, DeliverTypes
          DEF ActionsAnswered, CommitStatusTypeOK, outside, background, map,
              Fetches, Entries
<1>10. ASSUME NEW i \in Slot, Rejects(i) PROVE CommitStatusTypeOK'
  <2>1. fetch' \in [Slot -> Fetches] BY <1>10, EndsTypes DEF Rejects
  <2> QED BY <1>10, <2>1
          DEF Rejects, CommitStatusTypeOK, outside, background, map, views,
              Fetches
<1>11. CASE Rerequest \/ ChecksChange \/ AccountChanges
  <2>1. version' \in 1 .. MaxVersion
    BY <1>11 DEF Rerequest, ChecksChange, AccountChanges, CommitStatusTypeOK
  <2> QED BY <1>11, <2>1
          DEF Rerequest, ChecksChange, AccountChanges, CommitStatusTypeOK,
              background, views, map
<1>12. CASE ManualRefresh
  <2>1. /\ cached' \in Entries /\ (~cached'.in => cached'.check = 0)
        /\ told' \in [Callback -> Version]
    BY <1>12 DEF ManualRefresh, CommitStatusTypeOK, views, Entries
  <2> QED BY <1>12, <2>1
          DEF ManualRefresh, CommitStatusTypeOK, background, map, Entries
<1>13. CASE Age \/ Evict
  <2>1. NoEntry \in Entries /\ NoEntry.check = 0
    BY Versions DEF NoEntry, Entries
  <2>2. cached' \in Entries /\ (~cached'.in => cached'.check = 0)
    BY <1>13, <2>1 DEF Age, Evict, CommitStatusTypeOK, Entries
  <2> QED BY <1>13, <2>2
          DEF Age, Evict, CommitStatusTypeOK, outside, background, map,
              Entries
<1> QED
  BY <1>1, <1>2, <1>3, <1>4, <1>5, <1>6, <1>7, <1>8, <1>9, <1>10, <1>11,
     <1>12, <1>13
  DEF CommitStatusNext, FetchNext

\* The store keeps its types, and an entry exists for a subscription exactly
\* while it has callbacks.
THEOREM StatusTypesCorrect ==
  ASSUME CommitStatusConstants
  PROVE  CommitStatusSpec => []CommitStatusTypeOK
<1>1. CommitStatusTypeOK /\ [CommitStatusNext]_csVars => CommitStatusTypeOK'
  BY StepStatusTypes
<1> QED BY <1>1, InitStatusTypes, PTL DEF CommitStatusSpec

-----------------------------------------------------------------------------
(* No view is told of checks older than those it shows.  That follows step  *)
(* by step from what a refresh is about to tell: one refresh is under way   *)
(* at most, and what it carries is as new as whatever was told, or kept for *)
(* a view still to come, since it began.                                    *)

Alone ==
  \A i, j \in Slot : fetch[i].at # "idle" /\ fetch[j].at # "idle" => i = j

\* Everything shown or kept is at most v.
UpTo(v) == cached.check =< v /\ \A c \in callbacks : told[c] =< v

Ordered ==
  /\ UpTo(version)
  /\ cached.check # 0 => UpTo(cached.check)
  /\ \A i \in Slot : fetch[i].at \in {"fetching", "actions"}
                       => fetch[i].v =< version /\ UpTo(fetch[i].v)

LEMMA InitOrdered ==
  ASSUME CommitStatusConstants, CommitStatusInit
  PROVE  Alone /\ Ordered
BY DEF CommitStatusInit, Alone, Ordered, UpTo, Idle, Fetch, NoEntry

LEMMA StepAlone ==
  ASSUME CommitStatusTypeOK, Alone, [CommitStatusNext]_csVars
  PROVE  Alone'
<1>1. ASSUME \A i \in Slot : fetch'[i].at # "idle" => fetch[i].at # "idle"
      PROVE  Alone'
  BY <1>1 DEF Alone
<1>2. ASSUME NEW i \in Slot, Ends(i) PROVE Alone'
  BY <1>1, <1>2 DEF Ends, Idle, Fetch, CommitStatusTypeOK
<1>3. CASE RefreshEligible
  <2>1. CASE Eligible
    <3>1. \A j \in Slot : fetch[j].at = "idle" BY <2>1 DEF Eligible, Working
    <3>2. PICK i \in Slot :
            fetch' = [fetch EXCEPT ![i] = Fetch("limited", 0, FALSE, FALSE)]
      BY <1>3, <2>1 DEF RefreshEligible
    <3> QED BY <3>1, <3>2 DEF Alone, CommitStatusTypeOK
  <2>2. CASE ~Eligible BY <1>1, <1>3, <2>2 DEF RefreshEligible
  <2> QED BY <2>1, <2>2
<1>4. ASSUME NEW i \in Slot, FetchNext(i) PROVE Alone'
  <2>1. CASE BeginFetch(i)
    BY <1>1, <1>2, <2>1 DEF BeginFetch, CommitStatusTypeOK
  <2>2. CASE Answered(i)
    BY <1>1, <1>2, <2>2 DEF Answered, Deliver, CommitStatusTypeOK
  <2>3. CASE NoAnswer(i) \/ ActionsAnswered(i) \/ Rejects(i)
    BY <1>2, <2>3 DEF NoAnswer, ActionsAnswered, Deliver, Rejects
  <2> QED BY <1>4, <2>1, <2>2, <2>3 DEF FetchNext
<1>5. ASSUME NEW c \in Callback, Unsubscribe(c) PROVE Alone'
  BY <1>1, <1>5 DEF Unsubscribe, CommitStatusTypeOK
<1>6. CASE UNCHANGED fetch BY <1>1, <1>6
<1> QED
  BY <1>3, <1>4, <1>5, <1>6
  DEF CommitStatusNext, csVars, Subscribe, StartBackground, StopBackground,
      Tick, Rerequest, ManualRefresh, ChecksChange, AccountChanges, Age, Evict

\* What a refresh tells at its end, when it is the only one and as new as
\* anything told.
LEMMA DeliverOrdered ==
  ASSUME CommitStatusConstants, CommitStatusTypeOK, Alone, Ordered,
         NEW i \in Slot, fetch[i].at # "idle",
         NEW v \in Version, v =< version, UpTo(v),
         NEW actions \in BOOLEAN, Deliver(i, v, actions),
         UNCHANGED <<version, callbacks>>
  PROVE  Ordered' /\ \A c \in callbacks : told'[c] >= told[c]
<1>1. \A j \in Slot : fetch'[j].at = "idle"
  BY DEF Deliver, Ends, Idle, Fetch, Alone, CommitStatusTypeOK
<1>2. cached'.check = v BY DEF Deliver, Entry
<1>3. \A c \in callbacks : told'[c] \in {v, told[c]}
  BY DEF Deliver, CommitStatusTypeOK
<1>4. /\ version \in Nat /\ v \in Nat
      /\ \A c \in callbacks : told[c] \in Nat
  BY DEF CommitStatusTypeOK, Version, CommitStatusConstants
<1>5. \A c \in callbacks : told[c] =< v BY DEF UpTo
<1>6. \A c \in callbacks : told'[c] =< v /\ told'[c] >= told[c]
  BY <1>3, <1>4, <1>5
<1>7. UpTo(v)' BY <1>2, <1>4, <1>6 DEF UpTo
<1>8. UpTo(version)'
  BY <1>2, <1>3, <1>4, <1>6 DEF UpTo
<1> QED BY <1>1, <1>2, <1>6, <1>7, <1>8 DEF Ordered, UpTo

LEMMA StepOrdered ==
  ASSUME CommitStatusConstants, CommitStatusTypeOK, Alone, Ordered,
         [CommitStatusNext]_csVars
  PROVE  /\ Ordered'
         /\ \A c \in callbacks \cap callbacks' : told'[c] >= told[c]
<1> DEFINE Newer == \A c \in callbacks \cap callbacks' : told'[c] >= told[c]
<1> USE DEF CommitStatusConstants
<1>1. /\ version \in Nat /\ cached.check \in Nat
      /\ \A c \in Callback : told[c] \in Nat
      /\ \A i \in Slot : fetch[i].v \in Nat
      /\ callbacks \subseteq Callback
  BY DEF CommitStatusTypeOK, Version
\* Nothing is told, and fewer listen.
<1>2. ASSUME callbacks' \subseteq callbacks, told' = told,
             version' >= version, version' \in Nat,
             cached'.check \in {cached.check, 0},
             \A i \in Slot : fetch'[i].at \in {"fetching", "actions"}
               => fetch[i].at = fetch'[i].at /\ fetch'[i].v = fetch[i].v
      PROVE  Ordered' /\ Newer
  <2>1. Newer BY <1>1, <1>2
  <2>2. ASSUME NEW v \in Nat, UpTo(v)
        PROVE  cached'.check =< v /\ \A c \in callbacks' : told'[c] =< v
    BY <1>1, <1>2, <2>2 DEF UpTo
  <2>3. cached'.check =< version' /\ \A c \in callbacks' : told'[c] =< version'
    <3>1. UpTo(version) BY DEF Ordered
    <3>2. \A c \in callbacks' : told'[c] = told[c] /\ told[c] =< version
      BY <1>2, <3>1 DEF UpTo
    <3>3. cached'.check =< version BY <1>1, <2>2, <3>1
    <3>4. \A c \in callbacks' : told[c] \in Nat BY <1>1, <1>2
    <3> QED BY <1>1, <1>2, <3>2, <3>3, <3>4
  <2>4. ASSUME cached'.check # 0
        PROVE  \A c \in callbacks' : told'[c] =< cached'.check
    <3>1. cached'.check = cached.check /\ UpTo(cached.check)
      BY <1>2, <2>4 DEF Ordered
    <3> QED BY <1>2, <3>1 DEF UpTo
  <2>5. ASSUME NEW i \in Slot, fetch'[i].at \in {"fetching", "actions"}
        PROVE  /\ fetch'[i].v =< version'
               /\ cached'.check =< fetch'[i].v
               /\ \A c \in callbacks' : told'[c] =< fetch'[i].v
    <3>1. /\ fetch[i].at \in {"fetching", "actions"}
          /\ fetch'[i].v = fetch[i].v
      BY <1>2, <2>5
    <3>2. fetch[i].v =< version /\ UpTo(fetch[i].v) BY <3>1 DEF Ordered
    <3> QED BY <1>1, <1>2, <2>2, <3>1, <3>2
  <2>6. cached'.check \in Nat /\ cached'.check =< cached'.check
    BY <1>1, <1>2
  <2> QED BY <2>1, <2>3, <2>4, <2>5, <2>6 DEF Ordered, UpTo
<1>3. ASSUME NEW c \in Callback, NEW kind \in {"plain", "named"},
             Subscribe(c, kind)
      PROVE  Ordered' /\ Newer
  <2>1. /\ callbacks' = callbacks \cup {c} /\ c \notin callbacks
        /\ \A d \in callbacks : told'[d] = told[d]
        /\ told'[c] \in {0, cached.check}
        /\ UNCHANGED <<version, fetch>> /\ cached'.check = cached.check
    BY <1>3 DEF Subscribe, Shown, outside, CommitStatusTypeOK
  <2>2. \A v \in Nat : UpTo(v) => cached'.check =< v
                                  /\ \A d \in callbacks' : told'[d] =< v
    BY <1>1, <2>1 DEF UpTo
  <2>3. Newer BY <1>1, <2>1
  <2> QED BY <1>1, <2>1, <2>2, <2>3 DEF Ordered, UpTo
<1>4. ASSUME NEW c \in Callback, Unsubscribe(c) PROVE Ordered' /\ Newer
  BY <1>1, <1>2, <1>4
     DEF Unsubscribe, outside, background, views, CommitStatusTypeOK
<1>5. CASE RefreshEligible
  <2>1. \A i \in Slot : fetch'[i].at \in {"fetching", "actions"}
               => fetch[i].at = fetch'[i].at /\ fetch'[i].v = fetch[i].v
    BY <1>5 DEF RefreshEligible, Fetch, CommitStatusTypeOK
  <2> QED BY <1>1, <1>2, <1>5, <2>1 DEF RefreshEligible, outside, views, map
<1>6. CASE UNCHANGED csVars \/ StartBackground \/ StopBackground \/ Tick
           \/ Rerequest \/ ChecksChange \/ AccountChanges
  <2>1. /\ version' \in {version, version + 1}
        /\ UNCHANGED <<callbacks, told, cached, fetch>>
    BY <1>6 DEF csVars, StartBackground, StopBackground, Tick, Rerequest,
         ChecksChange, AccountChanges, outside, background, views, map
  <2> QED BY <1>1, <1>2, <2>1
<1>7. CASE Age \/ Evict
  <2>1. cached'.check \in {cached.check, 0}
    BY <1>7 DEF Age, Evict, NoEntry, CommitStatusTypeOK
  <2> QED BY <1>1, <1>2, <1>7, <2>1 DEF Age, Evict, outside, background, map
<1>8. CASE ManualRefresh
  <2>1. CASE UNCHANGED views
    BY <1>1, <1>2, <1>8, <2>1
       DEF ManualRefresh, views, background, map
  <2>2. CASE ~UNCHANGED views
    <3>1. /\ cached.check # 0 /\ cached'.check = cached.check
          /\ \A c \in callbacks : told'[c] = cached.check
          /\ UNCHANGED <<version, callbacks, fetch>>
      BY <1>8, <2>2 DEF ManualRefresh, background, map, CommitStatusTypeOK
    <3>2. \A c \in callbacks : told[c] =< cached.check
      BY <3>1 DEF Ordered, UpTo
    <3>3. Newer BY <1>1, <3>1, <3>2
    <3> QED BY <1>1, <3>1, <3>3 DEF Ordered, UpTo
  <2> QED BY <2>1, <2>2
<1>9. ASSUME NEW i \in Slot, BeginFetch(i) PROVE Ordered' /\ Newer
  <2>1. CASE Ends(i)
    BY <1>1, <1>2, <1>9, <2>1
       DEF Ends, Idle, Fetch, BeginFetch, outside, views, map,
           CommitStatusTypeOK
  <2>2. CASE ~Ends(i)
    <3>1. /\ fetch' = [fetch EXCEPT ![i] = Fetch("fetching", version,
                                             subscription = "named", TRUE)]
          /\ UNCHANGED <<version, callbacks, cached, told>>
      BY <1>9, <2>2 DEF BeginFetch, outside, views, map
    <3>2. /\ fetch'[i].v = version
          /\ \A j \in Slot \ {i} : fetch'[j] = fetch[j]
      BY <3>1 DEF Fetch, CommitStatusTypeOK
    <3>3. Newer BY <1>1, <3>1
    <3>4. UpTo(version)' /\ (cached.check # 0 => UpTo(cached.check)')
      BY <3>1 DEF Ordered, UpTo
    <3>5. \A j \in Slot \ {i} : fetch'[j].at \in {"fetching", "actions"}
            => fetch'[j].v =< version' /\ UpTo(fetch[j].v)'
      BY <3>1, <3>2 DEF Ordered, UpTo
    <3>6. fetch'[i].v =< version' /\ UpTo(fetch[i].v)'
      <4>1. fetch'[i].v = version' BY <3>1, <3>2
      <4>2. version' =< version' BY <1>1, <3>1
      <4>3. UpTo(fetch[i].v)' BY <3>4, <4>1 DEF UpTo
      <4> QED BY <4>1, <4>2, <4>3
    <3> QED BY <3>1, <3>2, <3>3, <3>4, <3>5, <3>6 DEF Ordered, UpTo
  <2> QED BY <2>1, <2>2
<1>10. ASSUME NEW i \in Slot, Answered(i) PROVE Ordered' /\ Newer
  <2>1. PICK v \in fetch[i].v .. version :
          \/ \E actions \in BOOLEAN : Deliver(i, v, actions)
          \/ /\ fetch' = [fetch EXCEPT ![i].at = "actions", ![i].v = v]
             /\ UNCHANGED views
    BY <1>10 DEF Answered
  <2>2. /\ fetch[i].at = "fetching" /\ UNCHANGED <<version, callbacks>>
    BY <1>10 DEF Answered, outside, map
  <2>3. v \in Version /\ v =< version /\ UpTo(v)
    <3>1. UpTo(fetch[i].v) /\ fetch[i].v =< version BY <2>2 DEF Ordered
    <3>2. v \in Nat /\ v >= fetch[i].v /\ v =< version BY <1>1, <2>1
    <3>3. v \in Version BY <3>2 DEF Version, CommitStatusTypeOK
    <3> QED BY <1>1, <3>1, <3>2, <3>3 DEF UpTo
  <2>4. CASE \E actions \in BOOLEAN : Deliver(i, v, actions)
    BY <2>2, <2>3, <2>4, DeliverOrdered
  <2>5. CASE /\ fetch' = [fetch EXCEPT ![i].at = "actions", ![i].v = v]
             /\ UNCHANGED views
    <3>1. /\ fetch'[i].v = v /\ \A j \in Slot \ {i} : fetch'[j] = fetch[j]
          /\ UNCHANGED <<cached, told>>
      BY <2>5 DEF views, CommitStatusTypeOK
    <3>2. Newer BY <1>1, <2>2, <3>1
    <3> QED BY <2>2, <2>3, <3>1, <3>2 DEF Ordered, UpTo
  <2> QED BY <2>1, <2>4, <2>5
<1>11. ASSUME NEW i \in Slot, ActionsAnswered(i) PROVE Ordered' /\ Newer
  <2>1. PICK actions \in BOOLEAN : Deliver(i, fetch[i].v, actions)
    BY <1>11 DEF ActionsAnswered, CommitStatusTypeOK
  <2>2. /\ fetch[i].at = "actions" /\ UNCHANGED <<version, callbacks>>
    BY <1>11 DEF ActionsAnswered, outside, map
  <2>3. /\ fetch[i].v \in Version /\ fetch[i].v =< version
        /\ UpTo(fetch[i].v)
    BY <2>2 DEF Ordered, CommitStatusTypeOK
  <2> QED BY <2>1, <2>2, <2>3, DeliverOrdered
<1>12. ASSUME NEW i \in Slot, NoAnswer(i) \/ Rejects(i)
       PROVE  Ordered' /\ Newer
  <2>1. /\ Ends(i) /\ cached'.check = cached.check
        /\ UNCHANGED <<version, callbacks, told>>
    BY <1>12 DEF NoAnswer, Rejects, Entry, outside, map, views
  <2> QED BY <1>1, <1>2, <2>1 DEF Ends, Idle, Fetch, CommitStatusTypeOK
<1> QED
  BY <1>3, <1>4, <1>5, <1>6, <1>7, <1>8, <1>9, <1>10, <1>11, <1>12
  DEF CommitStatusNext, FetchNext

\* However many views come and go, and refreshes overlap with them, none is
\* shown older checks than it showed.
THEOREM NeverGoesBack ==
  ASSUME CommitStatusConstants
  PROVE  CommitStatusSpec => NeverOlder
<1> DEFINE IInv == CommitStatusTypeOK /\ Alone /\ Ordered
<1>1. CommitStatusInit => IInv BY InitStatusTypes, InitOrdered
<1>2. IInv /\ [CommitStatusNext]_csVars => IInv'
  BY StepStatusTypes, StepAlone, StepOrdered
<1>3. IInv /\ [CommitStatusNext]_csVars
        => [\A c \in callbacks \cap callbacks' : told'[c] >= told[c]]_csVars
  BY StepOrdered
<1> QED BY <1>1, <1>2, <1>3, PTL DEF CommitStatusSpec, NeverOlder

-----------------------------------------------------------------------------
(* PullRequests: types, and the invariants of incremental fetching.         *)

LEMMA EmptyType == Empty \in List /\ \A p \in PR : Empty[p] = NoRow
BY DEF Empty, List

LEMMA InitPullTypes == Init => TypeOK
<1> SUFFICES ASSUME Init PROVE TypeOK
  OBVIOUS
<1>1. /\ remote \in List /\ table \in List /\ list \in List /\ before \in List
      /\ \A p \in PR : table[p] = NoRow
  BY EmptyType DEF Init
<1>2. clock \in 1 .. MaxClock /\ revs \in 0 .. MaxRevs
  BY ConstantsOK DEF Init
<1>3. lastUpdated \in 0 .. MaxClock
  BY ConstantsOK DEF Init
<1>4. pc \in [Reader -> {"idle", "read"}] /\ got \in [Reader -> List]
  BY EmptyType DEF Init
<1> QED
  BY <1>1, <1>2, <1>3, <1>4 DEF Init, TypeOK

\* What GitHub answers has the shape of a listing.
LEMMA ListingTypes ==
  ASSUME TypeOK, NEW S, Listing(S) PROVE TypeOK'
BY DEF TypeOK, Listing, github, db, readers, List

LEMMA FinishPullTypes == ASSUME TypeOK, Finish PROVE TypeOK'
BY EmptyType DEF TypeOK, Finish, github, db, readers

LEMMA StoredType ==
  ASSUME TypeOK, NEW p \in PR
  PROVE  /\ Stored(p) \in Row \cup {NoRow}
         /\ Stored(p) # NoRow => Stored(p).state = "open"
BY DEF TypeOK, Stored, List

LEMMA LatestType ==
  ASSUME NEW l \in List, NEW t \in Latest(l)
  PROVE  /\ t \in 1 .. MaxClock
         /\ \E p \in Listed(l) : t = l[p].at
         /\ \A p \in Listed(l) : l[p].at <= t
BY DEF Latest, List, Listed, Row

\* Each action keeps the variables in their types.
LEMMA PullTypesStep == ASSUME TypeOK, [Next]_vars PROVE TypeOK'
<1> USE ConstantsOK
<1>1. ASSUME NEW p \in PR, NEW s \in State, Modify(p, s) PROVE TypeOK'
  <2>1. [state |-> s, at |-> clock, rev |-> revs + 1] \in Row
    BY <1>1 DEF TypeOK, Modify, Row
  <2> QED
    BY <1>1, <2>1 DEF TypeOK, Modify, db, readers, List
<1>2. CASE PassSecond
  BY <1>2 DEF TypeOK, PassSecond, db, readers
<1>3. CASE Refresh
  BY <1>3 DEF TypeOK, Refresh, github, db, readers
<1>4. CASE FetchOpen
  BY <1>4, ListingTypes, FinishPullTypes DEF FetchOpen
<1>5. CASE FetchUpdated
  BY <1>5, ListingTypes DEF FetchUpdated
<1>6. CASE FetchUpdatedFails
  BY <1>6, FinishPullTypes DEF FetchUpdatedFails
<1>7. CASE DropAll
  BY <1>7, EmptyType DEF TypeOK, DropAll, github, readers, Empty
<1>8. CASE StoreRows
  <2>1. /\ table' \in List
        /\ \A p \in PR : table'[p] # NoRow => table'[p].state = "open"
    BY <1>8, StoredType DEF StoreRows, List
  <2>2. lastUpdated' \in 0 .. MaxClock
    BY <1>8, LatestType DEF TypeOK, StoreRows
  <2> QED
    BY <1>8, <2>1, <2>2 DEF TypeOK, StoreRows, github, readers
<1>9. CASE StoreNothing
  BY <1>9, FinishPullTypes DEF StoreNothing
<1>10. CASE EmitList
  BY <1>10, EmptyType DEF TypeOK, EmitList, github, db, readers
<1>11. ASSUME NEW r \in Reader, ReadTable(r) PROVE TypeOK'
  BY <1>11 DEF TypeOK, ReadTable, github, db
<1>12. ASSUME NEW r \in Reader, SetCache(r) PROVE TypeOK'
  BY <1>12, EmptyType DEF TypeOK, SetCache, github, db
<1>13. CASE UNCHANGED vars
  BY <1>13 DEF TypeOK, vars, github, db, readers
<1> QED
  BY <1>1, <1>2, <1>3, <1>4, <1>5, <1>6, <1>7, <1>8, <1>9, <1>10, <1>11,
     <1>12, <1>13 DEF Next, RefreshStep

\* The variables keep their types, and the table holds open pull requests only.
THEOREM PullRequestTypesCorrect == Spec => []TypeOK
BY InitPullTypes, PullTypesStep, PTL DEF Spec

-----------------------------------------------------------------------------
(* An empty table goes with a missing date: the table is written only      *)
(* together with a date, and the date cleared only together with it.       *)

LEMMA NextNoDate ==
  ASSUME TypeOK, NoDateNoRows, [Next]_vars PROVE NoDateNoRows'
<1>1. CASE UNCHANGED db
  BY <1>1 DEF NoDateNoRows, db
<1>2. CASE DropAll
  BY <1>2 DEF DropAll, NoDateNoRows
<1>3. CASE StoreRows
  BY <1>3, LatestType DEF TypeOK, StoreRows, NoDateNoRows
<1> QED
  BY <1>1, <1>2, <1>3
  DEF Next, RefreshStep, Modify, PassSecond, Refresh, FetchOpen, FetchUpdated,
      FetchUpdatedFails, Listing, Finish, StoreNothing, EmitList, ReadTable,
      SetCache, vars

\* Whatever fails, a first fetch is made with an empty table only.
THEOREM FirstFetchIsFirst == Spec => []NoDateNoRows
<1>1. Init => NoDateNoRows
  BY DEF Init, NoDateNoRows
<1> QED
  BY <1>1, InitPullTypes, PullTypesStep, NextNoDate, PTL DEF Spec

-----------------------------------------------------------------------------
(* The promise of incremental fetching, when GitHub answers every request  *)
(* and no page ends between two pull requests of one second.               *)

\* What a stored listing relies on: a pull request is listed as GitHub still
\* has it, or was left out because the table has it right, or has changed
\* since, hence no earlier than anything listed.
ListingIsSound ==
  at = "store" =>
    \A p \in PR : remote[p] # NoRow =>
      \/ list[p] = remote[p]
      \/ list[p] = NoRow /\ table[p] = Wanted(p)
      \/ \A q \in Listed(list) : list[q].at <= remote[p].at

\* No listing is of the future, and all of what is stored is known on GitHub.
NothingAhead ==
  /\ \A p \in Listed(list) : list[p].at <= clock
  /\ \A p \in PR : remote[p] = NoRow => table[p] = NoRow /\ list[p] = NoRow
  /\ at = "open" => lastUpdated = 0
  /\ at \in {"idle", "open", "updated"} => list = Empty
  /\ lastUpdated <= clock
  /\ \A p \in PR : remote[p] # NoRow => remote[p].at <= clock

Synced == SyncedBefore /\ ListingIsSound /\ NothingAhead /\ NoDateNoRows

LEMMA InitSynced == Init => Synced
BY EmptyType, ConstantsOK
DEF Init, Synced, SyncedBefore, ListingIsSound, NothingAhead, NoDateNoRows,
    Listed

\* A change on GitHub is stamped with the clock.
LEMMA ModifySynced ==
  ASSUME TypeOK, Synced, NEW p \in PR, NEW s \in State, Modify(p, s)
  PROVE  Synced'
<1>1. /\ remote'[p] # NoRow /\ remote'[p].at = clock
      /\ \A q \in PR \ {p} : remote'[q] = remote[q]
      /\ UNCHANGED <<clock, table, lastUpdated, at, list>>
  <2>1. [state |-> s, at |-> clock, rev |-> revs + 1] \in Row
    BY ConstantsOK DEF TypeOK, Modify, Row
  <2> QED
    BY <2>1, NoRowIsNoRow DEF TypeOK, List, Modify, db
<1>2. clock \in Nat /\ lastUpdated \in Nat
  BY DEF TypeOK
<1>3. SyncedBefore'
  BY <1>1, <1>2 DEF Synced, SyncedBefore, NothingAhead, Wanted
<1>4. ListingIsSound'
  BY <1>1 DEF Synced, ListingIsSound, NothingAhead, Wanted, Listed
<1>5. NothingAhead' /\ NoDateNoRows'
  BY <1>1, <1>2 DEF Synced, NothingAhead, NoDateNoRows, Listed
<1> QED
  BY <1>3, <1>4, <1>5 DEF Synced

\* The end of an operation changes nothing that the promise is about.
LEMMA FinishSynced ==
  ASSUME Synced, Finish PROVE Synced'
BY EmptyType
DEF Finish, github, db, Synced, SyncedBefore, ListingIsSound, NothingAhead,
    NoDateNoRows, Wanted, Listed

\* A listing that leaves out only what the table has right is sound.
LEMMA ListingSynced ==
  ASSUME TypeOK, Synced, NEW S, Listing(S),
         \A p \in S : remote[p] # NoRow,
         \A p \in PR \ S : remote[p] # NoRow => table[p] = Wanted(p)
  PROVE  Synced'
<1>1. \A p \in PR : list'[p] = IF p \in S THEN remote[p] ELSE NoRow
  BY DEF Listing
<1>2. UNCHANGED <<remote, clock, table, lastUpdated>> /\ at' = "store"
  BY DEF Listing, github, db
<1>3. ListingIsSound'
  BY <1>1, <1>2 DEF ListingIsSound, Wanted
<1>4. NothingAhead'
  BY <1>1, <1>2 DEF Synced, NothingAhead, Listed
<1> QED
  BY <1>2, <1>3, <1>4 DEF Synced, SyncedBefore, NoDateNoRows, Wanted

\* Storing a sound listing moves the date to the latest listed: what is older
\* was listed as it is, or was right already.
LEMMA StoreSynced ==
  ASSUME TypeOK, Synced, StoreRows PROVE Synced'
<1>1. /\ UNCHANGED <<remote, clock, list>> /\ at = "store" /\ at' = "emit"
      /\ \A p \in PR : table'[p] = Stored(p)
  BY DEF StoreRows, github
<1>2. /\ lastUpdated' \in 1 .. MaxClock
      /\ \E q \in Listed(list) : lastUpdated' = list[q].at
  BY LatestType DEF TypeOK, StoreRows
<1>3. SyncedBefore'
  <2> SUFFICES ASSUME NEW p \in PR, remote[p] # NoRow,
                      remote[p].at < lastUpdated'
               PROVE  table'[p] = Wanted(p)
    BY <1>1 DEF SyncedBefore, Wanted
  <2>1. remote[p].at \in Nat
    BY DEF TypeOK, List, Row
  <2>2. \/ list[p] = remote[p]
        \/ list[p] = NoRow /\ table[p] = Wanted(p)
    BY <1>1, <1>2, <2>1 DEF Synced, ListingIsSound
  <2> QED
    BY <1>1, <2>2 DEF Stored, Wanted
<1>4. ListingIsSound'
  BY <1>1 DEF ListingIsSound
<1>5. NothingAhead'
  BY <1>1, <1>2 DEF Synced, NothingAhead, Listed, Stored
<1>6. NoDateNoRows'
  BY <1>2 DEF NoDateNoRows
<1> QED
  BY <1>3, <1>4, <1>5, <1>6 DEF Synced

LEMMA NextSynced ==
  ASSUME ~GitHubFails, ~TiesSplit, TypeOK, Synced, [Next]_vars PROVE Synced'
<1>1. ASSUME NEW p \in PR, NEW s \in State, Modify(p, s) PROVE Synced'
  BY <1>1, ModifySynced
<1>2. CASE PassSecond
  <2>1. clock \in Nat /\ lastUpdated \in Nat /\ clock' = clock + 1
    BY <1>2 DEF TypeOK, PassSecond
  <2>2. UNCHANGED <<remote, table, lastUpdated, at, list>>
    BY <1>2 DEF PassSecond, db
  <2>3. \A p \in PR : /\ remote[p] # NoRow => remote[p].at \in Nat
                      /\ list[p] # NoRow => list[p].at \in Nat
    BY DEF TypeOK, List, Row
  <2>4. NothingAhead'
    BY <2>1, <2>2, <2>3 DEF Synced, NothingAhead, Listed
  <2> QED
    BY <2>2, <2>4 DEF Synced, SyncedBefore, ListingIsSound, NoDateNoRows,
       Wanted, Listed
<1>3. CASE Refresh
  BY <1>3 DEF Refresh, github, db, Synced, SyncedBefore, ListingIsSound,
     NothingAhead, NoDateNoRows, Wanted, Listed
<1>4. CASE FetchOpen
  <2>1. Listing({p \in Listed(remote) : remote[p].state # "closed"})
    BY <1>4 DEF FetchOpen
  <2>2. \A p \in PR : table[p] = NoRow
    BY <1>4, EmptyType DEF FetchOpen, Synced, NothingAhead, NoDateNoRows
  <2> QED
    BY <2>1, <2>2, ListingSynced DEF Listed, Wanted
<1>5. CASE FetchUpdated
  <2> DEFINE All == {p \in Listed(remote) : remote[p].at > lastUpdated}
                      \cup {p \in Listed(remote) : remote[p].at = lastUpdated}
  <2>1. Listing(All)
    BY <1>5 DEF FetchUpdated, Since
  <2>2. \A p \in PR \ All : remote[p] # NoRow => remote[p].at < lastUpdated
    <3>1. lastUpdated \in Nat
      BY DEF TypeOK
    <3>2. \A p \in PR : remote[p] # NoRow => remote[p].at \in Nat
      BY DEF TypeOK, List, Row
    <3> QED
      BY <3>1, <3>2 DEF Listed
  <2>3. \A p \in PR \ All : remote[p] # NoRow => table[p] = Wanted(p)
    BY <2>2 DEF Synced, SyncedBefore
  <2>4. \A p \in All : remote[p] # NoRow
    BY DEF Listed
  <2> HIDE DEF All
  <2> QED
    BY <2>1, <2>3, <2>4, ListingSynced
<1>6. CASE FetchUpdatedFails
  BY <1>6 DEF FetchUpdatedFails
<1>7. CASE DropAll
  <2>1. /\ UNCHANGED <<remote, clock, list>> /\ at = "updated" /\ at' = "open"
        /\ lastUpdated' = 0 /\ table' = Empty
    BY <1>7 DEF DropAll, github
  <2>2. SyncedBefore'
    BY <2>1 DEF TypeOK, List, Row, SyncedBefore
  <2>3. NothingAhead'
    BY <2>1, EmptyType DEF TypeOK, Synced, NothingAhead, Listed
  <2> QED
    BY <2>1, <2>2, <2>3 DEF Synced, ListingIsSound, NoDateNoRows
<1>8. CASE StoreRows
  BY <1>8, StoreSynced
<1>9. CASE StoreNothing
  BY <1>9, FinishSynced DEF StoreNothing
<1>10. CASE EmitList
  BY <1>10, EmptyType DEF EmitList, github, db, Synced, SyncedBefore,
     ListingIsSound, NothingAhead, NoDateNoRows, Wanted, Listed
<1>11. CASE \/ \E r \in Reader : ReadTable(r) \/ SetCache(r)
            \/ UNCHANGED vars
  <2>1. UNCHANGED <<github, db, at, list>>
    BY <1>11 DEF ReadTable, SetCache, vars
  <2> QED
    BY <2>1 DEF github, db, Synced, SyncedBefore, ListingIsSound,
       NothingAhead, NoDateNoRows, Wanted, Listed
<1> QED
  BY <1>1, <1>2, <1>3, <1>4, <1>5, <1>6, <1>7, <1>8, <1>9, <1>10, <1>11
  DEF Next, RefreshStep

\* When GitHub answers, and pages do not end between equal dates, fetching
\* only what was updated since the stored date loses no change, for any pull
\* requests, any changes made meanwhile, and any restart from scratch.
THEOREM NothingIsMissed ==
  ASSUME ~GitHubFails, ~TiesSplit PROVE Spec => []SyncedBefore
<1>1. Init => TypeOK /\ Synced
  BY InitPullTypes, InitSynced
<1>2. TypeOK /\ Synced /\ [Next]_vars => (TypeOK /\ Synced)'
  BY PullTypesStep, NextSynced
<1>3. Synced => SyncedBefore
  BY DEF Synced
<1> QED
  BY <1>1, <1>2, <1>3, PTL DEF Spec
=============================================================================
