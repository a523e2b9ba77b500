----------------------------- MODULE AliveStore -----------------------------
(***************************************************************************)
(* The subscriptions to Alive channels, over which GitHub tells of reviews *)
(* and failed checks: stores/alive-store.ts, and the list of accounts of   *)
(* stores/accounts-store.ts that it follows.                               *)
(*                                                                         *)
(* Whenever accounts change, and whenever notifications are switched on or *)
(* off, the store waits for the subscriptions under way and then brings    *)
(* its own in line.  Several that wait for one and the same go on together.*)
(***************************************************************************)
EXTENDS Naturals, Sequences, FiniteSets, SequencesExt

CONSTANTS AliveEndpoint,    \* the endpoints that have Alive
          UserId,           \* the ids of accounts there
          MaxAliveSessions, \* bound: sessions made
          MaxRuns,          \* bound: runs of _subscribeToAccounts at a time
          MaxWaiting        \* bound: suspended calls

Account == [endpoint : AliveEndpoint, id : UserId]
AliveConstants ==
  MaxAliveSessions \in Nat /\ MaxWaiting \in Nat /\ MaxRuns \in Nat \ {0}

VARIABLES
  signedIn,   \* of the accounts store: one of an endpoint at most
  listRead,     \* whether they have been read from the keychain
  refreshing, \* whether refresh is under way, and the list it began with
  enabled,
  promise,    \* accountSubscriptionPromise: a run, or 0 when there is none
  jobs,       \* the runs of _subscribeToAccounts
  waiting,    \* the suspended calls, in the order they were made
  session,    \* sessionPerEndpoint: a session or 0
  opened,     \* how many sessions there were
  online,     \* those that are not offline
  subs,       \* subscriptions, in their order
  refused,    \* history: accounts whose latest subscription failed
  together    \* history: two runs, or a run and an unsubscription, overlapped

avVars == <<signedIn, listRead, refreshing, enabled, promise, jobs, waiting,
            session, opened, online, subs, refused, together>>

Job == 1 .. MaxRuns
NoAccount == [endpoint |-> "none", id |-> "none"]
Idling == [at |-> "over", account |-> NoAccount, session |-> 0, todo |-> {}]
Busy == \E j \in Job : jobs[j] # Idling

\* what: a call of subscribeToAllAccounts ("all"), subscribeToAccounts
\* ("subscribe") or unsubscribeFromAllAccounts ("leave"); on: the run that it
\* waits for.
Waiter(what, list, on) == [what |-> what, list |-> list, on |-> on]
MayGoOn(w) == IF w.what = "all" THEN listRead ELSE w.on = 0
\* Calls whose promise is resolved go on before anything else does.
AtRest == \A i \in DOMAIN waiting : ~MayGoOn(waiting[i])
GoesOnNow(i) ==
  MayGoOn(waiting[i]) /\ \A j \in 1 .. i - 1 : ~MayGoOn(waiting[j])

\* An endpoint has one account at most: a new one takes the place of the old.
OneEach(list) == \A a, b \in list : a.endpoint = b.endpoint => a = b

AliveInit ==
  /\ signedIn \in {list \in SUBSET Account : OneEach(list)}
  /\ listRead = FALSE
  /\ refreshing = [at |-> "not begun", list |-> {}]
  /\ enabled \in BOOLEAN /\ promise = 0 /\ jobs = [j \in Job |-> Idling]
  /\ waiting = IF enabled THEN <<Waiter("all", {}, 0)>> ELSE <<>>
  /\ session = [e \in AliveEndpoint |-> 0] /\ opened = 0 /\ online = {}
  /\ subs = <<>> /\ refused = {} /\ together = FALSE

-----------------------------------------------------------------------------
(* The accounts, and the setting.                                          *)

\* subscribeToAccounts up to its await, n times over.
Emit(list, n) ==
  LET calls == [i \in 1 .. n |-> Waiter("subscribe", list, promise)] IN
    waiting' = IF enabled THEN waiting \o calls ELSE waiting
HasRoom(n) == AtRest /\ Len(waiting) + n <= MaxWaiting

subscriptions == <<promise, jobs, session, opened, online, subs, refused,
                   together>>

\* The update is told of before the promise of loadFromStore is resolved,
\* ahead of the calls that wait for it.
LoadFromStore ==
  /\ HasRoom(1) /\ ~listRead /\ listRead' = TRUE
  /\ waiting' = IF enabled /\ signedIn # {}
                THEN <<Waiter("subscribe", signedIn, promise)>> \o waiting
                ELSE waiting
  /\ UNCHANGED <<signedIn, refreshing, enabled, subscriptions>>

SignsIn(a) ==
  /\ HasRoom(1) /\ listRead
  /\ signedIn' = {x \in signedIn : x.endpoint # a.endpoint} \cup {a}
  /\ Emit(signedIn', 1)
  /\ UNCHANGED <<listRead, refreshing, enabled, subscriptions>>

SignsOut(a) ==
  /\ HasRoom(1) /\ listRead /\ a \in signedIn
  /\ signedIn' = signedIn \ {a} /\ Emit(signedIn', 1)
  /\ UNCHANGED <<listRead, refreshing, enabled, subscriptions>>

\* refresh, of all accounts as they were; it saves them and tells of them,
\* which is telling of them twice.
BeginRefreshing ==
  /\ AtRest /\ listRead /\ refreshing.at = "not begun"
  /\ refreshing' = [at |-> "under way", list |-> signedIn]
  /\ UNCHANGED <<signedIn, listRead, enabled, waiting, subscriptions>>
EndRefreshing ==
  /\ HasRoom(2) /\ refreshing.at = "under way"
  /\ signedIn' = refreshing.list /\ Emit(signedIn', 2)
  /\ refreshing' = [at |-> "over", list |-> {}]
  /\ UNCHANGED <<listRead, enabled, subscriptions>>

SetEnabled ==
  /\ HasRoom(1) /\ enabled' = ~enabled
  /\ waiting' = Append(waiting, IF enabled THEN Waiter("leave", {}, promise)
                                ELSE Waiter("all", {}, 0))
  /\ UNCHANGED <<signedIn, listRead, refreshing, subscriptions>>

-----------------------------------------------------------------------------
(* The subscriptions.                                                      *)

Subscribed == {s.account : s \in Range(subs)}

\* Of the accounts that are to go, those that do: the first of its endpoint
\* takes the session with it, and the others are left for want of one.
Leaving(out) ==
  {a \in out : /\ session[a.endpoint] # 0
               /\ \E i \in DOMAIN subs :
                    /\ subs[i].account = a
                    /\ \A j \in 1 .. i - 1 :
                         subs[j].account.endpoint = a.endpoint
                           => subs[j].account \notin out \ {a}}

\* SelectSeq(subs, LAMBDA s : s.account \notin gone), in a form that can be
\* reasoned about.
Staying(gone) ==
  LET places == {i \in DOMAIN subs : subs[i].account \notin gone}
      Nth(n) == CHOOSE i \in places :
                    Cardinality({k \in places : k <= i}) = n
  IN [n \in 1 .. Cardinality(places) |-> subs[Nth(n)]]

\* Mutant: the session is taken offline and kept.
MutantUnsubscribe(out) ==
  LET gone == Leaving(out) IN
    /\ subs' = Staying(gone)
    /\ online' = online \ {session[a.endpoint] : a \in gone}
    /\ session' = session
\* unsubscribeFromAccount, of one after the other.
Unsubscribe(out) ==
  LET gone == Leaving(out) IN
    /\ subs' = Staying(gone)
    /\ online' = online \ {session[a.endpoint] : a \in gone}
    /\ session' = [e \in AliveEndpoint |->
                     IF \E a \in gone : a.endpoint = e THEN 0 ELSE session[e]]

\* The next account of a run, up to its first await; or the run is over, and
\* whoever waits for it goes on.
Proceed(j, begins, todo, queue) ==
  \/ /\ todo = {} /\ jobs' = [jobs EXCEPT ![j] = Idling]
     /\ promise' = IF begins \/ promise = j THEN 0 ELSE promise
     /\ waiting' = [i \in DOMAIN queue |->
                      [queue[i] EXCEPT !.on = IF @ = j THEN 0 ELSE @]]
  \/ \E a \in todo :
       /\ jobs' = [jobs EXCEPT ![j] =
                     [at |-> IF session'[a.endpoint] = 0 THEN "socket"
                             ELSE "channel",
                      account |-> a, session |-> session'[a.endpoint],
                      todo |-> todo \ {a}]]
       /\ promise' = (IF begins THEN j ELSE promise) /\ waiting' = queue

\* _subscribeToAccounts up to its first await.
SubscribeToAccounts(i, j) ==
  /\ GoesOnNow(i) /\ waiting[i].what = "subscribe"
  /\ jobs[j] = Idling /\ \A k \in 1 .. j - 1 : jobs[k] # Idling
  /\ Unsubscribe(Subscribed \ waiting[i].list)
  /\ Proceed(j, TRUE, waiting[i].list \ Subscribed, RemoveAt(waiting, i))
  /\ together' = (together \/ Busy)
  /\ UNCHANGED <<signedIn, listRead, refreshing, enabled, opened, refused>>

SubscribeToAll(i) ==
  /\ GoesOnNow(i) /\ waiting[i].what = "all"
  /\ LET call == Waiter("subscribe", signedIn, promise) IN
       waiting' = RemoveAt(waiting, i) \o (IF enabled THEN <<call>> ELSE <<>>)
  /\ UNCHANGED <<signedIn, listRead, refreshing, enabled, subscriptions>>

UnsubscribeFromAll(i) ==
  /\ GoesOnNow(i) /\ waiting[i].what = "leave"
  /\ Unsubscribe(Subscribed) /\ waiting' = RemoveAt(waiting, i)
  /\ together' = (together \/ Busy)
  /\ UNCHANGED <<signedIn, listRead, refreshing, enabled, promise, jobs,
                 opened, refused>>

\* createSessionForAccount: GitHub names a socket, or not.
Socket(j) ==
  /\ AtRest /\ jobs[j].at = "socket"
  /\ \/ /\ opened < MaxAliveSessions /\ opened' = opened + 1
        /\ online' = online \cup {opened'}
        /\ session' = [session EXCEPT ![jobs[j].account.endpoint] = opened']
        /\ jobs' = [jobs EXCEPT ![j].at = "channel", ![j].session = opened']
     \/ /\ jobs' = [jobs EXCEPT ![j].at = "channel"]
        /\ UNCHANGED <<opened, online, session>>
  /\ UNCHANGED <<signedIn, listRead, refreshing, enabled, promise, waiting,
                 subs, refused, together>>

\* subscribeToAccount from there: GitHub names a channel, or not.
Channel(j) ==
  /\ AtRest /\ jobs[j].at = "channel"
  /\ \/ /\ jobs[j].session # 0
        /\ subs' = Append(subs, [account |-> jobs[j].account,
                                 session |-> jobs[j].session])
        /\ refused' = refused \ {jobs[j].account}
     \/ subs' = subs /\ refused' = refused \cup {jobs[j].account}
  /\ session' = session /\ Proceed(j, FALSE, jobs[j].todo, waiting)
  /\ UNCHANGED <<signedIn, listRead, refreshing, enabled, opened, online,
                 together>>

AliveNext ==
  \/ LoadFromStore \/ BeginRefreshing \/ EndRefreshing \/ SetEnabled
  \/ \E a \in Account : SignsIn(a) \/ SignsOut(a)
  \/ \E i \in DOMAIN waiting :
       \/ \E j \in Job : SubscribeToAccounts(i, j)
       \/ SubscribeToAll(i) \/ UnsubscribeFromAll(i)
  \/ \E j \in Job : Socket(j) \/ Channel(j)

AliveSpec == AliveInit /\ [][AliveNext]_avVars

-----------------------------------------------------------------------------
AliveRun == [at : {"over", "socket", "channel"},
             account : Account \cup {NoAccount}, session : Nat,
             todo : SUBSET Account]
AliveCall == [what : {"all", "subscribe", "leave"}, list : SUBSET Account,
              on : Job \cup {0}]
Subscription == [account : Account, session : Nat]

\* The types of the accounts store's list and of the store of subscriptions:
\* a run that is not over has an account, sessions are numbered as they were
\* made, and lists told to calls have one account of an endpoint at most.
AliveTypeOK ==
  /\ signedIn \subseteq Account /\ OneEach(signedIn)
  /\ listRead \in BOOLEAN /\ enabled \in BOOLEAN /\ together \in BOOLEAN
  /\ refreshing \in [at : {"not begun", "under way", "over"},
                     list : SUBSET Account]
  /\ OneEach(refreshing.list)
  /\ promise \in Job \cup {0} /\ jobs \in [Job -> AliveRun]
  /\ \A j \in Job : jobs[j] # Idling => /\ jobs[j].at # "over"
                                        /\ jobs[j].account \in Account
  /\ waiting \in Seq(AliveCall)
  /\ \A i \in DOMAIN waiting : OneEach(waiting[i].list)
  /\ opened \in Nat /\ opened <= MaxAliveSessions
  /\ online \subseteq 1 .. opened /\ session \in [AliveEndpoint -> 0 .. opened]
  /\ subs \in Seq(Subscription) /\ refused \subseteq Account

\* However the list and the setting change while subscriptions are under way,
\* and whatever GitHub refuses, once all is quiet exactly the accounts of the
\* list are subscribed, or none when notifications are off, once each, and over
\* the session of their endpoint, which is online; so far as no two runs
\* overlapped.
SubscribedAsListed ==
  ~Busy /\ waiting = <<>> /\ listRead /\ ~together =>
    LET wanted == IF enabled THEN signedIn ELSE {} IN
      /\ Subscribed \subseteq wanted /\ wanted \ refused \subseteq Subscribed
      /\ \A i, k \in DOMAIN subs : subs[i].account = subs[k].account => i = k
      /\ \A s \in Range(subs) : /\ s.session \in online
                                /\ session[s.account.endpoint] = s.session

\* "we can wait until the previous (un)subscriptions finish": no account is
\* subscribed, or unsubscribed, while an earlier run is under way.
WaitsForPrevious == ~together

\* "When disabled, it will immediately unsubscribe from all Alive channels":
\* when all is quiet and notifications are off, nothing is subscribed.
OffIsSilent == ~Busy /\ waiting = <<>> /\ ~enabled => subs = <<>>
=============================================================================
