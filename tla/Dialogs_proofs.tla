--------------------------- MODULE Dialogs_proofs ---------------------------
(* Theorems about SignIn, for any endpoints and any number of callers, of    *)
(* suspended calls and of attempts of the browser; about Stashing, for any   *)
(* branches, entries and operations at a time; and about AliveStore, for any *)
(* endpoints and accounts, and any number of sessions, runs and calls.       *)
EXTENDS SignIn, Stashing, AliveStore, SequenceTheorems, FiniteSetTheorems,
        WellFoundedInduction, TLAPS

-----------------------------------------------------------------------------
(* Signing in.                                                             *)

Answers == Endpoint \cup {"new", "waiting", "cancelled"}

LEMMA TellType ==
  ASSUME SignInTypeOK, NEW what \in Answers
  PROVE  Tell(what) \in [Session -> Answers]
BY DEF SignInTypeOK, Tell, Answers

LEMMA OfferedType ==
  ASSUME SignInConstants, NEW s \in Session, NEW e \in Endpoint
  PROVE  Offered(s, e) \in Stages /\ Whole(Offered(s, e))
BY DEF SignInConstants, Offered, Stage, Stages, Whole, StepKind

LEMMA IdleType ==
  ASSUME SignInConstants
  PROVE  /\ NoState \in Stages /\ Whole(NoState) /\ NoState.kind = "none"
         /\ Idle.at = "idle" /\ Idle.from = NoState
         /\ Idle = [at |-> "idle", from |-> NoState]
BY DEF SignInConstants, Idle, NoState, Stage, Stages, Whole, StepKind, Nobody

LEMMA InitTypes ==
  ASSUME SignInConstants, SignInInit PROVE SignInTypeOK
<1>1. task \in [Task -> [at : {"idle", "remove", "confirm", "withdraw",
                              "exchange", "user", "token"}, from : Stages]]
  BY IdleType DEF SignInInit
<1>2. \A t \in Task : task[t] = Idle BY DEF SignInInit
<1>3. \A t \in Task : /\ Whole(task[t].from) /\ task[t].at = "idle"
  BY <1>2, IdleType
<1>4. answer \in [Session -> Endpoint \cup {"new", "waiting", "cancelled"}]
  BY DEF SignInInit
<1>5. state \in Stages /\ Whole(state) /\ tokens \in 0 .. MaxTokens
  BY IdleType DEF SignInConstants, SignInInit
<1> QED BY <1>1, <1>3, <1>4, <1>5 DEF SignInInit, SignInTypeOK

LEMMA StepTypes ==
  ASSUME SignInConstants, SignInTypeOK, [SignInNext]_siVars
  PROVE  SignInTypeOK'
<1> USE DEF SignInTypeOK
<1>1. CASE Reset
  <2>1. Tell("cancelled") \in [Session -> Answers] BY TellType DEF Answers
  <2> QED BY <1>1, <2>1 DEF Reset, Answers, NoState, Stage, Stages, Whole,
                            StepKind,
                            Nobody, SignInConstants
<1>2. ASSUME NEW s \in Session, NEW e \in {DotCom, Nowhere}, Begin(s, e)
      PROVE  SignInTypeOK'
  <2>1. Tell("cancelled") \in [Session -> Answers] BY TellType DEF Answers
  <2>2. answer' \in [Session -> Answers] BY <1>2, <2>1 DEF Begin, Answers
  <2>3. DotCom \in Endpoint BY DEF SignInConstants
  <2>4. state' \in Stages /\ Whole(state')
    BY <1>2, <2>3, OfferedType
       DEF Begin, Stage, Stages, Whole, StepKind, SignInConstants
  <2> QED BY <1>2, <2>2, <2>4 DEF Begin, Answers
<1>3. ASSUME NEW e \in Endpoint, SetsEndpoint(e),
             state.kind \in {"endpoint", "existing"}
      PROVE  /\ state' \in Stages /\ Whole(state')
             /\ answer' \in [Session -> Answers] /\ astray' \in BOOLEAN
  <2>1. Tell("cancelled") \in [Session -> Answers] BY TellType DEF Answers
  <2>2. state.session \in Session BY <1>3 DEF Whole
  <2> QED BY <1>3, <2>1, <2>2, OfferedType DEF SetsEndpoint, Answers
<1>4. ASSUME NEW e \in Endpoint, EnterEndpoint(e) PROVE SignInTypeOK'
  BY <1>3, <1>4 DEF EnterEndpoint, Answers
<1>5. ASSUME NEW from \in Stages, Opens(from), from.session \in Session,
             from.endpoint \in Endpoint
      PROVE  /\ state' \in Stages /\ Whole(state')
             /\ tokens' \in 0 .. MaxTokens
  BY <1>5 DEF Opens, Stage, Stages, Whole, StepKind, SignInConstants
<1>6. ASSUME NEW t \in Task, AuthenticateWithBrowser(t) PROVE SignInTypeOK'
  <2>1. /\ state.session \in Session /\ state.endpoint \in Endpoint
    BY <1>6 DEF AuthenticateWithBrowser, Whole
  <2>2. CASE Opens(state) /\ UNCHANGED task
    BY <1>5, <1>6, <2>1, <2>2 DEF AuthenticateWithBrowser
  <2>3. CASE /\ state.kind = "existing" /\ Suspend(t, "remove", state)
             /\ state' = [state EXCEPT !.loading = TRUE] /\ UNCHANGED tokens
    <3>1. state' \in Stages /\ Whole(state') BY <2>3 DEF Stages, Whole
    <3> QED BY <1>6, <2>1, <2>3, <3>1 DEF AuthenticateWithBrowser, Suspend
  <2> QED BY <1>6, <2>2, <2>3 DEF AuthenticateWithBrowser
<1>7. ASSUME NEW t \in Task
      PROVE  /\ Ended(t) \in [Task -> [at : {"idle", "remove", "confirm",
                               "withdraw", "exchange", "user", "token"},
                               from : Stages]]
             /\ \A u \in Task : Ended(t)[u] \in {task[u], Idle}
  BY IdleType DEF Ended
<1>8. Whole(Idle.from) /\ Idle.at = "idle" BY IdleType
<1>9. ASSUME NEW t \in Task, RemovedForBrowser(t) PROVE SignInTypeOK'
  <2>1. /\ task[t].from \in Stages /\ task[t].from.session \in Session
        /\ task[t].from.endpoint \in Endpoint
    BY <1>9 DEF RemovedForBrowser, Whole
  <2>2. state' \in Stages /\ Whole(state') /\ tokens' \in 0 .. MaxTokens
    BY <1>5, <1>9, <2>1 DEF RemovedForBrowser
  <2>3. task' = Ended(t) /\ astray' \in BOOLEAN
    BY <1>9 DEF RemovedForBrowser, Strays
  <2>4. ASSUME NEW u \in Task
        PROVE  /\ Whole(task'[u].from)
               /\ task'[u].at = "remove" => task'[u].from.kind = "existing"
               /\ task'[u].at = "token"
                    => task'[u].from.kind = "authentication"
               /\ task'[u].at # "idle" => task'[u].from.endpoint \in Endpoint
    <3>1. task'[u] \in {task[u], Idle} BY <1>7, <2>3
    <3> QED BY <1>8, <3>1
  <2>5. task' \in [Task -> [at : {"idle", "remove", "confirm", "withdraw",
                                 "exchange", "user", "token"}, from : Stages]]
    BY <1>7, <2>3
  <2>6. accounts' \subseteq Endpoint /\ UNCHANGED <<answer, adding, threw, back>>
    <3>1. accounts' \subseteq accounts BY <1>9 DEF RemovedForBrowser
    <3> QED BY <1>9, <3>1 DEF RemovedForBrowser
  <2> QED BY ONLY SignInTypeOK, <2>2, <2>3, <2>4, <2>5, <2>6 DEF SignInTypeOK
<1>10. ASSUME NEW e \in Endpoint, NEW token \in 0 .. MaxTokens
       PROVE  /\ Only(e, token) \in Stages /\ Whole(Only(e, token))
              /\ Only(e, token).endpoint = e
  BY <1>10 DEF Only, Stage, Stages, Whole, StepKind, Nobody
<1>11. ASSUME NEW t \in Task, ConfirmExisting(t) PROVE SignInTypeOK'
  <2>1. state.endpoint \in Endpoint BY <1>11 DEF ConfirmExisting, Whole
  <2>2. 0 \in 0 .. MaxTokens BY DEF SignInConstants
  <2> QED BY <1>10, <1>11, <2>1, <2>2 DEF ConfirmExisting, Suspend
<1>12. ASSUME NEW t \in Task, RemovedForDialog(t) PROVE SignInTypeOK'
  BY <1>12 DEF RemovedForDialog, GoesOn
<1>13. ASSUME NEW t \in Task, Withdrawn(t) PROVE SignInTypeOK'
  <2>1. task[t].from.endpoint \in Endpoint BY <1>13 DEF Withdrawn
  <2>2. /\ state' \in Stages /\ Whole(state')
        /\ answer' \in [Session -> Answers] /\ astray' \in BOOLEAN
    BY <1>3, <1>13, <2>1 DEF Withdrawn, Answers
  <2> QED BY <1>7, <1>8, <1>13, <2>2 DEF Withdrawn, Answers
<1>14. ASSUME NEW t \in Task, ComeBack(t) PROVE SignInTypeOK'
  <2>1. state.endpoint \in Endpoint /\ state.token \in 1 .. MaxTokens
    BY <1>14 DEF ComeBack, Whole, Stages, SignInConstants
  <2>2. state.token \in 0 .. MaxTokens BY DEF Stages
  <2> QED BY <1>10, <1>14, <2>1, <2>2 DEF ComeBack, Suspend
<1>15. ASSUME NEW t \in Task, Exchanged(t) PROVE SignInTypeOK'
  BY <1>15 DEF Exchanged, GoesOn
<1>16. ASSUME NEW t \in Task, ExchangeFails(t) PROVE SignInTypeOK'
  <2>1. state' \in Stages /\ Whole(state')
    BY <1>16 DEF ExchangeFails, Stages, Whole
  <2> QED BY <1>7, <1>8, <1>16, <2>1 DEF ExchangeFails
<1>17. ASSUME NEW e \in Endpoint, Authenticated(e)
       PROVE  answer' \in [Session -> Answers] /\ adding' \subseteq Endpoint
  BY <1>17, TellType DEF Authenticated, Answers
<1>18. ASSUME NEW from \in Stages, Succeeds(from)
       PROVE  state' \in Stages /\ Whole(state')
  BY <1>18 DEF Succeeds, Stage, Stages, Whole, StepKind, SignInConstants
<1>19. ASSUME NEW t \in Task, UserFetched(t) PROVE SignInTypeOK'
  <2>1. task[t].from.endpoint \in Endpoint BY <1>19 DEF UserFetched
  <2>2. /\ answer' \in [Session -> Answers] /\ adding' \subseteq Endpoint
        /\ state' \in Stages /\ Whole(state')
    BY <1>17, <1>18, <1>19, <2>1 DEF UserFetched, Answers
  <2> QED BY <1>7, <1>8, <1>19, <2>2 DEF UserFetched, Answers
<1>20. ASSUME NEW t \in Task, UserFails(t) PROVE SignInTypeOK'
  BY <1>7, <1>8, <1>20 DEF UserFails
<1>21. ASSUME NEW t \in Task, AuthenticateWithToken(t) PROVE SignInTypeOK'
  <2>1. state' \in Stages /\ Whole(state')
    BY <1>21 DEF AuthenticateWithToken, Stages, Whole
  <2>2. state.endpoint \in Endpoint BY <1>21 DEF AuthenticateWithToken, Whole
  <2> QED BY <1>21, <2>1, <2>2 DEF AuthenticateWithToken, Suspend
<1>22. ASSUME NEW t \in Task, TokenAnswered(t) PROVE SignInTypeOK'
  <2>1. task[t].from.endpoint \in Endpoint /\ task[t].from \in Stages
    BY <1>22 DEF TokenAnswered
  <2>2. /\ answer' \in [Session -> Answers] /\ adding' \subseteq Endpoint
        /\ state' \in Stages /\ Whole(state') /\ astray' \in BOOLEAN
    BY <1>17, <1>18, <1>22, <2>1 DEF TokenAnswered, Strays
  <2> QED BY <1>7, <1>8, <1>22, <2>2 DEF TokenAnswered, Answers
<1>23. ASSUME NEW t \in Task, TokenRejected(t) PROVE SignInTypeOK'
  <2>1. state' \in Stages /\ Whole(state') /\ astray' \in BOOLEAN
    BY <1>23 DEF TokenRejected, Strays
  <2> QED BY <1>7, <1>8, <1>23, <2>1 DEF TokenRejected
<1>24. ASSUME NEW e \in Endpoint, AddAccount(e) PROVE SignInTypeOK'
  BY <1>24 DEF AddAccount
<1>25. ASSUME NEW e \in Endpoint, RemoveAccount(e) PROVE SignInTypeOK'
  BY <1>25 DEF RemoveAccount
<1>26. CASE UNCHANGED siVars
  BY <1>26 DEF siVars
<1> QED BY <1>1, <1>2, <1>4, <1>6, <1>9, <1>11, <1>12, <1>13, <1>14, <1>15,
           <1>16, <1>19, <1>20, <1>21, <1>22, <1>23, <1>24, <1>25, <1>26
        DEF SignInNext, Exchange, Asked

\* A sign-in that is on belongs to a caller, and every suspended call kept a
\* step of the kind that it goes on from.
THEOREM SignInTypesCorrect ==
  ASSUME SignInConstants
  PROVE  SignInSpec => []SignInTypeOK
BY InitTypes, StepTypes, PTL DEF SignInSpec

-----------------------------------------------------------------------------
(* Who waits is on the screen, whatever is suspended.  A call that writes a *)
(* step it kept either finds the state as it left it, and with it the same  *)
(* session, or goes astray.                                                 *)

Waiting == {s \in Session : answer[s] = "waiting"}

LEMMA Telling ==
  ASSUME SignInConstants, SignInTypeOK, NEW what \in Answers \ {"waiting"}
  PROVE  \A s \in Session : Tell(what)[s] = "waiting" <=>
           s \in Waiting /\ s # state.session
BY DEF SignInTypeOK, Tell, Waiting

LEMMA StepOneWaiter ==
  ASSUME SignInConstants, SignInTypeOK, OneWaiter, [SignInNext]_siVars
  PROVE  OneWaiter'
<1> SUFFICES ASSUME ~astray' PROVE OneWaiter' BY DEF OneWaiter
<1>a. Endpoint \cap {"new", "waiting", "cancelled"} = {} BY DEF SignInConstants
<1>b. /\ "cancelled" \in Answers \ {"waiting"}
      /\ Endpoint \subseteq Answers \ {"waiting"}
  BY <1>a DEF Answers
<1>c. ~astray => Waiting = IF On THEN {state.session} ELSE {}
  BY DEF OneWaiter, Waiting
<1>d. On => state.session \in Session BY DEF On, SignInTypeOK, Whole
<1>e. OneWaiter' <=> Waiting' = IF On' THEN {state.session'} ELSE {}
  BY DEF OneWaiter, Waiting
<1>f. ASSUME UNCHANGED answer, ~astray, On' <=> On,
             On => state'.session = state.session
      PROVE  OneWaiter'
  BY <1>c, <1>e, <1>f DEF Waiting
<1>g. ASSUME ~astray, ~On', On,
             \A s \in Session : answer'[s] = "waiting" <=>
               s \in Waiting /\ s # state.session
      PROVE  OneWaiter'
  BY <1>c, <1>e, <1>g DEF Waiting
<1>1. CASE Reset
  <2>1. ~astray /\ answer' = Tell("cancelled") /\ state' = NoState
    BY <1>1 DEF Reset
  <2>2. ~On' BY <2>1, IdleType DEF On
  <2>3. \A s \in Session : answer'[s] = "waiting" <=>
               s \in Waiting /\ s # state.session
    BY <1>b, <2>1, Telling
  <2>4. Waiting' = {} BY <1>c, <2>1, <2>3 DEF Waiting
  <2> QED BY <1>e, <2>2, <2>4
<1>2. ASSUME NEW s \in Session, NEW e \in {DotCom, Nowhere}, Begin(s, e)
      PROVE  OneWaiter'
  <2>1. /\ ~astray /\ answer' = [Tell("cancelled") EXCEPT ![s] = "waiting"]
        /\ Tell("cancelled") \in [Session -> Answers]
    BY <1>2, TellType DEF Begin, Answers
  <2>2. \A r \in Session : Tell("cancelled")[r] # "waiting"
    BY <1>b, <1>c, <2>1, Telling
  <2>3. Waiting' = {s} BY <2>1, <2>2 DEF Waiting
  <2>4. On' /\ state'.session = s
    BY <1>2 DEF Begin, On, Offered, Stage
  <2> QED BY <1>e, <2>3, <2>4
<1>3. ASSUME NEW e \in Endpoint, SetsEndpoint(e),
             state.kind \in {"endpoint", "existing"}
      PROVE  OneWaiter'
  <2>1. ~astray /\ UNCHANGED answer /\ state' = Offered(state.session, e)
    BY <1>3 DEF SetsEndpoint, SignInTypeOK
  <2>2. On /\ On' /\ state'.session = state.session
    BY <1>3, <2>1 DEF On, Offered, Stage
  <2> QED BY <1>f, <2>1, <2>2
<1>4. ASSUME NEW e \in Endpoint, EnterEndpoint(e) PROVE OneWaiter'
  BY <1>3, <1>4 DEF EnterEndpoint
<1>5. ASSUME NEW t \in Task, AuthenticateWithBrowser(t) PROVE OneWaiter'
  BY <1>f, <1>5 DEF AuthenticateWithBrowser, Opens, Stage, On, SignInTypeOK,
                    Stages
<1>6. ASSUME NEW t \in Task, RemovedForBrowser(t) PROVE OneWaiter'
  <2>1. ~astray /\ state = [task[t].from EXCEPT !.loading = TRUE]
    BY <1>6 DEF RemovedForBrowser, Strays
  <2>2. On /\ state.session = task[t].from.session
    BY <1>6, <2>1 DEF RemovedForBrowser, SignInTypeOK, Stages, On
  <2>3. On' /\ state'.session = task[t].from.session
    BY <1>6 DEF RemovedForBrowser, Opens, Stage, On
  <2>4. UNCHANGED answer BY <1>6 DEF RemovedForBrowser
  <2> QED BY <1>f, <2>1, <2>2, <2>3, <2>4
<1>7. ASSUME UNCHANGED <<state, answer, astray>> PROVE OneWaiter'
  BY <1>f, <1>7 DEF On
<1>8. ASSUME NEW t \in Task, Withdrawn(t) PROVE OneWaiter'
  <2>1. task[t].from.endpoint \in Endpoint BY <1>8 DEF Withdrawn, SignInTypeOK
  <2> QED BY <1>3, <1>7, <1>8, <2>1 DEF Withdrawn
<1>9. ASSUME NEW t \in Task, ExchangeFails(t) PROVE OneWaiter'
  BY <1>f, <1>9 DEF ExchangeFails, On, SignInTypeOK, Stages
<1>10. ASSUME NEW e \in Endpoint, Authenticated(e), ~astray, On,
              state'.kind = "success"
       PROVE  OneWaiter'
  <2>1. \A s \in Session : answer'[s] = "waiting" <=>
               s \in Waiting /\ s # state.session
    BY <1>b, <1>10, Telling DEF Authenticated
  <2>2. ~On' BY <1>10 DEF On
  <2> QED BY <1>g, <1>10, <2>1, <2>2
<1>11. ASSUME NEW t \in Task, UserFetched(t) PROVE OneWaiter'
  <2>1. task[t].from.endpoint \in Endpoint
    BY <1>11 DEF UserFetched, SignInTypeOK
  <2>2. CASE Open
    BY <1>10, <1>11, <2>1, <2>2 DEF UserFetched, Succeeds, Stage, Open, On
  <2>3. CASE ~Open BY <1>7, <1>11, <2>3 DEF UserFetched
  <2> QED BY <2>2, <2>3
<1>12. ASSUME NEW t \in Task, AuthenticateWithToken(t) PROVE OneWaiter'
  BY <1>f, <1>12 DEF AuthenticateWithToken, On, SignInTypeOK, Stages
<1>13. ASSUME NEW t \in Task, task[t].at = "token",
              Strays(t)
       PROVE  /\ ~astray /\ On /\ task[t].from.kind = "authentication"
              /\ state.session = task[t].from.session
  BY <1>13 DEF Strays, SignInTypeOK, Stages, On
<1>14. ASSUME NEW t \in Task, TokenAnswered(t) PROVE OneWaiter'
  <2>1. task[t].from.endpoint \in Endpoint
    BY <1>14 DEF TokenAnswered, SignInTypeOK
  <2> QED BY <1>10, <1>13, <1>14, <2>1 DEF TokenAnswered, Succeeds, Stage
<1>15. ASSUME NEW t \in Task, TokenRejected(t) PROVE OneWaiter'
  BY <1>f, <1>13, <1>15 DEF TokenRejected, On
<1> QED
  BY <1>1, <1>2, <1>4, <1>5, <1>6, <1>7, <1>8, <1>9, <1>11, <1>12, <1>14, <1>15
     DEF SignInNext, Exchange, Asked, ConfirmExisting, RemovedForDialog,
         ComeBack, Exchanged, UserFails, AddAccount, RemoveAccount, siVars

\* Whoever waits for a sign-in has it on the screen and is the only one who
\* waits, as long as no call wrote over a state it did not leave: cancelling
\* or ending a sign-in answers exactly its caller.
THEOREM OneCallerWaits ==
  ASSUME SignInConstants
  PROVE  SignInSpec => []OneWaiter
<1>1. SignInInit => OneWaiter
  <2> SUFFICES ASSUME SignInInit PROVE OneWaiter OBVIOUS
  <2>1. ~On BY IdleType DEF SignInInit, On
  <2>2. \A s \in Session : answer[s] # "waiting" BY DEF SignInInit
  <2> QED BY <2>1, <2>2 DEF OneWaiter
<1> QED BY <1>1, InitTypes, StepTypes, StepOneWaiter, PTL DEF SignInSpec

-----------------------------------------------------------------------------
(* No attempt of the browser hangs.  An attempt that is open is shown as     *)
(* loading, so that no token is asked for beside it, and what a call kept    *)
(* for when its token is rejected is no open attempt; and tokens are new.    *)

Closed(step) == step.token = 0 \/ step.settled

Attempts ==
  /\ state.token \in 0 .. tokens
  /\ state.kind = "authentication" /\ ~state.loading => Closed(state)
  /\ \A t \in Task : task[t].at = "token"
       => Closed(task[t].from) /\ task[t].from.token \in 0 .. tokens
  /\ back \subseteq 1 .. tokens

LEMMA StepAttempts ==
  ASSUME SignInConstants, SignInTypeOK, Attempts, [SignInNext]_siVars
  PROVE  Attempts'
<1> USE DEF Attempts
<1>a. 0 \in 0 .. tokens BY DEF SignInTypeOK
<1>1. ASSUME NEW t \in Task
      PROVE  \A u \in Task : Ended(t)[u].at = "token"
               => Ended(t)[u] = task[u]
  BY <1>1, IdleType DEF Ended, SignInTypeOK
<1>2. CASE Reset
  BY <1>a, <1>2, IdleType DEF Reset, NoState, Stage
<1>3. ASSUME NEW s \in Session, NEW e \in {DotCom, Nowhere}, Begin(s, e)
      PROVE  Attempts'
  BY <1>a, <1>3 DEF Begin, Offered, Stage, Closed
<1>4. ASSUME NEW e \in Endpoint, SetsEndpoint(e)
      PROVE  /\ state'.kind = "authentication" => Closed(state')
             /\ state'.token = 0
  BY <1>4 DEF SetsEndpoint, Offered, Stage, Closed
<1>5. ASSUME NEW e \in Endpoint, EnterEndpoint(e) PROVE Attempts'
  BY <1>a, <1>4, <1>5 DEF EnterEndpoint, Closed
<1>6. ASSUME NEW from, Opens(from)
      PROVE  /\ state'.loading /\ back \subseteq 1 .. tokens'
             /\ state'.token \in 0 .. tokens'
             /\ 0 .. tokens \subseteq 0 .. tokens'
  BY <1>6 DEF Opens, Stage, SignInTypeOK
<1>7. ASSUME NEW t \in Task, AuthenticateWithBrowser(t) PROVE Attempts'
  <2>1. CASE Opens(state) /\ UNCHANGED task
    BY <1>6, <1>7, <2>1 DEF AuthenticateWithBrowser, Closed
  <2>2. CASE /\ Suspend(t, "remove", state)
             /\ state' = [state EXCEPT !.loading = TRUE] /\ UNCHANGED tokens
    <3>1. \A u \in Task : task'[u].at = "token" => task'[u] = task[u]
      BY <2>2 DEF Suspend, SignInTypeOK
    <3>2. state'.loading BY <2>2 DEF SignInTypeOK, Stages
    <3> QED BY <1>7, <2>2, <3>1, <3>2 DEF AuthenticateWithBrowser, Closed
  <2> QED BY <1>7, <2>1, <2>2 DEF AuthenticateWithBrowser
<1>8. ASSUME NEW t \in Task, RemovedForBrowser(t) PROVE Attempts'
  BY <1>1, <1>6, <1>8 DEF RemovedForBrowser, Closed
<1>9. ASSUME NEW t \in Task, ConfirmExisting(t) PROVE Attempts'
  BY <1>9 DEF ConfirmExisting, Suspend, SignInTypeOK, Closed
<1>10. ASSUME NEW t \in Task, GoesOn(t, "withdraw") \/ GoesOn(t, "user")
       PROVE  \A u \in Task : task'[u].at = "token" => task'[u] = task[u]
  BY <1>10 DEF GoesOn, SignInTypeOK
<1>11. ASSUME NEW t \in Task, RemovedForDialog(t) PROVE Attempts'
  BY <1>10, <1>11 DEF RemovedForDialog, Closed
<1>12. ASSUME NEW t \in Task, Withdrawn(t) PROVE Attempts'
  <2>1. task[t].from.endpoint \in Endpoint BY <1>12 DEF Withdrawn, SignInTypeOK
  <2> QED BY <1>a, <1>1, <1>4, <1>12, <2>1 DEF Withdrawn, Closed
<1>13. ASSUME NEW t \in Task, ComeBack(t) PROVE Attempts'
  <2>1. \A u \in Task : task'[u].at = "token" => task'[u] = task[u]
    BY <1>13 DEF ComeBack, Suspend, SignInTypeOK
  <2>2. state.token \in 1 .. tokens
    BY <1>13 DEF ComeBack
  <2> QED BY <1>13, <2>1, <2>2 DEF ComeBack, Closed
<1>14. ASSUME NEW t \in Task, Exchanged(t) PROVE Attempts'
  BY <1>10, <1>14 DEF Exchanged, Closed
<1>15. ASSUME NEW t \in Task, ExchangeFails(t) PROVE Attempts'
  <2>1. state'.kind = "authentication" /\ ~state'.loading => Closed(state')
    BY <1>15 DEF ExchangeFails, SignInTypeOK, Stages, Closed
  <2> QED BY <1>1, <1>15, <2>1 DEF ExchangeFails, Closed
<1>16. ASSUME NEW from, Succeeds(from) 
       PROVE  state'.kind = "success" /\ state'.token = 0
  BY <1>16 DEF Succeeds, Stage
<1>17. ASSUME NEW t \in Task, UserFetched(t) PROVE Attempts'
  BY <1>a, <1>1, <1>16, <1>17 DEF UserFetched, Closed
<1>18. ASSUME NEW t \in Task, UserFails(t) PROVE Attempts'
  BY <1>1, <1>18 DEF UserFails, Closed
<1>19. ASSUME NEW t \in Task, AuthenticateWithToken(t) PROVE Attempts'
  <2>1. state'.loading BY <1>19 DEF AuthenticateWithToken, SignInTypeOK, Stages
  <2>2. Closed(state) BY <1>19 DEF AuthenticateWithToken
  <2>3. task' = [task EXCEPT ![t] = [at |-> "token", from |-> state]]
    BY <1>19 DEF AuthenticateWithToken, Suspend
  <2>4. task'[t].from = state /\ \A u \in Task \ {t} : task'[u] = task[u]
    BY <2>3 DEF SignInTypeOK
  <2>5. state'.token = state.token
    BY <1>19 DEF AuthenticateWithToken, SignInTypeOK, Stages
  <2>6. \A u \in Task : task'[u].at = "token"
          => Closed(task'[u].from) /\ task'[u].from.token \in 0 .. tokens
    BY <2>2, <2>4
  <2> QED BY <1>19, <2>1, <2>5, <2>6 DEF AuthenticateWithToken, Closed
<1>20. ASSUME NEW t \in Task, TokenAnswered(t) PROVE Attempts'
  BY <1>a, <1>1, <1>16, <1>20 DEF TokenAnswered, Closed
<1>21. ASSUME NEW t \in Task, TokenRejected(t) PROVE Attempts'
  BY <1>1, <1>21 DEF TokenRejected, Closed
<1>22. ASSUME UNCHANGED <<state, task, tokens, back>> PROVE Attempts'
  BY <1>22 DEF Closed
<1> QED BY <1>2, <1>3, <1>5, <1>7, <1>8, <1>9, <1>11, <1>12, <1>13, <1>14,
           <1>15, <1>17, <1>18, <1>19, <1>20, <1>21, <1>22
        DEF SignInNext, Exchange, Asked, AddAccount, RemoveAccount, siVars

LEMMA StepNobodyHangs ==
  ASSUME SignInConstants, SignInTypeOK, Attempts, NobodyHangs,
         [SignInNext]_siVars
  PROVE  NobodyHangs'
<1> SUFFICES ASSUME ~threw', Open', state'.token \in back'
             PROVE  InFlight(state.token)'
  BY DEF NobodyHangs
<1>a. ~threw BY DEF SignInNext, Reset, Begin, EnterEndpoint, AddAccount,
        RemoveAccount, AuthenticateWithBrowser, RemovedForBrowser,
        ConfirmExisting, RemovedForDialog, Withdrawn, ComeBack, Exchange,
        Exchanged, ExchangeFails, UserFetched, UserFails,
        AuthenticateWithToken, Asked, TokenAnswered, TokenRejected, siVars
<1>b. Open /\ state.token \in back => InFlight(state.token)
  BY <1>a DEF NobodyHangs
<1>c. ASSUME NEW t \in Task, task' = [task EXCEPT ![t] = task'[t]],
             Open, state'.token = state.token, UNCHANGED back,
             task[t].at \notin {"exchange", "user"}
      PROVE  InFlight(state.token)'
  <2>1. PICK u \in Task : /\ task[u].at \in {"exchange", "user"}
                         /\ task[u].from.token = state.token
    BY <1>b, <1>c DEF InFlight
  <2>2. task'[u] = task[u] BY <1>c, <2>1 DEF SignInTypeOK
  <2> QED BY <1>c, <2>1, <2>2 DEF InFlight
<1>d. ASSUME Open, UNCHANGED <<task, back>>, state'.token = state.token
      PROVE  InFlight(state.token)'
  BY <1>b, <1>d DEF InFlight
<1>e. ASSUME NEW t \in Task PROVE Ended(t) = [task EXCEPT ![t] = Ended(t)[t]]
  BY <1>e DEF Ended, SignInTypeOK
<1>f. ASSUME NEW from, Opens(from), UNCHANGED back PROVE FALSE
  <2>1. state'.token = tokens + 1 BY <1>f DEF Opens, Stage
  <2> QED BY <1>f, <2>1 DEF Attempts, SignInTypeOK
<1>g. ASSUME NEW e \in Endpoint, NEW s \in Session, state' = Offered(s, e)
      PROVE  FALSE
  BY <1>g DEF Offered, Stage, Open
<1>h. ASSUME NEW from, Succeeds(from) PROVE FALSE
  BY <1>h DEF Succeeds, Stage, Open
<1>1. CASE Reset
  BY <1>1, IdleType DEF Reset, Open
<1>2. ASSUME NEW s \in Session, NEW e \in {DotCom, Nowhere}, Begin(s, e)
      PROVE  InFlight(state.token)'
  BY <1>2 DEF Begin, Offered, Stage, Open
<1>3. ASSUME NEW e \in Endpoint, SetsEndpoint(e) PROVE FALSE
  BY <1>3 DEF SetsEndpoint, Offered, Stage, Open
<1>4. ASSUME NEW t \in Task, AuthenticateWithBrowser(t)
      PROVE  InFlight(state.token)'
  <2>1. ~Opens(state) BY <1>f, <1>4 DEF AuthenticateWithBrowser
  <2>2. state' = [state EXCEPT !.loading = TRUE] /\ state.kind = "existing"
    BY <1>4, <2>1 DEF AuthenticateWithBrowser
  <2> QED BY <2>2 DEF Open, SignInTypeOK, Stages
<1>5. ASSUME NEW t \in Task, RemovedForBrowser(t) PROVE InFlight(state.token)'
  BY <1>f, <1>5 DEF RemovedForBrowser
<1>6. ASSUME NEW t \in Task, ConfirmExisting(t) PROVE InFlight(state.token)'
  BY <1>6 DEF ConfirmExisting, Open
<1>7. ASSUME NEW t \in Task, RemovedForDialog(t) PROVE InFlight(state.token)'
  <2>1. task' = [task EXCEPT ![t] = task'[t]]
    BY <1>7 DEF RemovedForDialog, GoesOn, SignInTypeOK
  <2> QED BY <1>7, <1>c, <2>1 DEF RemovedForDialog, Open
<1>8. ASSUME NEW t \in Task, Withdrawn(t) PROVE InFlight(state.token)'
  <2>1. task[t].from.endpoint \in Endpoint BY <1>8 DEF Withdrawn, SignInTypeOK
  <2>2. UNCHANGED state BY <1>3, <1>8, <2>1 DEF Withdrawn
  <2>3. task' = [task EXCEPT ![t] = task'[t]] BY <1>8, <1>e DEF Withdrawn
  <2> QED BY <1>8, <1>c, <2>2, <2>3 DEF Withdrawn, Open
<1>9. ASSUME NEW t \in Task, ComeBack(t) PROVE InFlight(state.token)'
  <2>1. task'[t] = [at |-> "exchange",
                    from |-> Only(state.endpoint, state.token)]
    BY <1>9 DEF ComeBack, Suspend, SignInTypeOK
  <2>2. Only(state.endpoint, state.token).token = state.token
    BY DEF Only, Stage
  <2> QED BY <1>9, <2>1, <2>2 DEF ComeBack, InFlight
<1>10. ASSUME NEW t \in Task, Exchanged(t) PROVE InFlight(state.token)'
  <2>1. PICK u \in Task : /\ task[u].at \in {"exchange", "user"}
                         /\ task[u].from.token = state.token
    BY <1>b, <1>10 DEF Exchanged, Open, InFlight
  <2>2. /\ task'[u].at \in {"exchange", "user"}
        /\ task'[u].from = task[u].from
    BY <1>10, <2>1 DEF Exchanged, GoesOn, SignInTypeOK
  <2> QED BY <1>10, <2>1, <2>2 DEF Exchanged, InFlight
<1>11. ASSUME NEW t \in Task, ExchangeFails(t) PROVE InFlight(state.token)'
  BY <1>11 DEF ExchangeFails, Open, SignInTypeOK, Stages
<1>12. ASSUME NEW t \in Task, UserFetched(t) PROVE InFlight(state.token)'
  BY <1>h, <1>12 DEF UserFetched, Open
<1>13. ASSUME NEW t \in Task, UserFails(t) PROVE InFlight(state.token)'
  BY <1>13 DEF UserFails
<1>14. ASSUME NEW t \in Task, AuthenticateWithToken(t)
       PROVE  InFlight(state.token)'
  <2>1. Closed(state) BY <1>14 DEF AuthenticateWithToken, Attempts
  <2> QED BY <1>14, <2>1
        DEF AuthenticateWithToken, Closed, Open, SignInTypeOK, Stages
<1>15. ASSUME NEW t \in Task, TokenAnswered(t) PROVE InFlight(state.token)'
  BY <1>h, <1>15 DEF TokenAnswered
<1>16. ASSUME NEW t \in Task, TokenRejected(t) PROVE InFlight(state.token)'
  <2>1. Closed(task[t].from) BY <1>16 DEF TokenRejected, Attempts
  <2> QED BY <1>16, <2>1 DEF TokenRejected, Closed, Open
<1>17. ASSUME UNCHANGED <<state, task, back>> PROVE InFlight(state.token)'
  BY <1>d, <1>17 DEF Open
<1> QED BY <1>1, <1>2, <1>3, <1>4, <1>5, <1>6, <1>7, <1>8, <1>9, <1>10, <1>11,
           <1>12, <1>13, <1>14, <1>15, <1>16, <1>17
        DEF SignInNext, EnterEndpoint, Exchange, Asked, AddAccount,
            RemoveAccount, siVars

\* Once the browser came back for an attempt, a request that may still end it
\* is under way for as long as it is open; unless the request for a user threw.
THEOREM NoAttemptHangs ==
  ASSUME SignInConstants
  PROVE  SignInSpec => []NobodyHangs
<1>1. SignInInit => Attempts /\ NobodyHangs
  <2> SUFFICES ASSUME SignInInit PROVE Attempts /\ NobodyHangs OBVIOUS
  <2>1. NoState.token = 0 BY DEF NoState, Stage
  <2> QED BY <2>1, IdleType DEF SignInInit, Attempts, NobodyHangs, Open
<1> QED BY <1>1, InitTypes, StepTypes, StepAttempts, StepNobodyHangs, PTL
        DEF SignInSpec

-----------------------------------------------------------------------------
(* Entries on the stack.                                                   *)

Named == Target \cup {Unmarked}
EntriesUpTo(n) == [id : 1 .. n, branch : Named]

\* A set of naturals has a least member.
LEMMA Least ==
  ASSUME NEW S, S \subseteq Nat, S # {}
  PROVE  \E x \in S : \A y \in S : x =< y
<1>1. PICK x \in S : \A y \in S : <<y, x>> \notin OpToRel(<, Nat)
  BY NatLessThanWellFounded, WFMin
<1>2. ASSUME NEW y \in S PROVE x =< y
  <2>1. x \in Nat /\ y \in Nat OBVIOUS
  <2>2. <<y, x>> \notin OpToRel(<, Nat) BY <1>1
  <2>3. ~ (y < x) BY <2>1, <2>2 DEF OpToRel
  <2> QED BY <2>1, <2>3
<1> QED BY <1>2

\* A search answers 0, or the place of what it looks for.
LEMMA PlaceFound ==
  ASSUME stack \in Seq(EntriesUpTo(made)), NEW id, Place(id) # 0
  PROVE  Place(id) \in 1 .. Len(stack) /\ stack[Place(id)].id = id
<1> DEFINE I == {i \in 1 .. Len(stack) : stack[i].id = id}
<1>1. Place(id) = IF I # {} THEN CHOOSE x \in I : \A y \in I : x =< y ELSE 0
  BY DEF Place, SelectInSeq, Min
<1>2. I \subseteq Nat /\ I # {} BY <1>1
<1>3. \E x \in I : \A y \in I : x =< y BY <1>2, Least
<1>4. (CHOOSE x \in I : \A y \in I : x =< y) \in I BY <1>3
<1> QED BY <1>1, <1>2, <1>4

LEMMA LatestFound ==
  ASSUME stack \in Seq(EntriesUpTo(made)), NEW b, LatestOf(b) # 0
  PROVE  /\ LatestOf(b) \in 1 .. Len(stack)
         /\ stack[LatestOf(b)].branch = b
<1> DEFINE I == {i \in 1 .. Len(stack) : stack[i].branch = b}
<1>1. LatestOf(b) = IF I # {} THEN CHOOSE x \in I : \A y \in I : x =< y
                    ELSE 0
  BY DEF LatestOf, SelectInSeq, Min
<1>2. I \subseteq Nat /\ I # {} BY <1>1
<1>3. \E x \in I : \A y \in I : x =< y BY <1>2, Least
<1>4. (CHOOSE x \in I : \A y \in I : x =< y) \in I BY <1>3
<1> QED BY <1>1, <1>2, <1>4

\* What the store reads of the latest entry of a branch.
LEMMA LatestId ==
  ASSUME made \in Nat, stack \in Seq(EntriesUpTo(made)), NEW b
  PROVE  /\ IdAt(LatestOf(b)) \in 0 .. made
         /\ IdAt(LatestOf(b)) # 0 =>
              \E e \in Range(stack) : /\ e.id = IdAt(LatestOf(b))
                                      /\ e.branch = b
<1>1. CASE LatestOf(b) = 0 BY <1>1 DEF IdAt
<1>2. CASE LatestOf(b) # 0
  <2>1. LatestOf(b) \in 1 .. Len(stack) /\ stack[LatestOf(b)].branch = b
    BY <1>2, LatestFound
  <2>2. /\ stack[LatestOf(b)] \in EntriesUpTo(made)
        /\ LatestOf(b) \in DOMAIN stack
    BY <2>1
  <2>3. stack[LatestOf(b)] \in Range(stack) BY <2>2 DEF Range
  <2> QED BY <1>2, <2>1, <2>2, <2>3 DEF IdAt, EntriesUpTo
<1> QED BY <1>1, <1>2

LEMMA MoreEntries ==
  ASSUME made \in Nat, stack \in Seq(EntriesUpTo(made))
  PROVE  stack \in Seq(EntriesUpTo(made + 1))
<1>1. EntriesUpTo(made) \subseteq EntriesUpTo(made + 1) BY DEF EntriesUpTo
<1> QED BY <1>1

\* git stash push puts one entry on the stack, with a new name.
LEMMA PushedEntry ==
  ASSUME made \in Nat, stack \in Seq(EntriesUpTo(made)),
         NEW b \in Named, Pushed(b)
  PROVE  /\ stack' \in Seq(EntriesUpTo(made'))
         /\ Range(stack') = Range(stack) \cup {[id |-> made', branch |-> b]}
<1> DEFINE e == [id |-> made', branch |-> b]
<1>1. made' = made + 1 /\ stack' = <<e>> \o stack BY DEF Pushed
<1>2. e \in EntriesUpTo(made') BY <1>1 DEF EntriesUpTo
<1>3. stack \in Seq(EntriesUpTo(made')) BY <1>1, MoreEntries
<1>4. <<e>> \in Seq(EntriesUpTo(made')) BY <1>2
<1>5. stack' \in Seq(EntriesUpTo(made')) BY <1>1, <1>3, <1>4
<1>6. /\ Len(stack') = 1 + Len(stack) /\ stack'[1] = e
      /\ \A i \in 1 .. Len(stack) : stack'[i + 1] = stack[i]
  BY <1>1, <1>3, <1>4
<1>7. DOMAIN stack = 1 .. Len(stack) /\ DOMAIN stack' = 1 .. Len(stack')
  BY <1>3, <1>5
<1>8. ASSUME NEW i \in DOMAIN stack' PROVE stack'[i] \in Range(stack) \cup {e}
  <2>1. CASE i = 1 BY <2>1, <1>6
  <2>2. CASE i # 1
    <3>1. i - 1 \in 1 .. Len(stack) /\ (i - 1) + 1 = i
      BY <2>2, <1>6, <1>7
    <3>2. stack'[i] = stack[i - 1] BY <3>1, <1>6
    <3> QED BY <3>1, <3>2, <1>7 DEF Range
  <2> QED BY <2>1, <2>2
<1>9. ASSUME NEW i \in DOMAIN stack PROVE stack[i] \in Range(stack')
  <2>1. i + 1 \in DOMAIN stack' /\ stack'[i + 1] = stack[i]
    BY <1>3, <1>5, <1>6, <1>7
  <2> QED BY <2>1 DEF Range
<1>10. e \in Range(stack')
  <2>1. 1 \in DOMAIN stack' BY <1>3, <1>6, <1>7
  <2> QED BY <2>1, <1>6 DEF Range
<1>11. Range(stack') \subseteq Range(stack) \cup {e} BY <1>8 DEF Range
<1>12. Range(stack) \subseteq Range(stack') BY <1>9 DEF Range
<1> QED BY <1>5, <1>10, <1>11, <1>12

\* git stash drop takes one entry away, and leaves the others.
LEMMA RemovedEntry ==
  ASSUME NEW S, stack \in Seq(S), NEW i \in DOMAIN stack,
         stack' = RemoveAt(stack, i)
  PROVE  /\ stack' \in Seq(S) /\ Range(stack') \subseteq Range(stack)
         /\ \A e \in Range(stack) : e \notin Range(stack') => e = stack[i]
<1> DEFINE before == SubSeq(stack, 1, i - 1)
           after == SubSeq(stack, i + 1, Len(stack))
<1>1. DOMAIN stack = 1 .. Len(stack) /\ Len(stack) \in Nat /\ i \in Nat
  OBVIOUS
<1>2. stack' = before \o after BY DEF RemoveAt
<1>3. /\ before \in Seq(S) /\ Len(before) = i - 1
      /\ \A j \in 1 .. (i - 1) : before[j] = stack[j]
  BY <1>1
<1>4. /\ after \in Seq(S) /\ Len(after) = Len(stack) - i
      /\ \A j \in 1 .. (Len(stack) - i) : after[j] = stack[i + j]
  BY <1>1
<1> HIDE DEF before, after
<1>5. /\ stack' \in Seq(S) /\ Len(stack') = Len(stack) - 1
      /\ DOMAIN stack' = 1 .. (Len(stack) - 1)
  <2>1. before \o after \in Seq(S) BY <1>3, <1>4
  <2>2. Len(before \o after) = Len(before) + Len(after)
    BY <1>3, <1>4, ConcatProperties
  <2>3. Len(stack') = Len(before) + Len(after) BY <2>2, <1>2
  <2>4. Len(before) + Len(after) = Len(stack) - 1 BY <1>1, <1>3, <1>4
  <2>5. stack' \in Seq(S) BY <2>1, <1>2
  <2> QED BY <2>3, <2>4, <2>5
<1>6. \A j \in 1 .. (i - 1) : stack'[j] = stack[j]
  BY <1>1, <1>2, <1>3, <1>4
<1>7. \A j \in i .. (Len(stack) - 1) : stack'[j] = stack[j + 1]
  <2> SUFFICES ASSUME NEW j \in i .. (Len(stack) - 1)
               PROVE  stack'[j] = stack[j + 1]
    OBVIOUS
  <2>1. /\ j \in Nat /\ j > Len(before) /\ j =< Len(before) + Len(after)
    BY <1>1, <1>3, <1>4
  <2>2. (before \o after)[j] = after[j - Len(before)]
    BY <2>1, <1>1, <1>3, <1>4, ConcatProperties
  <2>3. /\ j - Len(before) = j - i + 1
        /\ j - i + 1 \in 1 .. (Len(stack) - i) /\ i + (j - i + 1) = j + 1
    BY <1>1, <1>3
  <2> QED BY <2>2, <2>3, <1>2, <1>4
<1>8. ASSUME NEW j \in DOMAIN stack' PROVE stack'[j] \in Range(stack)
  <2>1. CASE j < i BY <2>1, <1>1, <1>5, <1>6 DEF Range
  <2>2. CASE j >= i
    <3>1. j \in i .. (Len(stack) - 1) /\ j + 1 \in DOMAIN stack
      BY <2>2, <1>1, <1>5
    <3> QED BY <3>1, <1>7 DEF Range
  <2> QED BY <2>1, <2>2, <1>1, <1>5
<1>9. ASSUME NEW j \in DOMAIN stack, j # i PROVE stack[j] \in Range(stack')
  <2>1. CASE j < i
    <3>1. j \in DOMAIN stack' /\ stack'[j] = stack[j]
      BY <2>1, <1>1, <1>5, <1>6
    <3> QED BY <3>1 DEF Range
  <2>2. CASE j > i
    <3>1. j - 1 \in i .. (Len(stack) - 1) /\ (j - 1) + 1 = j
      BY <2>2, <1>1
    <3>2. j - 1 \in DOMAIN stack' /\ stack'[j - 1] = stack[j]
      BY <3>1, <1>1, <1>5, <1>7
    <3> QED BY <3>2 DEF Range
  <2> QED BY <2>1, <2>2, <1>1, <1>9
<1>10. Range(stack') \subseteq Range(stack) BY <1>8 DEF Range
<1>11. \A e \in Range(stack) : e \notin Range(stack') => e = stack[i]
  BY <1>9 DEF Range
<1> QED BY <1>5, <1>10, <1>11

-----------------------------------------------------------------------------
(* Types.                                                                  *)

OperationsOf(n) ==
  [kind : {"none", "ask", "leave", "bring", "stash", "pop", "drop"},
   at : Whither \cup {"idle", "latest", "push", "list", "drop", "find",
                      "pop", "load"},
   to : Named, sha : 0 .. n, from : Named, place : Nat,
   agreed : {"no", "how", "yes"}]

\* The changes of a step to the operations, one at a time.
LEMMA Replacing ==
  ASSUME StashingTypeOK, made' \in {made, made + 1},
         NEW i \in Slot, NEW o \in OperationsOf(made), WellFormed(o),
         op' = [op EXCEPT ![i] = o]
  PROVE  /\ op' \in [Slot -> OperationsOf(made')]
         /\ \A j \in Slot : WellFormed(op'[j])
<1>1. made \in Nat BY DEF StashingTypeOK
<1>2. OperationsOf(made) \subseteq OperationsOf(made')
  BY <1>1 DEF OperationsOf
<1>3. op \in [Slot -> OperationsOf(made)] /\ \A j \in Slot : WellFormed(op[j])
  BY DEF StashingTypeOK, OperationsOf, Named
<1>4. \A j \in Slot : op'[j] = IF j = i THEN o ELSE op[j] BY <1>3
<1>5. op' \in [Slot -> OperationsOf(made)] BY <1>3
<1>6. op' \in [Slot -> OperationsOf(made')] BY <1>2, <1>5
<1> QED BY <1>3, <1>4, <1>6

Stops == {"idle", "list", "drop", "find", "pop", "load"}

\* An operation that goes on to its next await.
LEMMA GoingOn ==
  ASSUME StashingTypeOK, made' \in {made, made + 1}, NEW i \in Slot, NEW at,
         GoOn(i, at),
         \/ at \in Stops
         \/ at \in Whither /\ op[i].kind \in {"ask", "leave", "bring"}
  PROVE  /\ op' \in [Slot -> OperationsOf(made')]
         /\ \A j \in Slot : WellFormed(op'[j])
<1> DEFINE o == [op[i] EXCEPT !.at = at]
<1>1. op[i] \in OperationsOf(made) /\ WellFormed(op[i])
  BY DEF StashingTypeOK, OperationsOf, Named
<1>2. o \in OperationsOf(made) BY <1>1 DEF OperationsOf, Stops
<1>3. o.kind = op[i].kind /\ o.to = op[i].to /\ o.at = at
  BY <1>1 DEF OperationsOf
<1>4. at \in Stops => at \notin Whither \cup {"latest", "push"}
  BY DEF Stops, Whither
<1>5. at \in Whither => at \notin {"latest", "push"} BY DEF Whither
<1>6. WellFormed(o) BY <1>1, <1>3, <1>4, <1>5 DEF WellFormed
<1>7. op' = [op EXCEPT ![i] = o] BY DEF GoOn
<1> HIDE DEF o
<1> QED BY <1>2, <1>6, <1>7, Replacing

LEMMA Ending ==
  ASSUME StashingTypeOK, made' \in {made, made + 1}, NEW i \in Slot, Ends(i)
  PROVE  /\ op' \in [Slot -> OperationsOf(made')]
         /\ \A j \in Slot : WellFormed(op'[j])
<1>1. made \in Nat BY DEF StashingTypeOK
<1>2. NoOperation \in OperationsOf(made) /\ WellFormed(NoOperation)
  BY <1>1 DEF NoOperation, Operation, OperationsOf, WellFormed, Whither, Named
<1> QED BY <1>2, Replacing DEF Ends

\* A new operation.
LEMMA Starting ==
  ASSUME StashingTypeOK, made' = made, NEW i \in Slot,
         NEW o \in OperationsOf(made), WellFormed(o), Start(i, o)
  PROVE  /\ op' \in [Slot -> OperationsOf(made')]
         /\ \A j \in Slot : WellFormed(op'[j])
BY Replacing DEF Start

LEMMA Naming ==
  ASSUME StashingTypeOK, made' = made, NEW i \in Slot, NEW at \in Stops,
         Names(i, at), Place(op[i].sha) # 0
  PROVE  /\ op' \in [Slot -> OperationsOf(made')]
         /\ \A j \in Slot : WellFormed(op'[j])
<1> DEFINE o == [op[i] EXCEPT !.place = Place(op[i].sha), !.at = at]
<1>1. op[i] \in OperationsOf(made) /\ WellFormed(op[i])
  BY DEF StashingTypeOK, OperationsOf, Named
<1>2. Place(op[i].sha) \in Nat
  BY PlaceFound DEF StashingTypeOK, EntriesUpTo, Named
<1>3. o \in OperationsOf(made) BY <1>1, <1>2 DEF OperationsOf, Stops
<1>4. o.kind = op[i].kind /\ o.to = op[i].to /\ o.at = at
  BY <1>1 DEF OperationsOf
<1>5. at \notin Whither \cup {"latest", "push"} BY DEF Stops, Whither
<1>6. WellFormed(o) BY <1>1, <1>4, <1>5 DEF WellFormed
<1>7. op' = [op EXCEPT ![i] = o] BY DEF Names
<1> HIDE DEF o
<1> QED BY <1>3, <1>6, <1>7, Replacing

\* The type invariant, by its parts.
LEMMA TypeParts ==
  StashingTypeOK <=>
    /\ head \in Target /\ dirty \in BOOLEAN /\ made \in 0 .. MaxEntries
    /\ stack \in Seq(EntriesUpTo(made))
    /\ strategy \in {"ask", "leave", "bring"}
    /\ known \in [head : Target, changed : BOOLEAN,
                  entry : [Target -> 0 .. made]]
    /\ question \in [kind : {"none", "switch", "overwrite"}, to : Named]
    /\ question.kind = "switch" => question.to \in Target
    /\ op \in [Slot -> OperationsOf(made)]
    /\ \A i \in Slot : WellFormed(op[i])
    /\ spent \in SUBSET (1 .. made) /\ shifted \in BOOLEAN
BY DEF StashingTypeOK, EntriesUpTo, OperationsOf, Named

LEMMA TypePartsAfter ==
  ASSUME head' \in Target, dirty' \in BOOLEAN, made' \in 0 .. MaxEntries,
         stack' \in Seq(EntriesUpTo(made')),
         strategy' \in {"ask", "leave", "bring"},
         known' \in [head : Target, changed : BOOLEAN,
                     entry : [Target -> 0 .. made']],
         question' \in [kind : {"none", "switch", "overwrite"}, to : Named],
         question'.kind = "switch" => question'.to \in Target,
         op' \in [Slot -> OperationsOf(made')],
         \A i \in Slot : WellFormed(op'[i]),
         spent' \in SUBSET (1 .. made'), shifted' \in BOOLEAN
  PROVE  StashingTypeOK'
BY DEF StashingTypeOK, EntriesUpTo, OperationsOf, Named, WellFormed

LEMMA StashTypesStart ==
  ASSUME StashingConstants, StashingInit PROVE StashingTypeOK
<1>1. NoOperation \in OperationsOf(0) /\ WellFormed(NoOperation)
  BY DEF NoOperation, Operation, OperationsOf, WellFormed, Whither, Named
<1>2. op \in [Slot -> OperationsOf(0)] /\ \A i \in Slot : WellFormed(op[i])
  BY <1>1 DEF StashingInit
<1>3. stack \in Seq(EntriesUpTo(made)) BY DEF StashingInit
<1>4. made = 0 /\ made \in 0 .. MaxEntries
  BY DEF StashingInit, StashingConstants
<1>5. known \in [head : Target, changed : BOOLEAN,
                 entry : [Target -> 0 .. made]]
  BY <1>4 DEF StashingInit
<1>6. question \in [kind : {"none", "switch", "overwrite"}, to : Named]
      /\ question.kind # "switch"
  BY DEF StashingInit, NoDialog, Named
<1>7. op \in [Slot -> OperationsOf(made)] BY <1>2, <1>4
<1>8. /\ head \in Target /\ dirty \in BOOLEAN /\ spent \in SUBSET (1 .. made)
      /\ strategy \in {"ask", "leave", "bring"} /\ shifted \in BOOLEAN
  BY DEF StashingInit
<1> QED BY <1>2, <1>3, <1>4, <1>5, <1>6, <1>7, <1>8, TypeParts

\* What the dialogs and the operations read of the store.
LEMMA EntryType ==
  ASSUME StashingTypeOK PROVE Entry \in 0 .. made /\ known.head \in Target
BY DEF StashingTypeOK, Entry

LEMMA StashForType ==
  ASSUME StashingConstants, StashingTypeOK, NEW b \in Target,
         NEW agreed \in {"no", "yes"}
  PROVE  StashFor(b, agreed) \in OperationsOf(made)
         /\ WellFormed(StashFor(b, agreed))
<1>1. made \in Nat BY DEF StashingTypeOK
<1>2. StashFor(b, agreed) =
        [kind |-> "stash", at |-> "latest", to |-> Unmarked, sha |-> 0,
         from |-> b, place |-> 0, agreed |-> agreed]
  BY DEF StashFor, Operation
<1>3. StashFor(b, agreed) \in OperationsOf(made)
  BY <1>1, <1>2 DEF OperationsOf, Named
<1>4. WellFormed(StashFor(b, agreed)) BY <1>2 DEF WellFormed, Whither
<1> QED BY <1>3, <1>4

\* A checkout, as it begins.
LEMMA CheckoutType ==
  ASSUME StashingTypeOK, NEW b \in Target, NEW agreed \in {"no", "how", "yes"},
         NEW how \in {"ask", "leave", "bring"}
  PROVE  /\ Operation(how, "refresh", b, 0, agreed) \in OperationsOf(made)
         /\ WellFormed(Operation(how, "refresh", b, 0, agreed))
<1> DEFINE o == Operation(how, "refresh", b, 0, agreed)
<1>1. made \in Nat BY DEF StashingTypeOK
<1>2. o \in OperationsOf(made)
  BY <1>1 DEF Operation, OperationsOf, Whither, Named
<1>3. WellFormed(o) BY DEF Operation, WellFormed, Whither
<1> QED BY <1>2, <1>3

\* Only the question and the operations change.
LEMMA AskedTypes ==
  ASSUME StashingTypeOK,
         UNCHANGED <<repository, strategy, known, spent, shifted>>,
         question' \in [kind : {"none", "switch", "overwrite"}, to : Named],
         question'.kind = "switch" => question'.to \in Target,
         op' \in [Slot -> OperationsOf(made')],
         \A j \in Slot : WellFormed(op'[j])
  PROVE  StashingTypeOK'
BY TypeParts, TypePartsAfter DEF repository

LEMMA AskType ==
  ASSUME StashingTypeOK,
         UNCHANGED <<repository, strategy, known, spent, shifted>>,
         NEW kind \in {"switch", "overwrite"}, NEW b \in Named, Ask(kind, b),
         kind = "switch" => b \in Target
  PROVE  StashingTypeOK'
BY AskedTypes, TypeParts DEF Ask, repository

LEMMA CheckoutBranchType ==
  ASSUME StashingConstants, StashingTypeOK, NEW i \in Slot, NEW b \in Target,
         NEW protected \in BOOLEAN, CheckoutBranch(i, b, protected)
  PROVE  StashingTypeOK'
<1> DEFINE how == Chosen(strategy, protected)
           o == Operation(how, "refresh", b, 0, "no")
<1>1. UNCHANGED <<repository, strategy, known, spent, shifted>> /\ b \in Named
  BY DEF CheckoutBranch, Named
<1>2. how \in {"ask", "leave", "bring"} BY DEF Chosen, StashingTypeOK
<1>3. CASE Ask("overwrite", b) BY <1>1, <1>3, AskType
<1>4. CASE Ask("switch", b) BY <1>1, <1>4, AskType
<1>5. CASE Start(i, o) /\ UNCHANGED question
  <2>1. o \in OperationsOf(made) /\ WellFormed(o) BY <1>2, CheckoutType
  <2>2. made' = made BY <1>1 DEF repository
  <2>3. /\ op' \in [Slot -> OperationsOf(made')]
        /\ \A j \in Slot : WellFormed(op'[j])
    BY <1>5, <2>1, <2>2, Starting
  <2> QED BY <1>1, <1>5, <2>3, AskedTypes, TypeParts
<1> QED BY <1>3, <1>4, <1>5 DEF CheckoutBranch

LEMMA AnswerSwitchType ==
  ASSUME StashingConstants, StashingTypeOK, NEW i \in Slot,
         NEW how \in {"leave", "bring"}, AnswerSwitch(i, how)
  PROVE  StashingTypeOK'
<1> DEFINE o == Operation(how, "refresh", question.to, 0, "how")
<1>1. /\ UNCHANGED <<repository, strategy, known, spent, shifted>>
      /\ question.to \in Target /\ question.to \in Named
  BY DEF AnswerSwitch, StashingTypeOK, Named
<1>2. CASE Ask("overwrite", question.to) BY <1>1, <1>2, AskType
<1>3. CASE question' = NoDialog /\ Start(i, o)
  <2>1. o \in OperationsOf(made) /\ WellFormed(o) BY <1>1, CheckoutType
  <2>2. made' = made BY <1>1 DEF repository
  <2>3. /\ op' \in [Slot -> OperationsOf(made')]
        /\ \A j \in Slot : WellFormed(op'[j])
    BY <1>3, <2>1, <2>2, Starting
  <2> QED BY <1>1, <1>3, <2>3, AskedTypes DEF NoDialog, Named
<1> QED BY <1>2, <1>3 DEF AnswerSwitch

LEMMA AnswerOverwriteType ==
  ASSUME StashingConstants, StashingTypeOK, NEW i \in Slot,
         NEW protected \in BOOLEAN, AnswerOverwrite(i, protected)
  PROVE  StashingTypeOK'
<1> DEFINE how == Chosen("leave", protected)
           o == IF question.to = Unmarked THEN StashFor(known.head, "yes")
                ELSE Operation(how, "refresh", question.to, 0, "yes")
<1>1. /\ UNCHANGED <<repository, strategy, known, spent, shifted>>
      /\ question' = NoDialog /\ Start(i, o)
  BY DEF AnswerOverwrite
<1>2. how \in {"ask", "leave", "bring"} BY DEF Chosen
<1>3. question.to # Unmarked => question.to \in Target
  BY DEF StashingTypeOK
<1>4. o \in OperationsOf(made) /\ WellFormed(o)
  BY <1>2, <1>3, CheckoutType, StashForType, EntryType
<1>5. made' = made BY <1>1 DEF repository
<1> HIDE DEF o
<1>6. /\ op' \in [Slot -> OperationsOf(made')]
      /\ \A j \in Slot : WellFormed(op'[j])
  BY <1>1, <1>4, <1>5, Starting
<1> QED BY <1>1, <1>6, AskedTypes DEF NoDialog, Named

LEMMA CreateStashType ==
  ASSUME StashingConstants, StashingTypeOK, NEW i \in Slot, CreateStash(i)
  PROVE  StashingTypeOK'
<1>1. UNCHANGED <<repository, strategy, known, spent, shifted>>
      /\ Unmarked \in Named
  BY DEF CreateStash, Named
<1>2. CASE Ask("overwrite", Unmarked) BY <1>1, <1>2, AskType
<1>3. CASE Start(i, StashFor(known.head, "no")) /\ UNCHANGED question
  <2>1. /\ StashFor(known.head, "no") \in OperationsOf(made)
        /\ WellFormed(StashFor(known.head, "no"))
    BY StashForType, EntryType
  <2>2. made' = made BY <1>1 DEF repository
  <2>3. /\ op' \in [Slot -> OperationsOf(made')]
        /\ \A j \in Slot : WellFormed(op'[j])
    BY <1>3, <2>1, <2>2, Starting
  <2> QED BY <1>1, <1>3, <2>3, AskedTypes, TypeParts
<1> QED BY <1>2, <1>3 DEF CreateStash

LEMMA PopOrDropType ==
  ASSUME StashingConstants, StashingTypeOK, NEW i \in Slot,
         PopStash(i) \/ \E agreed \in {"no", "yes"} : DropStash(i, agreed)
  PROVE  StashingTypeOK'
<1>1. PICK o \in {Operation("pop", "find", Unmarked, Entry, "no")}
                  \cup {Operation("drop", "list", Unmarked, Entry, agreed) :
                           agreed \in {"no", "yes"}} :
        /\ Start(i, o)
        /\ UNCHANGED <<repository, strategy, known, question, spent, shifted>>
  BY DEF PopStash, DropStash
<1>2. /\ o.kind \in {"pop", "drop"} /\ o.at \in {"find", "list"}
      /\ o.to = Unmarked /\ o.from = Unmarked /\ o.sha = Entry
      /\ o.place = 0 /\ o.agreed \in {"no", "yes"}
      /\ o = [kind |-> o.kind, at |-> o.at, to |-> o.to, sha |-> o.sha,
              from |-> o.from, place |-> o.place, agreed |-> o.agreed]
  BY <1>1 DEF Operation
<1>5. o \in OperationsOf(made) BY <1>2, EntryType DEF OperationsOf, Named
<1>6. WellFormed(o) BY <1>2 DEF WellFormed, Whither
<1>3. made' = made BY <1>1 DEF repository
<1>4. /\ op' \in [Slot -> OperationsOf(made')]
      /\ \A j \in Slot : WellFormed(op'[j])
  BY <1>1, <1>5, <1>6, <1>3, Starting
<1> QED BY <1>1, <1>4, AskedTypes, TypeParts

\* What an operation goes on to after a stash, and after an error.
OpsTyped == /\ op \in [Slot -> OperationsOf(made)]
            /\ \A j \in Slot : WellFormed(op[j])

LEMMA ThenGoes ==
  ASSUME StashingTypeOK, made' \in {made, made + 1}, NEW i \in Slot,
         GoOn(i, Then(i))
  PROVE  OpsTyped'
<1>1. CASE op[i].kind = "leave"
  <2>1. GoOn(i, "checkout") /\ "checkout" \in Whither
    BY <1>1 DEF Then, Whither
  <2> QED BY <1>1, <2>1, GoingOn DEF OpsTyped
<1>2. CASE op[i].kind # "leave"
  <2>1. GoOn(i, "load") /\ "load" \in Stops BY <1>2 DEF Then, Stops
  <2> QED BY <2>1, GoingOn DEF OpsTyped
<1> QED BY <1>1, <1>2

LEMMA ThrowsGoes ==
  ASSUME StashingTypeOK, made' \in {made, made + 1}, NEW i \in Slot, Throws(i)
  PROVE  OpsTyped'
<1>1. CASE GoOn(i, "load") BY <1>1, GoingOn DEF Stops, OpsTyped
<1>2. CASE Ends(i) BY <1>2, Ending DEF OpsTyped
<1> QED BY <1>1, <1>2 DEF Throws

\* Only the operations change.
LEMMA OpOnly ==
  ASSUME StashingTypeOK, OpsTyped',
         UNCHANGED <<repository, strategy, known, question, spent, shifted>>
  PROVE  StashingTypeOK'
BY AskedTypes, TypeParts DEF OpsTyped

LEMMA RefreshedType ==
  ASSUME StashingTypeOK, NEW i \in Slot, Refreshed(i) PROVE StashingTypeOK'
<1>1. /\ UNCHANGED <<repository, strategy, known, question, spent, shifted>>
      /\ made' = made /\ op[i].at = "refresh"
  BY DEF Refreshed, repository
<1>2. op[i] \in OperationsOf(made) /\ WellFormed(op[i]) BY TypeParts
<1>3. CASE GoOn(i, "checkout")
  <2>1. op[i].kind \in {"ask", "leave", "bring"}
    BY <1>1, <1>2 DEF WellFormed, Whither
  <2> QED BY <1>1, <1>3, <2>1, GoingOn, OpOnly DEF Whither, OpsTyped
<1>4. CASE /\ op[i].kind = "leave"
           /\ op' = [op EXCEPT ![i].at = "latest", ![i].from = known.head]
  <2> DEFINE o == [op[i] EXCEPT !.at = "latest", !.from = known.head]
  <2>1. known.head \in Named BY EntryType DEF Named
  <2>2. o \in OperationsOf(made) BY <1>2, <2>1 DEF OperationsOf
  <2>3. o.kind = "leave" /\ o.to = op[i].to /\ o.at = "latest"
    BY <1>2, <1>4 DEF OperationsOf
  <2>4. WellFormed(o) BY <1>2, <1>4, <2>3 DEF WellFormed, Whither
  <2>5. op' = [op EXCEPT ![i] = o] BY <1>4
  <2> HIDE DEF o
  <2> QED BY <1>1, <2>2, <2>4, <2>5, Replacing, OpOnly DEF OpsTyped
<1> QED BY <1>3, <1>4 DEF Refreshed

LEMMA FindPreviousType ==
  ASSUME StashingTypeOK, NEW i \in Slot, FindPrevious(i) PROVE StashingTypeOK'
<1> DEFINE id == IdAt(LatestOf(op[i].from))
           o == [op[i] EXCEPT !.sha = id, !.at = "push"]
<1>1. /\ UNCHANGED <<repository, strategy, known, question, spent, shifted>>
      /\ made' = made /\ op[i].at = "latest"
      /\ op' = [op EXCEPT ![i] = o]
  BY DEF FindPrevious, repository
<1>2. op[i] \in OperationsOf(made) /\ WellFormed(op[i]) BY TypeParts
<1>3. id \in 0 .. made BY LatestId, TypeParts
<1> HIDE DEF id
<1>4. o \in OperationsOf(made) BY <1>2, <1>3 DEF OperationsOf
<1>5. o.kind = op[i].kind /\ o.to = op[i].to /\ o.at = "push"
  BY <1>2 DEF OperationsOf
<1>6. WellFormed(o) BY <1>1, <1>2, <1>5 DEF WellFormed, Whither
<1> HIDE DEF o
<1> QED BY <1>1, <1>4, <1>6, Replacing, OpOnly DEF OpsTyped

\* What git does to the repository.
LEMMA PushedType ==
  ASSUME StashingConstants, StashingTypeOK, NEW b \in Named, Pushed(b)
  PROVE  /\ made' = made + 1 /\ made' \in 0 .. MaxEntries
         /\ head' \in Target /\ dirty' \in BOOLEAN
         /\ stack' \in Seq(EntriesUpTo(made'))
<1>1. /\ made \in 0 .. MaxEntries /\ stack \in Seq(EntriesUpTo(made))
      /\ head \in Target
  BY TypeParts
<1>2. /\ made < MaxEntries /\ made' = made + 1 /\ dirty' = FALSE
      /\ head' = head
  BY DEF Pushed
<1>3. made \in Nat BY <1>1
<1>4. stack' \in Seq(EntriesUpTo(made')) BY <1>1, <1>3, PushedEntry
<1>5. made' \in 0 .. MaxEntries
  <2>1. MaxEntries \in Nat BY DEF StashingConstants
  <2> QED BY <2>1, <1>2, <1>3
<1> QED BY <1>1, <1>2, <1>4, <1>5

LEMMA ReplacedType ==
  ASSUME StashingTypeOK, made' = made + 1, NEW b, Replaced(b)
  PROVE  spent' \in SUBSET (1 .. made')
<1>1. \A e \in Range(stack) : e \in EntriesUpTo(made)
  BY TypeParts DEF Range
<1>2. \A e \in Range(stack) : e.id \in 1 .. made BY <1>1 DEF EntriesUpTo
<1> QED BY <1>2, TypeParts DEF Replaced

\* The repository and the history change, and the operations.
LEMMA DoneTypes ==
  ASSUME StashingTypeOK, OpsTyped', made' \in {made, made + 1},
         UNCHANGED <<strategy, known, question>>,
         head' \in Target, dirty' \in BOOLEAN, made' \in 0 .. MaxEntries,
         stack' \in Seq(EntriesUpTo(made')), spent' \in SUBSET (1 .. made'),
         shifted' \in BOOLEAN
  PROVE  StashingTypeOK'
<1>1. known' \in [head : Target, changed : BOOLEAN,
                  entry : [Target -> 0 .. made']]
  <2>1. 0 .. made \subseteq 0 .. made' BY TypeParts
  <2>2. /\ known \in [head : Target, changed : BOOLEAN,
                      entry : [Target -> 0 .. made]]
        /\ known' = known
    BY TypeParts
  <2> QED BY <2>1, <2>2
<1> QED BY <1>1, TypeParts, TypePartsAfter DEF OpsTyped

LEMMA SameRepository ==
  ASSUME StashingTypeOK, UNCHANGED <<repository, spent>>
  PROVE  /\ made' = made /\ made' \in 0 .. MaxEntries
         /\ head' \in Target /\ dirty' \in BOOLEAN
         /\ stack' \in Seq(EntriesUpTo(made'))
         /\ spent' \in SUBSET (1 .. made')
BY TypeParts DEF repository

LEMMA PushType ==
  ASSUME StashingConstants, StashingTypeOK, NEW i \in Slot, Push(i)
  PROVE  StashingTypeOK'
<1>1. UNCHANGED <<strategy, known, question>> /\ shifted' \in BOOLEAN
      /\ op[i].at = "push"
  BY TypeParts DEF Push
<1>2. op[i] \in OperationsOf(made) /\ WellFormed(op[i]) /\ op[i].from \in Named
  BY TypeParts DEF OperationsOf
<1>3. op[i].kind \in {"leave", "stash"} BY <1>1, <1>2 DEF WellFormed
<1>4. /\ made' \in {made, made + 1} /\ made' \in 0 .. MaxEntries
      /\ head' \in Target /\ dirty' \in BOOLEAN
      /\ stack' \in Seq(EntriesUpTo(made')) /\ spent' \in SUBSET (1 .. made')
  <2>1. CASE Pushed(op[i].from) /\ Replaced(op[i].from)
    BY <1>2, <2>1, PushedType, ReplacedType
  <2>2. CASE UNCHANGED <<repository, spent>> BY <2>2, SameRepository
  <2> QED BY <2>1, <2>2 DEF Push
<1>5. OpsTyped'
  <2>1. CASE DropsPrevious(i)
    <3>1. CASE GoOn(i, "list")
      BY <1>4, <3>1, GoingOn DEF Stops, OpsTyped
    <3>2. CASE GoOn(i, Then(i)) BY <1>4, <3>2, ThenGoes
    <3> QED BY <2>1, <3>1, <3>2 DEF DropsPrevious
  <2>2. CASE Ends(i) BY <1>4, <2>2, Ending DEF OpsTyped
  <2>3. CASE op[i].kind # "stash" /\ GoOn(i, "checkout")
    BY <1>3, <1>4, <2>3, GoingOn DEF Whither, OpsTyped
  <2> QED BY <2>1, <2>2, <2>3 DEF Push
<1> QED BY <1>1, <1>4, <1>5, DoneTypes

LEMMA ListOrFindType ==
  ASSUME StashingTypeOK, NEW i \in Slot, List(i) \/ Find(i)
  PROVE  StashingTypeOK'
<1>1. /\ UNCHANGED <<repository, strategy, known, question, spent, shifted>>
      /\ made' = made
  BY DEF List, Find, repository
<1>2. CASE GoOn(i, Then(i)) BY <1>1, <1>2, ThenGoes, OpOnly
<1>3. CASE GoOn(i, "load")
  BY <1>1, <1>3, GoingOn, OpOnly DEF Stops, OpsTyped
<1>4. CASE Place(op[i].sha) # 0 /\ \E at \in {"drop", "pop"} : Names(i, at)
  BY <1>1, <1>4, Naming, OpOnly DEF Stops, OpsTyped
<1> QED BY <1>2, <1>3, <1>4 DEF List, Find

LEMMA DropType ==
  ASSUME StashingTypeOK, NEW i \in Slot, Drop(i) PROVE StashingTypeOK'
<1>1. /\ UNCHANGED <<head, dirty, made, strategy, known, question, spent>>
      /\ shifted' \in BOOLEAN
  BY TypeParts DEF Drop, Misnames
<1>2. stack' \in Seq(EntriesUpTo(made'))
  <2>1. CASE /\ op[i].place \in DOMAIN stack
             /\ stack' = RemoveAt(stack, op[i].place)
    BY <1>1, <2>1, TypeParts, RemovedEntry
  <2>2. CASE stack' = stack BY <1>1, <2>2, TypeParts
  <2> QED BY <2>1, <2>2 DEF Drop
<1>3. OpsTyped'
  <2>1. CASE GoOn(i, Then(i)) BY <1>1, <2>1, ThenGoes
  <2>2. CASE Throws(i) BY <1>1, <2>2, ThrowsGoes
  <2> QED BY <2>1, <2>2 DEF Drop
<1> QED BY <1>1, <1>2, <1>3, TypeParts, DoneTypes

LEMMA PopType ==
  ASSUME StashingTypeOK, NEW i \in Slot, Pop(i) PROVE StashingTypeOK'
<1>1. /\ UNCHANGED <<head, made, strategy, known, question>>
      /\ shifted' \in BOOLEAN
  BY TypeParts DEF Pop, Misnames
<1>2. CASE /\ op[i].place \in DOMAIN stack /\ dirty' = TRUE
           /\ spent' = spent \cup {stack[op[i].place].id}
           /\ \/ /\ stack' = RemoveAt(stack, op[i].place) /\ GoOn(i, "load")
              \/ stack' = stack /\ GoOn(i, "list")
  <2>1. stack[op[i].place] \in EntriesUpTo(made) BY <1>2, TypeParts
  <2>2. spent' \in SUBSET (1 .. made')
    BY <1>1, <1>2, <2>1, TypeParts DEF EntriesUpTo
  <2>3. stack' \in Seq(EntriesUpTo(made'))
    BY <1>1, <1>2, TypeParts, RemovedEntry
  <2>4. OpsTyped' BY <1>1, <1>2, GoingOn DEF Stops, OpsTyped
  <2> QED BY <1>1, <1>2, <2>2, <2>3, <2>4, TypeParts, DoneTypes
<1>3. CASE UNCHANGED <<dirty, stack, spent>> /\ Throws(i)
  <2>1. OpsTyped' BY <1>1, <1>3, ThrowsGoes
  <2> QED BY <1>1, <1>3, <2>1, TypeParts, DoneTypes
<1> QED BY <1>2, <1>3 DEF Pop

\* The awaits between which a checkout moves HEAD.
LEMMA CheckOutType ==
  ASSUME StashingTypeOK, NEW i \in Slot, CheckOut(i) \/ CheckoutAgain(i)
  PROVE  StashingTypeOK'
<1>1. /\ UNCHANGED <<dirty, stack, made, strategy, known, question, spent,
                     shifted>>
      /\ op[i].at \in {"checkout", "again"}
  BY DEF CheckOut, CheckoutAgain
<1>2. WellFormed(op[i]) /\ op[i] \in OperationsOf(made) BY TypeParts
<1>3. op[i].to \in Target /\ op[i].kind \in {"ask", "leave", "bring"}
  BY <1>1, <1>2 DEF WellFormed, Whither
<1>4. head' \in Target BY <1>3, TypeParts DEF CheckOut, CheckoutAgain
<1>5. PICK at \in {"load", "find", "put away"} : GoOn(i, at)
  BY DEF CheckOut, CheckoutAgain
<1>6. OpsTyped' BY <1>1, <1>3, <1>5, GoingOn DEF Stops, Whither, OpsTyped
<1> QED BY <1>1, <1>4, <1>6, TypeParts, DoneTypes

LEMMA PutAwayType ==
  ASSUME StashingConstants, StashingTypeOK, NEW i \in Slot, PutAway(i)
  PROVE  StashingTypeOK'
<1>1. UNCHANGED <<strategy, known, question, spent, shifted>>
      /\ op[i].at = "put away"
  BY DEF PutAway
<1>2. WellFormed(op[i]) /\ op[i] \in OperationsOf(made) /\ op[i].to \in Named
  BY TypeParts DEF OperationsOf
<1>3. op[i].kind \in {"ask", "leave", "bring"}
  BY <1>1, <1>2 DEF WellFormed, Whither
<1>4. /\ made' \in {made, made + 1} /\ made' \in 0 .. MaxEntries
      /\ head' \in Target /\ dirty' \in BOOLEAN
      /\ stack' \in Seq(EntriesUpTo(made')) /\ spent' \in SUBSET (1 .. made')
  <2>1. CASE Pushed(op[i].to)
    <3>1. /\ made' = made + 1 /\ made' \in 0 .. MaxEntries
          /\ head' \in Target /\ dirty' \in BOOLEAN
          /\ stack' \in Seq(EntriesUpTo(made'))
      BY <1>2, <2>1, PushedType
    <3>2. spent' = spent BY <1>1
    <3>3. spent \in SUBSET (1 .. made) /\ made \in 0 .. MaxEntries
      BY TypeParts
    <3>4. spent' \in SUBSET (1 .. made') BY <3>1, <3>2, <3>3
    <3> QED BY <3>1, <3>4
  <2>2. CASE UNCHANGED repository BY <1>1, <2>2, SameRepository
  <2> QED BY <2>1, <2>2 DEF PutAway
<1>5. PICK at \in {"newest", "load"} : GoOn(i, at) BY DEF PutAway
<1>6. OpsTyped' BY <1>3, <1>4, <1>5, GoingOn DEF Stops, Whither, OpsTyped
<1> QED BY <1>1, <1>4, <1>6, TypeParts, DoneTypes

LEMMA FindNewestType ==
  ASSUME StashingTypeOK, NEW i \in Slot, FindNewest(i) PROVE StashingTypeOK'
<1> DEFINE id == IdAt(LatestOf(op[i].to))
           at == IF id = 0 THEN "load" ELSE "again"
           o == [op[i] EXCEPT !.sha = id, !.at = at]
<1>1. /\ UNCHANGED <<repository, strategy, known, question, spent, shifted>>
      /\ made' = made /\ op[i].at = "newest"
      /\ op' = [op EXCEPT ![i] = o]
  BY DEF FindNewest, repository
<1>2. op[i] \in OperationsOf(made) /\ WellFormed(op[i]) BY TypeParts
<1>3. id \in 0 .. made BY LatestId, TypeParts
<1>4. at \in {"load", "again"} OBVIOUS
<1> HIDE DEF id, at
<1>5. o \in OperationsOf(made) BY <1>2, <1>3, <1>4 DEF OperationsOf, Whither
<1>6. o.kind = op[i].kind /\ o.to = op[i].to /\ o.at = at
  BY <1>2 DEF OperationsOf
<1>7. WellFormed(o) BY <1>1, <1>2, <1>4, <1>6 DEF WellFormed, Whither
<1> HIDE DEF o
<1> QED BY <1>1, <1>5, <1>7, Replacing, OpOnly DEF OpsTyped

\* What the store reads of the repository.
LEMMA ReadType ==
  ASSUME StashingTypeOK, NEW k \in {known, Status}
  PROVE  /\ k \in [head : Target, changed : BOOLEAN,
                   entry : [Target -> 0 .. made]]
         /\ Loaded(k) \in [head : Target, changed : BOOLEAN,
                           entry : [Target -> 0 .. made]]
<1>1. \A b \in Target : IdAt(LatestOf(b)) \in 0 .. made
  BY LatestId, TypeParts
<1>2. k \in [head : Target, changed : BOOLEAN, entry : [Target -> 0 .. made]]
  BY TypeParts DEF Status
<1> QED BY <1>1, <1>2 DEF Loaded

LEMMA ReloadType ==
  ASSUME StashingTypeOK, NEW i \in Slot, Reload(i) PROVE StashingTypeOK'
<1>1. /\ UNCHANGED <<repository, strategy, question, spent, shifted>>
      /\ made' = made /\ Ends(i)
  BY DEF Reload, repository
<1>2. known' \in [head : Target, changed : BOOLEAN,
                  entry : [Target -> 0 .. made']]
  BY <1>1, ReadType DEF Reload
<1>3. OpsTyped' BY <1>1, Ending DEF OpsTyped
<1> QED BY <1>1, <1>2, <1>3, TypeParts, TypePartsAfter DEF OpsTyped, repository

LEMMA LoadType == ASSUME StashingTypeOK, Load PROVE StashingTypeOK'
<1>1. /\ UNCHANGED <<repository, strategy, question, op, spent, shifted>>
      /\ made' = made
  BY DEF Load, repository
<1>2. known' \in [head : Target, changed : BOOLEAN,
                  entry : [Target -> 0 .. made']]
  BY <1>1, ReadType DEF Load
<1> QED BY <1>1, <1>2, TypeParts, TypePartsAfter DEF repository

\* The user, at the same time.
LEMMA UserType ==
  ASSUME StashingConstants, StashingTypeOK,
         Dismiss \/ EditOrCommit \/ StashByHand
  PROVE  StashingTypeOK'
<1>1. CASE Dismiss
  BY <1>1, AskedTypes, TypeParts DEF Dismiss, NoDialog, Named, repository
<1>2. CASE EditOrCommit
  BY <1>2, TypeParts, TypePartsAfter DEF EditOrCommit
<1>3. CASE StashByHand
  <2>1. /\ made' = made + 1 /\ made' \in 0 .. MaxEntries
        /\ head' \in Target /\ dirty' \in BOOLEAN
        /\ stack' \in Seq(EntriesUpTo(made'))
    BY <1>3, PushedType DEF StashByHand, Named
  <2>2. UNCHANGED <<strategy, known, question, op, spent, shifted>>
    BY <1>3 DEF StashByHand
  <2>3. OpsTyped'
    <3>1. OperationsOf(made) \subseteq OperationsOf(made')
      BY <2>1, TypeParts DEF OperationsOf
    <3> QED BY <2>2, <3>1, TypeParts DEF OpsTyped
  <2>4. spent' \in SUBSET (1 .. made') BY <2>1, <2>2, TypeParts
  <2> QED BY <2>1, <2>2, <2>3, <2>4, TypeParts, DoneTypes
<1> QED BY <1>1, <1>2, <1>3

LEMMA StashTypesStep ==
  ASSUME StashingConstants, StashingTypeOK, [StashingNext]_stVars
  PROVE  StashingTypeOK'
<1>1. ASSUME NEW i \in Slot, Goes(i) PROVE StashingTypeOK'
  BY <1>1, RefreshedType, FindPreviousType, PushType, ListOrFindType, DropType,
     CheckOutType, PutAwayType, FindNewestType, PopType, ReloadType DEF Goes
<1>2. ASSUME UNCHANGED stVars PROVE StashingTypeOK'
  BY <1>2, TypeParts, TypePartsAfter DEF stVars, repository
<1> QED BY <1>1, <1>2, CheckoutBranchType, AnswerOverwriteType,
           AnswerSwitchType, CreateStashType, PopOrDropType, UserType, LoadType
        DEF StashingNext

\* The stack, the store and the operations keep their types; an operation that
\* checks out knows its branch.
THEOREM StashTypesCorrect ==
  ASSUME StashingConstants PROVE StashingSpec => []StashingTypeOK
BY StashTypesStart, StashTypesStep, PTL DEF StashingSpec

-----------------------------------------------------------------------------
(* What becomes of the entries.                                            *)

\* No two entries have one name.
Distinct == \A e, f \in Range(stack) : e.id = f.id => e = f

\* An operation that drops without the user's wish drops what was applied or
\* replaced, or git has been given another name before.
Settled(j) ==
  op[j].at \in {"list", "drop"} /\ op[j].kind # "drop" =>
    \/ shifted \/ op[j].sha \in spent
    \/ \A e \in Range(stack) : e.id # op[j].sha

\* What is to be replaced is of the branch that is stashed for.
OfBranch(j) ==
  op[j].at = "push" =>
    \A e \in Range(stack) : e.id = op[j].sha => e.branch = op[j].from

StashInv == /\ StashingTypeOK /\ Distinct
            /\ \A j \in Slot : Settled(j) /\ OfBranch(j)

\* What every step does to the entries: those that are there after it were
\* there, or one is new.
Onward == /\ made' \in {made, made + 1}
          /\ \A e \in Range(stack') :
               e \in Range(stack) \/ (made' = made + 1 /\ e.id = made')
          /\ \A e, f \in Range(stack') :
               e \notin Range(stack) /\ f \notin Range(stack) => e = f
          /\ spent \subseteq spent' /\ (shifted => shifted')

LEMMA Growth ==
  ASSUME StashingTypeOK, NEW b \in Named, Pushed(b),
         spent \subseteq spent', shifted => shifted'
  PROVE  Onward
<1>1. made' = made + 1 BY DEF Pushed
<1>2. made \in Nat /\ stack \in Seq(EntriesUpTo(made)) BY TypeParts
<1>3. Range(stack') = Range(stack) \cup {[id |-> made', branch |-> b]}
  BY <1>2, PushedEntry
<1> QED BY <1>1, <1>3 DEF Onward

LEMMA Loss ==
  ASSUME StashingTypeOK, NEW i \in DOMAIN stack,
         stack' = RemoveAt(stack, i), made' = made,
         spent \subseteq spent', shifted => shifted'
  PROVE  Onward
<1>1. Range(stack') \subseteq Range(stack) BY TypeParts, RemovedEntry
<1> QED BY <1>1 DEF Onward

LEMMA Rest ==
  ASSUME stack' = stack, made' = made, spent \subseteq spent',
         shifted => shifted'
  PROVE  Onward
BY DEF Onward

LEMMA OnwardStep ==
  ASSUME StashingTypeOK, [StashingNext]_stVars PROVE Onward
<1>1. ASSUME UNCHANGED <<repository, spent, shifted>> PROVE Onward
  BY <1>1, Rest DEF repository
<1>2. ASSUME NEW i \in Slot, Push(i) PROVE Onward
  <2>1. op[i].from \in Named BY TypeParts DEF OperationsOf
  <2>2. shifted' = shifted BY <1>2 DEF Push
  <2>3. CASE Pushed(op[i].from) /\ Replaced(op[i].from)
    BY <2>1, <2>2, <2>3, Growth DEF Replaced
  <2>4. CASE UNCHANGED <<repository, spent>>
    BY <2>2, <2>4, Rest DEF repository
  <2> QED BY <1>2, <2>3, <2>4 DEF Push
<1>3. ASSUME NEW i \in Slot, PutAway(i) PROVE Onward
  <2>1. op[i].to \in Named BY TypeParts DEF OperationsOf
  <2>2. UNCHANGED <<spent, shifted>> BY <1>3 DEF PutAway
  <2>3. CASE Pushed(op[i].to) BY <2>1, <2>2, <2>3, Growth
  <2>4. CASE UNCHANGED repository BY <2>2, <2>4, Rest DEF repository
  <2> QED BY <1>3, <2>3, <2>4 DEF PutAway
<1>4. ASSUME NEW i \in Slot, Drop(i) PROVE Onward
  <2>1. made' = made /\ spent' = spent /\ (shifted => shifted')
    BY <1>4 DEF Drop, Misnames
  <2> QED BY <1>4, <2>1, Loss, Rest DEF Drop
<1>5. ASSUME NEW i \in Slot, Pop(i) PROVE Onward
  <2>1. made' = made /\ spent \subseteq spent' /\ (shifted => shifted')
    BY <1>5 DEF Pop, Misnames
  <2> QED BY <1>5, <2>1, Loss, Rest DEF Pop
<1>6. ASSUME StashByHand PROVE Onward
  BY <1>6, Growth DEF StashByHand, Named
<1>7. ASSUME NEW i \in Slot, Goes(i) PROVE Onward
  <2>1. CASE Refreshed(i) BY <2>1, <1>1 DEF Refreshed
  <2>2. CASE FindPrevious(i) BY <2>2, <1>1 DEF FindPrevious
  <2>3. CASE List(i) BY <2>3, <1>1 DEF List
  <2>4. CASE CheckOut(i) BY <2>4, Rest DEF CheckOut
  <2>5. CASE FindNewest(i) BY <2>5, <1>1 DEF FindNewest
  <2>6. CASE CheckoutAgain(i) BY <2>6, Rest DEF CheckoutAgain
  <2>7. CASE Find(i) BY <2>7, <1>1 DEF Find
  <2>8. CASE Reload(i) BY <2>8, <1>1 DEF Reload
  <2> QED BY <1>2, <1>3, <1>4, <1>5, <1>7, <2>1, <2>2, <2>3, <2>4, <2>5, <2>6,
             <2>7, <2>8 DEF Goes
<1>8. ASSUME NEW i \in Slot, NEW protected \in BOOLEAN,
             \/ \E b \in Target : CheckoutBranch(i, b, protected)
             \/ AnswerOverwrite(i, protected)
      PROVE  Onward
  BY <1>8, <1>1 DEF CheckoutBranch, AnswerOverwrite
<1>9. ASSUME NEW i \in Slot, NEW how \in {"leave", "bring"},
             AnswerSwitch(i, how)
      PROVE  Onward
  BY <1>9, <1>1 DEF AnswerSwitch
<1>10. ASSUME NEW i \in Slot,
              \/ CreateStash(i) \/ PopStash(i)
              \/ \E agreed \in {"no", "yes"} : DropStash(i, agreed)
       PROVE  Onward
  BY <1>10, <1>1 DEF CreateStash, PopStash, DropStash
<1>11. ASSUME Dismiss \/ Load PROVE Onward BY <1>11, <1>1 DEF Dismiss, Load
<1>12. ASSUME EditOrCommit PROVE Onward BY <1>12, Rest DEF EditOrCommit
<1>13. ASSUME UNCHANGED stVars PROVE Onward BY <1>13, <1>1 DEF stVars
<1> QED BY <1>6, <1>7, <1>8, <1>9, <1>10, <1>11, <1>12, <1>13
        DEF StashingNext

\* New names differ from all that were given.
LEMMA NewNames ==
  ASSUME StashingTypeOK, Onward, NEW e \in Range(stack'), NEW n \in 0 .. made,
         e.id = n
  PROVE  e \in Range(stack)
BY TypeParts DEF Onward

LEMMA DistinctStep ==
  ASSUME StashingTypeOK, Distinct, Onward PROVE Distinct'
<1> SUFFICES ASSUME NEW e \in Range(stack'), NEW f \in Range(stack'),
                    e.id = f.id
             PROVE  e = f
  BY DEF Distinct
<1>1. \A g \in Range(stack) : g.id \in 0 .. made
  <2>1. \A g \in Range(stack) : g \in EntriesUpTo(made)
    BY TypeParts DEF Range
  <2> QED BY <2>1, TypeParts DEF EntriesUpTo
<1>2. CASE e \in Range(stack)
  <2>1. f \in Range(stack) BY <1>1, <1>2, NewNames
  <2> QED BY <1>2, <2>1 DEF Distinct
<1>3. CASE f \in Range(stack)
  <2>1. e \in Range(stack) BY <1>1, <1>3, NewNames
  <2> QED BY <1>3, <2>1 DEF Distinct
<1>4. CASE e \notin Range(stack) /\ f \notin Range(stack)
  BY <1>4 DEF Onward
<1> QED BY <1>2, <1>3, <1>4

\* A step of another operation.
LEMMA Bystander ==
  ASSUME StashInv, Onward, NEW j \in Slot, op'[j] = op[j]
  PROVE  Settled(j)' /\ OfBranch(j)'
<1>1. op[j].sha \in 0 .. made BY TypeParts DEF StashInv, OperationsOf
<1>2. \A e \in Range(stack') : e.id = op[j].sha => e \in Range(stack)
  BY <1>1, NewNames DEF StashInv
<1>3. Settled(j)' BY <1>2 DEF StashInv, Settled, Onward
<1>4. OfBranch(j)' BY <1>2 DEF StashInv, OfBranch
<1> QED BY <1>3, <1>4

\* A step after which the operation neither drops nor stashes.
LEMMA Harmless ==
  ASSUME NEW j \in Slot, \/ op'[j].at \notin {"list", "drop", "push"}
                         \/ op'[j].kind = "drop" /\ op'[j].at = "list"
  PROVE  Settled(j)' /\ OfBranch(j)'
BY DEF Settled, OfBranch

\* One operation moves, and the others are left where they are.
OneMoves(i) == \A j \in Slot : j # i => op'[j] = op[j]

LEMMA OneMoving ==
  ASSUME StashInv, Onward, NEW i \in Slot, OneMoves(i),
         Settled(i)' /\ OfBranch(i)'
  PROVE  \A j \in Slot : Settled(j)' /\ OfBranch(j)'
BY Bystander DEF OneMoves

\* What becomes of an operation.
LEMMA Moved ==
  ASSUME StashingTypeOK, NEW i \in Slot
  PROVE  /\ \A o : op' = [op EXCEPT ![i] = o] => OneMoves(i) /\ op'[i] = o
         /\ \A at : GoOn(i, at) => /\ OneMoves(i) /\ op'[i].at = at
                                   /\ op'[i].kind = op[i].kind
                                   /\ op'[i].sha = op[i].sha
         /\ \A at : Names(i, at) => /\ OneMoves(i) /\ op'[i].at = at
                                    /\ op'[i].kind = op[i].kind
                                    /\ op'[i].sha = op[i].sha
         /\ \A o : Start(i, o) => OneMoves(i) /\ op'[i] = o
         /\ Ends(i) => OneMoves(i) /\ op'[i].at = "idle"
         /\ Throws(i) => OneMoves(i) /\ op'[i].at \in {"idle", "load"}
<1>1. op \in [Slot -> OperationsOf(made)] /\ op[i] \in OperationsOf(made)
  BY TypeParts
<1>2. \A o : op' = [op EXCEPT ![i] = o] => OneMoves(i) /\ op'[i] = o
  BY <1>1 DEF OneMoves
<1>3. ASSUME NEW at, GoOn(i, at)
      PROVE  /\ OneMoves(i) /\ op'[i].at = at /\ op'[i].kind = op[i].kind
             /\ op'[i].sha = op[i].sha
  BY <1>1, <1>3 DEF GoOn, OneMoves, OperationsOf
<1>4. ASSUME NEW at, Names(i, at)
      PROVE  /\ OneMoves(i) /\ op'[i].at = at /\ op'[i].kind = op[i].kind
             /\ op'[i].sha = op[i].sha
  BY <1>1, <1>4 DEF Names, OneMoves, OperationsOf
<1>5. Ends(i) => OneMoves(i) /\ op'[i].at = "idle"
  <2>1. NoOperation.at = "idle" BY DEF NoOperation, Operation
  <2> QED BY <1>2, <2>1 DEF Ends
<1>6. Throws(i) => OneMoves(i) /\ op'[i].at \in {"idle", "load"}
  BY <1>3, <1>5 DEF Throws
<1>7. \A o : Start(i, o) => OneMoves(i) /\ op'[i] = o BY <1>2 DEF Start
<1> QED BY <1>2, <1>3, <1>4, <1>5, <1>6, <1>7

\* The steps after which an operation drops or stashes.
LEMMA FindPreviousSettles ==
  ASSUME StashInv, NEW i \in Slot, FindPrevious(i)
  PROVE  OneMoves(i) /\ Settled(i)' /\ OfBranch(i)'
<1> DEFINE id == IdAt(LatestOf(op[i].from))
           o == [op[i] EXCEPT !.sha = id, !.at = "push"]
<1>1. op' = [op EXCEPT ![i] = o] /\ stack' = stack
  BY DEF FindPrevious, repository
<1>2. OneMoves(i) /\ op'[i] = o BY <1>1, Moved DEF StashInv
<1>3. op[i] \in OperationsOf(made) BY TypeParts DEF StashInv
<1>4. op'[i].at = "push" /\ op'[i].sha = id /\ op'[i].from = op[i].from
  BY <1>2, <1>3 DEF OperationsOf
<1>5. ASSUME NEW f \in Range(stack), f.id = id PROVE f.branch = op[i].from
  <2>1. f \in EntriesUpTo(made) BY TypeParts DEF StashInv, Range
  <2>2. id # 0 BY <1>5, <2>1 DEF EntriesUpTo
  <2>3. made \in Nat /\ stack \in Seq(EntriesUpTo(made))
    BY TypeParts DEF StashInv, StashingTypeOK
  <2>4. PICK e \in Range(stack) : e.id = id /\ e.branch = op[i].from
    BY <2>2, <2>3, LatestId
  <2> QED BY <1>5, <2>4 DEF StashInv, Distinct
<1> HIDE DEF id
<1>6. OfBranch(i)' BY <1>1, <1>4, <1>5 DEF OfBranch
<1>7. Settled(i)' BY <1>4 DEF Settled
<1> QED BY <1>2, <1>6, <1>7

LEMMA PushSettles ==
  ASSUME StashInv, Onward, NEW i \in Slot, Push(i)
  PROVE  OneMoves(i) /\ Settled(i)' /\ OfBranch(i)'
<1>1. PICK at \in {"list", "checkout", "load", "idle"} :
        /\ OneMoves(i) /\ op'[i].at = at
        /\ at = "list" => /\ Pushed(op[i].from) /\ Replaced(op[i].from)
                          /\ op'[i].sha = op[i].sha
  BY Moved DEF Push, DropsPrevious, Then, StashInv
<1>2. CASE at # "list" BY <1>1, <1>2, Harmless
<1>3. CASE at = "list"
  <2>1. op[i].at = "push" /\ op[i].sha \in 0 .. made
    BY TypeParts DEF Push, StashInv, OperationsOf
  <2>2. ASSUME NEW e \in Range(stack'), e.id = op[i].sha
        PROVE  op[i].sha \in spent'
    <3>1. e \in Range(stack) BY <2>1, <2>2, NewNames DEF StashInv
    <3>2. e.branch = op[i].from
      BY <2>1, <2>2, <3>1 DEF StashInv, OfBranch
    <3> QED BY <1>1, <1>3, <2>2, <3>1, <3>2 DEF Replaced
  <2>3. Settled(i)' BY <1>1, <1>3, <2>2 DEF Settled
  <2>4. OfBranch(i)' BY <1>1, <1>3 DEF OfBranch
  <2> QED BY <1>1, <2>3, <2>4
<1> QED BY <1>2, <1>3, <1>1

LEMMA ListSettles ==
  ASSUME StashInv, NEW i \in Slot, List(i)
  PROVE  OneMoves(i) /\ Settled(i)' /\ OfBranch(i)'
<1>1. UNCHANGED <<stack, spent, shifted>> /\ op[i].at = "list"
  BY DEF List, repository
<1>2. /\ OneMoves(i) /\ op'[i].at \in {"load", "checkout", "drop"}
      /\ op'[i].kind = op[i].kind /\ op'[i].sha = op[i].sha
  BY Moved DEF List, Then, StashInv
<1>3. Settled(i)' BY <1>1, <1>2 DEF Settled, StashInv
<1> QED BY <1>2, <1>3 DEF OfBranch

LEMMA PopSettles ==
  ASSUME StashInv, NEW i \in Slot, Pop(i)
  PROVE  OneMoves(i) /\ Settled(i)' /\ OfBranch(i)'
<1>1. CASE Throws(i) BY <1>1, Moved, Harmless DEF StashInv
<1>2. CASE GoOn(i, "load") BY <1>2, Moved, Harmless DEF StashInv
<1>3. CASE /\ GoOn(i, "list") /\ op[i].place \in DOMAIN stack
           /\ spent' = spent \cup {stack[op[i].place].id}
  <2>1. OneMoves(i) /\ op'[i].at = "list" /\ op'[i].sha = op[i].sha
    BY <1>3, Moved DEF StashInv
  <2>2. shifted' \/ op[i].sha \in spent'
    <3>1. CASE Place(op[i].sha) # op[i].place BY <3>1 DEF Pop, Misnames
    <3>2. CASE Place(op[i].sha) = op[i].place
      <4>1. op[i].place # 0 BY <1>3, TypeParts DEF StashInv
      <4>2. stack[op[i].place].id = op[i].sha
        BY <3>2, <4>1, PlaceFound, TypeParts DEF StashInv
      <4> QED BY <1>3, <4>2
    <3> QED BY <3>1, <3>2
  <2>3. Settled(i)' BY <2>1, <2>2 DEF Settled
  <2> QED BY <2>1, <2>3 DEF OfBranch
<1> QED BY <1>1, <1>2, <1>3 DEF Pop

LEMMA OthersSettle ==
  ASSUME StashInv, NEW i \in Slot,
         \/ Refreshed(i) \/ Drop(i) \/ CheckOut(i) \/ PutAway(i)
         \/ FindNewest(i) \/ CheckoutAgain(i) \/ Find(i) \/ Reload(i)
  PROVE  OneMoves(i) /\ Settled(i)' /\ OfBranch(i)'
<1> USE DEF StashInv
<1>1. CASE Refreshed(i)
  <2>1. CASE GoOn(i, "checkout") BY <2>1, Moved, Harmless
  <2>2. CASE op' = [op EXCEPT ![i].at = "latest", ![i].from = known.head]
    <3> DEFINE o == [op[i] EXCEPT !.at = "latest", !.from = known.head]
    <3>1. op' = [op EXCEPT ![i] = o] BY <2>2
    <3>2. OneMoves(i) /\ op'[i] = o BY <3>1, Moved
    <3>3. op[i] \in OperationsOf(made) BY TypeParts
    <3>4. o.at = "latest" BY <3>3 DEF OperationsOf
    <3> HIDE DEF o
    <3>5. op'[i].at \notin {"list", "drop", "push"} BY <3>2, <3>4
    <3> QED BY <3>2, <3>5, Harmless
  <2> QED BY <1>1, <2>1, <2>2 DEF Refreshed
<1>2. CASE Drop(i)
  <2>1. OneMoves(i) /\ op'[i].at \in {"idle", "load", "checkout"}
    BY <1>2, Moved DEF Drop, Then
  <2> QED BY <2>1, Harmless
<1>3. CASE CheckOut(i)
  <2>1. PICK at \in {"load", "put away"} : GoOn(i, at) BY <1>3 DEF CheckOut
  <2> QED BY <2>1, Moved, Harmless
<1>4. CASE PutAway(i)
  <2>1. PICK at \in {"newest", "load"} : GoOn(i, at) BY <1>4 DEF PutAway
  <2> QED BY <2>1, Moved, Harmless
<1>5. CASE FindNewest(i)
  <2> DEFINE id == IdAt(LatestOf(op[i].to))
             o == [op[i] EXCEPT !.sha = id,
                                !.at = IF id = 0 THEN "load" ELSE "again"]
  <2>1. op' = [op EXCEPT ![i] = o] BY <1>5 DEF FindNewest
  <2>3. op[i] \in OperationsOf(made) BY TypeParts
  <2>4. o.at \in {"load", "again"} BY <2>3 DEF OperationsOf
  <2> HIDE DEF o
  <2>2. OneMoves(i) /\ op'[i] = o BY <2>1, Moved
  <2>5. op'[i].at \notin {"list", "drop", "push"} BY <2>2, <2>4
  <2> QED BY <2>2, <2>5, Harmless
<1>6. CASE CheckoutAgain(i) BY <1>6, Moved, Harmless DEF CheckoutAgain
<1>7. CASE Find(i) BY <1>7, Moved, Harmless DEF Find
<1>8. CASE Reload(i) BY <1>8, Moved, Harmless DEF Reload
<1> QED BY <1>1, <1>2, <1>3, <1>4, <1>5, <1>6, <1>7, <1>8

\* An operation as it begins.
LEMMA StartSettles ==
  ASSUME StashInv, NEW i \in Slot, NEW o, Start(i, o),
         \/ o.at \notin {"list", "drop", "push"}
         \/ o.kind = "drop" /\ o.at = "list"
  PROVE  OneMoves(i) /\ Settled(i)' /\ OfBranch(i)'
BY Moved, Harmless DEF StashInv

LEMMA AskedSettles ==
  ASSUME StashInv, NEW i \in Slot, UNCHANGED op,
         UNCHANGED <<repository, strategy, known, spent, shifted>>
  PROVE  OneMoves(i) /\ Settled(i)' /\ OfBranch(i)'
BY DEF StashInv, OneMoves, Settled, OfBranch, repository

LEMMA BeginningsSettle ==
  ASSUME StashInv, NEW i \in Slot,
         \/ \E protected \in BOOLEAN :
              \/ \E b \in Target : CheckoutBranch(i, b, protected)
              \/ AnswerOverwrite(i, protected)
         \/ \E how \in {"leave", "bring"} : AnswerSwitch(i, how)
         \/ CreateStash(i) \/ PopStash(i)
         \/ \E agreed \in {"no", "yes"} : DropStash(i, agreed)
  PROVE  OneMoves(i) /\ Settled(i)' /\ OfBranch(i)'
<1>1. ASSUME NEW kind, NEW b, Ask(kind, b),
             UNCHANGED <<repository, strategy, known, spent, shifted>>
      PROVE  OneMoves(i) /\ Settled(i)' /\ OfBranch(i)'
  BY <1>1, AskedSettles DEF Ask
<1>2. ASSUME NEW how, NEW b, NEW agreed,
             Start(i, Operation(how, "refresh", b, 0, agreed))
      PROVE  OneMoves(i) /\ Settled(i)' /\ OfBranch(i)'
  <2>1. Operation(how, "refresh", b, 0, agreed).at = "refresh"
    BY DEF Operation
  <2> QED BY <1>2, <2>1, StartSettles
<1>3. ASSUME NEW b, NEW agreed, Start(i, StashFor(b, agreed))
      PROVE  OneMoves(i) /\ Settled(i)' /\ OfBranch(i)'
  <2>1. StashFor(b, agreed).at = "latest" BY DEF StashFor, Operation
  <2> QED BY <1>3, <2>1, StartSettles
<1>4. ASSUME NEW protected \in BOOLEAN, NEW b \in Target,
             CheckoutBranch(i, b, protected)
      PROVE  OneMoves(i) /\ Settled(i)' /\ OfBranch(i)'
  BY <1>1, <1>2, <1>4 DEF CheckoutBranch
<1>5. ASSUME NEW protected \in BOOLEAN, AnswerOverwrite(i, protected)
      PROVE  OneMoves(i) /\ Settled(i)' /\ OfBranch(i)'
  <2>1. CASE question.to = Unmarked
    BY <1>3, <1>5, <2>1 DEF AnswerOverwrite
  <2>2. CASE question.to # Unmarked
    BY <1>2, <1>5, <2>2 DEF AnswerOverwrite
  <2> QED BY <2>1, <2>2
<1>6. ASSUME NEW how \in {"leave", "bring"}, AnswerSwitch(i, how)
      PROVE  OneMoves(i) /\ Settled(i)' /\ OfBranch(i)'
  BY <1>1, <1>2, <1>6 DEF AnswerSwitch
<1>7. CASE CreateStash(i) BY <1>1, <1>3, <1>7 DEF CreateStash
<1>8. CASE PopStash(i)
  <2>1. Operation("pop", "find", Unmarked, Entry, "no").at = "find"
    BY DEF Operation
  <2> QED BY <1>8, <2>1, StartSettles DEF PopStash
<1>9. ASSUME NEW agreed, DropStash(i, agreed)
      PROVE  OneMoves(i) /\ Settled(i)' /\ OfBranch(i)'
  <2> DEFINE o == Operation("drop", "list", Unmarked, Entry, agreed)
  <2>1. o.at = "list" /\ o.kind = "drop" BY DEF Operation
  <2>2. Start(i, o) BY <1>9 DEF DropStash
  <2> HIDE DEF o
  <2> QED BY <2>1, <2>2, StartSettles
<1> QED BY <1>4, <1>5, <1>6, <1>7, <1>8, <1>9

LEMMA StashInvStarts ==
  ASSUME StashingConstants, StashingInit PROVE StashInv
<1>1. StashingTypeOK BY StashTypesStart
<1>2. Range(stack) = {} BY DEF StashingInit, Range
<1>3. \A j \in Slot : op[j].at = "idle"
  BY DEF StashingInit, NoOperation, Operation
<1> QED BY <1>1, <1>2, <1>3 DEF StashInv, Distinct, Settled, OfBranch

LEMMA StashInvStep ==
  ASSUME StashingConstants, StashInv, [StashingNext]_stVars
  PROVE  StashInv'
<1>1. StashingTypeOK' BY StashTypesStep DEF StashInv
<1>2. Onward BY OnwardStep DEF StashInv
<1>3. Distinct' BY <1>2, DistinctStep DEF StashInv
<1>4. ASSUME op' = op PROVE \A j \in Slot : Settled(j)' /\ OfBranch(j)'
  BY <1>2, <1>4, Bystander
<1>5. ASSUME NEW i \in Slot, Goes(i)
      PROVE  \A j \in Slot : Settled(j)' /\ OfBranch(j)'
  <2>1. OneMoves(i) /\ Settled(i)' /\ OfBranch(i)'
    BY <1>2, <1>5, FindPreviousSettles, PushSettles, ListSettles, PopSettles,
       OthersSettle DEF Goes
  <2> QED BY <1>2, <2>1, OneMoving
<1>6. ASSUME NEW i \in Slot, OneMoves(i) /\ Settled(i)' /\ OfBranch(i)'
      PROVE  \A j \in Slot : Settled(j)' /\ OfBranch(j)'
  BY <1>2, <1>6, OneMoving
<1>7. \A j \in Slot : Settled(j)' /\ OfBranch(j)'
  <2>1. CASE Dismiss \/ Load \/ EditOrCommit \/ StashByHand \/ UNCHANGED stVars
    BY <2>1, <1>4 DEF Dismiss, Load, EditOrCommit, StashByHand, stVars
  <2> QED BY <1>5, <1>6, <2>1, BeginningsSettle DEF StashingNext
<1> QED BY <1>1, <1>3, <1>7 DEF StashInv

\* The step in which an entry leaves the stack.
LEMMA EntryKept ==
  ASSUME StashInv, [StashingNext]_stVars,
         NEW e \in Range(stack), e \notin Range(stack')
  PROVE  LeavesForCause(e)
<1> USE DEF StashInv, LeavesForCause
<1>1. ASSUME stack' = stack PROVE FALSE BY <1>1
<1>2. ASSUME NEW b \in Named, Pushed(b) PROVE FALSE
  <2>1. made \in Nat /\ stack \in Seq(EntriesUpTo(made))
    BY TypeParts DEF StashingTypeOK
  <2> QED BY <1>2, <2>1, PushedEntry
<1>3. ASSUME NEW i \in Slot, Drop(i) PROVE
         \/ e.id \in spent' \/ shifted'
         \/ /\ Gives(i) /\ op[i].kind = "drop" /\ op[i].sha = e.id
  <2>1. /\ op[i].place \in DOMAIN stack
        /\ stack' = RemoveAt(stack, op[i].place) /\ GoOn(i, Then(i))
        /\ op[i].at = "drop" /\ spent' = spent
        /\ shifted' = (shifted \/ Place(op[i].sha) # op[i].place)
    BY <1>1, <1>3 DEF Drop, Misnames
  <2>2. stack \in Seq(EntriesUpTo(made)) BY TypeParts
  <2>3. e = stack[op[i].place] BY <2>1, <2>2, RemovedEntry
  <2>4. op[i].place # 0 BY <2>1, <2>2
  <2>5. CASE Place(op[i].sha) # op[i].place BY <2>1, <2>5
  <2>6. CASE Place(op[i].sha) = op[i].place
    <3>1. e.id = op[i].sha BY <2>2, <2>3, <2>4, <2>6, PlaceFound
    <3>2. CASE op[i].kind = "drop"
      <4>1. op'[i].at = Then(i) BY <2>1, Moved
      <4>2. op'[i] # op[i] BY <2>1, <4>1 DEF Then
      <4> QED BY <2>1, <3>1, <3>2, <4>2 DEF Gives
    <3>3. CASE op[i].kind # "drop"
      <4>1. Settled(i) OBVIOUS
      <4>2. shifted \/ op[i].sha \in spent
        BY <2>1, <3>1, <3>3, <4>1 DEF Settled
      <4> QED BY <2>1, <3>1, <4>2
    <3> QED BY <3>2, <3>3
  <2> QED BY <2>5, <2>6
<1>4. ASSUME NEW i \in Slot, Pop(i) PROVE e.id \in spent'
  <2>1. /\ op[i].place \in DOMAIN stack
        /\ stack' = RemoveAt(stack, op[i].place)
        /\ spent' = spent \cup {stack[op[i].place].id}
    BY <1>1, <1>4 DEF Pop
  <2>2. e = stack[op[i].place] BY <2>1, TypeParts, RemovedEntry
  <2> QED BY <2>1, <2>2
<1>5. ASSUME NEW i \in Slot, Push(i) PROVE FALSE
  <2>1. op[i].from \in Named BY TypeParts DEF OperationsOf
  <2>2. Pushed(op[i].from) \/ stack' = stack BY <1>5 DEF Push, repository
  <2> QED BY <1>1, <1>2, <2>1, <2>2
<1>6. ASSUME NEW i \in Slot, PutAway(i) PROVE FALSE
  <2>1. op[i].to \in Named BY TypeParts DEF OperationsOf
  <2>2. Pushed(op[i].to) \/ stack' = stack BY <1>6 DEF PutAway, repository
  <2> QED BY <1>1, <1>2, <2>1, <2>2
<1>7. ASSUME StashByHand PROVE FALSE
  BY <1>2, <1>7 DEF StashByHand, Named
<1>8. ASSUME NEW i \in Slot, Goes(i), ~Push(i), ~Drop(i), ~PutAway(i), ~Pop(i)
      PROVE  stack' = stack
  BY <1>8 DEF Goes, Refreshed, FindPrevious, List, CheckOut, FindNewest,
              CheckoutAgain, Find, Reload, repository
<1>9. ASSUME NEW i \in Slot,
             \/ \E protected \in BOOLEAN :
                  \/ \E b \in Target : CheckoutBranch(i, b, protected)
                  \/ AnswerOverwrite(i, protected)
             \/ \E how \in {"leave", "bring"} : AnswerSwitch(i, how)
             \/ CreateStash(i) \/ PopStash(i)
             \/ \E agreed \in {"no", "yes"} : DropStash(i, agreed)
      PROVE  stack' = stack
  BY <1>9 DEF CheckoutBranch, AnswerOverwrite, AnswerSwitch, CreateStash,
              PopStash, DropStash, repository
<1>10. ASSUME Dismiss \/ Load \/ EditOrCommit \/ UNCHANGED stVars
       PROVE  stack' = stack
  BY <1>10 DEF Dismiss, Load, EditOrCommit, stVars, repository
<1>11. PICK i \in Slot : Goes(i)
  BY <1>1, <1>7, <1>9, <1>10 DEF StashingNext
<1> QED BY <1>1, <1>3, <1>4, <1>5, <1>6, <1>8, <1>11

\* Whatever operations overlap, and whatever the user stashes by hand
\* meanwhile, an entry only leaves the stack when it was applied or replaced,
\* or when the user discards it, or else the stack changed between the moment
\* this program found its place and the moment git was told.
THEOREM StashesKept ==
  ASSUME StashingConstants PROVE StashingSpec => StashesAreKept
<1>1. StashingInit => StashInv BY StashInvStarts
<1>2. StashInv /\ [StashingNext]_stVars => StashInv' BY StashInvStep
<1>3. StashInv /\ [StashingNext]_stVars => EntriesLeaveForCause
  BY EntryKept DEF EntriesLeaveForCause
<1> QED BY <1>1, <1>2, <1>3, PTL DEF StashingSpec, StashesAreKept

-----------------------------------------------------------------------------
(* Subscribing.                                                            *)

UpTo(S, i) == {k \in S : k <= i}

LEMMA UpToMember ==
  ASSUME NEW n \in Nat, NEW S, S \subseteq 1 .. n, NEW i \in Nat
  PROVE  /\ \A k : k \in UpTo(S, i) <=> k \in S /\ k <= i
         /\ \A k \in S : k \in Nat /\ 1 <= k /\ k <= n
<1>1. ASSUME NEW k \in S PROVE k \in Nat /\ 1 <= k /\ k <= n
  <2>1. k \in 1 .. n OBVIOUS
  <2> QED BY <2>1
<1> QED BY <1>1 DEF UpTo

\* Counting the members of a set of places up to each numbers them.
LEMMA UpToNext ==
  ASSUME NEW n \in Nat, NEW S, S \subseteq 1 .. n, NEW i \in Nat
  PROVE  /\ IsFiniteSet(UpTo(S, i)) /\ Cardinality(UpTo(S, i)) \in Nat
         /\ Cardinality(UpTo(S, i + 1)) = IF i + 1 \in S
                                          THEN Cardinality(UpTo(S, i)) + 1
                                          ELSE Cardinality(UpTo(S, i))
<1>1. UpTo(S, i) \subseteq 1 .. n BY UpToMember
<1>2. IsFiniteSet(1 .. n) BY FS_Interval
<1>3. IsFiniteSet(UpTo(S, i)) BY <1>1, <1>2, FS_Subset
<1>6. \A k : k \in UpTo(S, i) <=> k \in S /\ k <= i BY UpToMember
<1>7. /\ \A k : k \in UpTo(S, i + 1) <=> k \in S /\ k <= i + 1
      /\ \A k \in S : k \in Nat
  <2>1. i + 1 \in Nat OBVIOUS
  <2> QED BY <2>1, UpToMember
<1>8. ASSUME NEW k \in S PROVE k <= i + 1 <=> k <= i \/ k = i + 1
  BY <1>7
<1>4. CASE i + 1 \in S
  <2>1. \A k : k \in UpTo(S, i + 1) <=> k \in UpTo(S, i) \cup {i + 1}
    BY <1>4, <1>6, <1>7, <1>8
  <2>2. i + 1 \notin UpTo(S, i) BY DEF UpTo
  <2> QED BY <1>3, <1>4, <2>1, <2>2, FS_AddElement, FS_CardinalityType
<1>5. CASE i + 1 \notin S
  <2>1. \A k : k \in UpTo(S, i + 1) <=> k \in UpTo(S, i)
    BY <1>5, <1>6, <1>7, <1>8
  <2>2. UpTo(S, i + 1) = UpTo(S, i) BY <2>1
  <2> QED BY <1>3, <1>5, <2>2, FS_CardinalityType
<1> QED BY <1>4, <1>5

LEMMA UpToGrows ==
  ASSUME NEW n \in Nat, NEW S, S \subseteq 1 .. n, NEW i \in S, NEW j \in S,
         i < j
  PROVE  Cardinality(UpTo(S, i)) < Cardinality(UpTo(S, j))
<1>1. PICK p \in Nat : p + 1 = j /\ i <= p
  <2>1. i \in Nat /\ j \in Nat /\ j - 1 \in Nat OBVIOUS
  <2> QED BY <2>1
<1>2. UpTo(S, i) \subseteq UpTo(S, p) /\ i \in Nat
  <2>1. /\ \A k : k \in UpTo(S, i) <=> k \in S /\ k <= i
        /\ \A k : k \in UpTo(S, p) <=> k \in S /\ k <= p
        /\ \A k \in S : k \in Nat
    BY UpToMember
  <2>2. ASSUME NEW k \in S, k <= i PROVE k <= p BY <1>1, <2>1, <2>2
  <2> QED BY <2>1, <2>2
<1>3. /\ IsFiniteSet(UpTo(S, p)) /\ Cardinality(UpTo(S, p)) \in Nat
      /\ Cardinality(UpTo(S, j)) = Cardinality(UpTo(S, p)) + 1
  <2>1. p + 1 \in S BY <1>1
  <2>2. /\ IsFiniteSet(UpTo(S, p)) /\ Cardinality(UpTo(S, p)) \in Nat
        /\ Cardinality(UpTo(S, p + 1)) = Cardinality(UpTo(S, p)) + 1
    BY <1>1, <2>1, UpToNext
  <2> QED BY <1>1, <2>2
<1>4. Cardinality(UpTo(S, i)) <= Cardinality(UpTo(S, p))
  BY <1>2, <1>3, FS_Subset
<1>5. Cardinality(UpTo(S, i)) \in Nat BY <1>2, UpToNext
<1> QED BY <1>3, <1>4, <1>5

LEMMA Numbered ==
  ASSUME NEW n \in Nat, NEW S, S \subseteq 1 .. n
  PROVE  /\ Cardinality(S) \in Nat
         /\ \A m \in 1 .. Cardinality(S) :
              \E i \in S : Cardinality(UpTo(S, i)) = m
         /\ \A i \in S : Cardinality(UpTo(S, i)) \in 1 .. Cardinality(S)
         /\ \A i, j \in S :
              Cardinality(UpTo(S, i)) = Cardinality(UpTo(S, j)) => i = j
<1>1. UpTo(S, n) = S /\ UpTo(S, 0) = {} /\ \A k \in S : k \in Nat
  <2>1. /\ \A k : k \in UpTo(S, n) <=> k \in S /\ k <= n
        /\ \A k : k \in UpTo(S, 0) <=> k \in S /\ k <= 0
        /\ \A k \in S : k \in Nat /\ 1 <= k /\ k <= n
    BY UpToMember
  <2>2. \A k : k \in UpTo(S, n) <=> k \in S BY <2>1
  <2>3. ASSUME NEW k \in S PROVE ~(k <= 0)
    <3>1. k \in Nat /\ 1 <= k BY <2>1
    <3> QED BY <3>1
  <2> QED BY <2>1, <2>2, <2>3
<1>2. IsFiniteSet(S) /\ Cardinality(S) \in Nat
  <2>1. IsFiniteSet(UpTo(S, n)) /\ Cardinality(UpTo(S, n)) \in Nat
    BY UpToNext
  <2> QED BY <1>1, <2>1
<1>3. Cardinality(UpTo(S, 0)) = 0 BY <1>1, FS_EmptySet
<1>4. ASSUME NEW m \in 1 .. Cardinality(S)
      PROVE  \E i \in S : Cardinality(UpTo(S, i)) = m
  <2> DEFINE T == {i \in Nat : m <= Cardinality(UpTo(S, i))}
  <2>1. n \in T BY <1>1, <1>2
  <2>2. T \subseteq Nat /\ T # {} BY <2>1
  <2>3. PICK i \in T : \A k \in T : i <= k
    <3> HIDE DEF T
    <3> QED BY <2>2, Least
  <2>4. i \in Nat /\ m <= Cardinality(UpTo(S, i)) BY <2>3
  <2>5. i # 0 BY <1>2, <1>3, <2>4
  <2>6. PICK p \in Nat : p + 1 = i
    <3>1. i - 1 \in Nat BY <2>4, <2>5
    <3> QED BY <2>4, <3>1
  <2>7. p \notin T BY <2>3, <2>4, <2>6
  <2>8. /\ Cardinality(UpTo(S, p)) \in Nat
        /\ Cardinality(UpTo(S, i)) = IF i \in S
                                     THEN Cardinality(UpTo(S, p)) + 1
                                     ELSE Cardinality(UpTo(S, p))
    <3>1. /\ Cardinality(UpTo(S, p)) \in Nat
          /\ Cardinality(UpTo(S, p + 1)) = IF p + 1 \in S
                                           THEN Cardinality(UpTo(S, p)) + 1
                                           ELSE Cardinality(UpTo(S, p))
      BY UpToNext
    <3> QED BY <2>6, <3>1
  <2>9. Cardinality(UpTo(S, p)) < m BY <2>6, <2>7, <2>8, <1>2
  <2>10. i \in S /\ Cardinality(UpTo(S, i)) = m BY <2>4, <2>8, <2>9, <1>2
  <2> QED BY <2>10
<1>5. ASSUME NEW i \in S PROVE Cardinality(UpTo(S, i)) \in 1 .. Cardinality(S)
  <2>1. UpTo(S, i) \subseteq S /\ i \in UpTo(S, i) BY DEF UpTo
  <2>2. i \in Nat OBVIOUS
  <2>3. IsFiniteSet(UpTo(S, i)) /\ Cardinality(UpTo(S, i)) \in Nat
    BY <2>2, UpToNext
  <2>4. Cardinality(UpTo(S, i)) <= Cardinality(S) BY <1>2, <2>1, FS_Subset
  <2>5. Cardinality(UpTo(S, i)) # 0 BY <2>1, <2>3, FS_EmptySet
  <2> QED BY <1>2, <2>3, <2>4, <2>5
<1>6. ASSUME NEW i \in S, NEW j \in S,
             Cardinality(UpTo(S, i)) = Cardinality(UpTo(S, j))
      PROVE  i = j
  <2>1. Cardinality(UpTo(S, i)) \in Nat /\ Cardinality(UpTo(S, j)) \in Nat
    BY <1>5, <1>2
  <2>2. ASSUME i < j PROVE FALSE
    <3>1. Cardinality(UpTo(S, i)) < Cardinality(UpTo(S, j)) BY <2>2, UpToGrows
    <3> QED BY <1>6, <2>1, <3>1
  <2>3. ASSUME j < i PROVE FALSE
    <3>1. Cardinality(UpTo(S, j)) < Cardinality(UpTo(S, i)) BY <2>3, UpToGrows
    <3> QED BY <1>6, <2>1, <3>1
  <2>4. i \in Nat /\ j \in Nat OBVIOUS
  <2> QED BY <2>2, <2>3, <2>4
<1> QED BY <1>2, <1>4, <1>5, <1>6

Once == \A i, k \in DOMAIN subs : subs[i].account = subs[k].account => i = k

\* What stays is what was there and does not go, as often as before.
LEMMA WhatStays ==
  ASSUME subs \in Seq(Subscription), NEW gone, NEW rest, rest = Staying(gone)
  PROVE  /\ rest \in Seq(Subscription)
         /\ Range(rest) = {s \in Range(subs) : s.account \notin gone}
         /\ Once => \A i, k \in DOMAIN rest :
                      rest[i].account = rest[k].account => i = k
<1> DEFINE places == {i \in DOMAIN subs : subs[i].account \notin gone}
           N == Cardinality(places)
           Nth(n) == CHOOSE i \in places : Cardinality(UpTo(places, i)) = n
<1>1. /\ Len(subs) \in Nat /\ DOMAIN subs = 1 .. Len(subs)
      /\ places \subseteq 1 .. Len(subs)
  OBVIOUS
<1>2. /\ N \in Nat
      /\ \A m \in 1 .. N : \E i \in places : Cardinality(UpTo(places, i)) = m
      /\ \A i \in places : Cardinality(UpTo(places, i)) \in 1 .. N
      /\ \A i, j \in places :
           Cardinality(UpTo(places, i)) = Cardinality(UpTo(places, j)) => i = j
  <2> HIDE DEF places
  <2> QED BY <1>1, Numbered
<1>3. rest = [n \in 1 .. N |-> subs[Nth(n)]] BY DEF Staying, UpTo
<1> HIDE DEF places
<1>4. ASSUME NEW m \in 1 .. N
      PROVE  Nth(m) \in places /\ Cardinality(UpTo(places, Nth(m))) = m
  BY <1>2
<1>5. ASSUME NEW i \in places PROVE Nth(Cardinality(UpTo(places, i))) = i
  BY <1>2, <1>4
<1> HIDE DEF Nth
<1>6. ASSUME NEW m \in 1 .. N
      PROVE  /\ Nth(m) \in DOMAIN subs /\ rest[m] = subs[Nth(m)]
             /\ rest[m] \in Subscription /\ rest[m] \in Range(subs)
             /\ rest[m].account \notin gone
  <2>1. Nth(m) \in DOMAIN subs /\ subs[Nth(m)].account \notin gone
    BY <1>4 DEF places
  <2>2. rest[m] = subs[Nth(m)] BY <1>3
  <2>3. subs[Nth(m)] \in Subscription BY <2>1
  <2> QED BY <2>1, <2>2, <2>3 DEF Range
<1>7. rest \in Seq(Subscription) /\ DOMAIN rest = 1 .. N
  BY <1>2, <1>3, <1>6
<1>8. ASSUME NEW s \in Range(subs), s.account \notin gone
      PROVE  s \in Range(rest)
  <2>1. PICK i \in DOMAIN subs : s = subs[i] BY DEF Range
  <2>2. i \in places BY <1>8, <2>1 DEF places
  <2>3. /\ Cardinality(UpTo(places, i)) \in 1 .. N
        /\ rest[Cardinality(UpTo(places, i))] = s
    BY <1>2, <1>3, <1>5, <2>1, <2>2
  <2> QED BY <1>7, <2>3 DEF Range
<1>9. Range(rest) = {s \in Range(subs) : s.account \notin gone}
  BY <1>6, <1>7, <1>8 DEF Range
<1>10. ASSUME Once, NEW i \in DOMAIN rest, NEW k \in DOMAIN rest,
              rest[i].account = rest[k].account
       PROVE  i = k
  <2>1. Nth(i) = Nth(k) BY <1>6, <1>7, <1>10 DEF Once
  <2> QED BY <1>4, <1>7, <2>1
<1> QED BY <1>7, <1>9, <1>10

LEMMA Joined ==
  ASSUME NEW S, NEW q \in Seq(S), NEW t \in Seq(S), NEW r, r = q \o t
  PROVE  /\ r \in Seq(S) /\ Len(q) \in Nat /\ Len(t) \in Nat
         /\ DOMAIN q = 1 .. Len(q) /\ DOMAIN t = 1 .. Len(t)
         /\ Len(r) = Len(q) + Len(t) /\ DOMAIN r = 1 .. Len(q) + Len(t)
         /\ \A k \in 1 .. Len(q) : r[k] = q[k]
         /\ \A k \in Len(q) + 1 .. Len(q) + Len(t) : r[k] = t[k - Len(q)]
<1>1. r \in Seq(S) /\ Len(q) \in Nat /\ Len(t) \in Nat OBVIOUS
<1>2. Len(r) = Len(q) + Len(t) BY ConcatProperties
<1>3. ASSUME NEW k \in 1 .. Len(q) + Len(t)
      PROVE  r[k] = IF k <= Len(q) THEN q[k] ELSE t[k - Len(q)]
  BY ConcatProperties
<1>4. \A k \in 1 .. Len(q) : r[k] = q[k] BY <1>1, <1>3
<1>5. \A k \in Len(q) + 1 .. Len(q) + Len(t) : r[k] = t[k - Len(q)]
  BY <1>1, <1>3
<1> QED BY <1>1, <1>2, <1>4, <1>5

LEMMA TakenOut ==
  ASSUME NEW S, NEW q \in Seq(S), NEW i \in DOMAIN q, NEW r,
         r = RemoveAt(q, i)
  PROVE  /\ r \in Seq(S) /\ Len(q) \in Nat /\ Len(r) = Len(q) - 1
         /\ DOMAIN r = 1 .. Len(q) - 1 /\ DOMAIN q = 1 .. Len(q)
         /\ \A k \in DOMAIN r : r[k] = IF k < i THEN q[k] ELSE q[k + 1]
<1> DEFINE before == SubSeq(q, 1, i - 1)
           after == SubSeq(q, i + 1, Len(q))
<1>1. DOMAIN q = 1 .. Len(q) /\ Len(q) \in Nat /\ i \in 1 .. Len(q)
  OBVIOUS
<1>2. r = before \o after BY DEF RemoveAt
<1>3. /\ before \in Seq(S) /\ Len(before) = i - 1
      /\ \A j \in 1 .. (i - 1) : before[j] = q[j]
  BY <1>1
<1>4. /\ after \in Seq(S) /\ Len(after) = Len(q) - i
      /\ \A j \in 1 .. (Len(q) - i) : after[j] = q[i + j]
  BY <1>1
<1> HIDE DEF before, after
<1>5. /\ r \in Seq(S) /\ Len(r) = Len(q) - 1
      /\ DOMAIN r = 1 .. Len(q) - 1
      /\ \A k \in 1 .. (i - 1) : r[k] = before[k]
      /\ \A k \in i .. Len(q) - 1 : r[k] = after[k - (i - 1)]
  <2>1. /\ r \in Seq(S) /\ Len(r) = Len(before) + Len(after)
        /\ \A k \in 1 .. Len(before) : r[k] = before[k]
        /\ \A k \in Len(before) + 1 .. Len(before) + Len(after) :
             r[k] = after[k - Len(before)]
    BY <1>2, <1>3, <1>4, Joined
  <2>2. /\ Len(before) + Len(after) = Len(q) - 1
        /\ Len(before) + 1 = i
    BY <1>1, <1>3, <1>4
  <2> QED BY <1>3, <2>1, <2>2
<1>6. ASSUME NEW k \in DOMAIN r
      PROVE  r[k] = IF k < i THEN q[k] ELSE q[k + 1]
  <2>1. CASE k < i
    <3>1. k \in 1 .. (i - 1) BY <1>1, <1>5, <2>1
    <3> QED BY <1>3, <1>5, <2>1, <3>1
  <2>2. CASE ~(k < i)
    <3>1. /\ k \in i .. Len(q) - 1 /\ k - (i - 1) \in 1 .. (Len(q) - i)
          /\ i + (k - (i - 1)) = k + 1
      BY <1>1, <1>5, <2>2
    <3> QED BY <1>4, <1>5, <2>2, <3>1
  <2> QED BY <2>1, <2>2
<1> QED BY <1>1, <1>5, <1>6

Told(q) == \A i \in DOMAIN q : OneEach(q[i].list)

LEMMA TakenOutTypes ==
  ASSUME AliveTypeOK, NEW i \in DOMAIN waiting
  PROVE  /\ RemoveAt(waiting, i) \in Seq(AliveCall)
         /\ Told(RemoveAt(waiting, i))
<1> DEFINE r == RemoveAt(waiting, i)
<1>1. /\ r \in Seq(AliveCall) /\ Len(waiting) \in Nat
      /\ DOMAIN r = 1 .. Len(waiting) - 1 /\ DOMAIN waiting = 1 .. Len(waiting)
      /\ \A k \in DOMAIN r : r[k] = IF k < i THEN waiting[k]
                                   ELSE waiting[k + 1]
  <2>1. waiting \in Seq(AliveCall) BY DEF AliveTypeOK
  <2> QED BY <2>1, TakenOut
<1> HIDE DEF r
<1>2. ASSUME NEW k \in DOMAIN r PROVE OneEach(r[k].list)
  <2>1. k \in DOMAIN waiting /\ k + 1 \in DOMAIN waiting BY <1>1
  <2> QED BY <1>1, <2>1 DEF AliveTypeOK
<1> QED BY <1>1, <1>2 DEF Told, r

LEMMA WaiterType ==
  ASSUME NEW what \in {"all", "subscribe", "leave"},
         NEW list \in SUBSET Account, NEW on \in Job \cup {0}
  PROVE  Waiter(what, list, on) \in AliveCall
BY DEF Waiter, AliveCall

LEMMA NoneTold == {} \in SUBSET Account /\ OneEach({}) BY DEF OneEach

\* A list told of n times waits at the end of the queue.
LEMMA Emitted ==
  ASSUME AliveTypeOK, NEW list \in SUBSET Account, OneEach(list),
         NEW n \in Nat, Emit(list, n)
  PROVE  /\ waiting' \in Seq(AliveCall) /\ Told(waiting')
         /\ ~enabled => waiting' = waiting
         /\ enabled =>
              /\ Len(waiting') = Len(waiting) + n
              /\ \A i \in 1 .. Len(waiting) : waiting'[i] = waiting[i]
              /\ \A i \in Len(waiting) + 1 .. Len(waiting) + n :
                   waiting'[i] = Waiter("subscribe", list, promise)
<1> DEFINE calls == [i \in 1 .. n |-> Waiter("subscribe", list, promise)]
<1>1. waiting \in Seq(AliveCall) /\ Told(waiting) BY DEF AliveTypeOK, Told
<1>2. Waiter("subscribe", list, promise) \in AliveCall
  BY WaiterType DEF AliveTypeOK
<1>3. calls \in Seq(AliveCall) /\ Len(calls) = n /\ DOMAIN calls = 1 .. n
  BY <1>2
<1>4. \A i \in 1 .. n : calls[i] = Waiter("subscribe", list, promise)
  OBVIOUS
<1>5. CASE ~enabled BY <1>1, <1>5 DEF Emit
<1>6. CASE enabled
  <2>1. waiting' = waiting \o calls BY <1>6 DEF Emit
  <2> HIDE DEF calls
  <2>2. /\ waiting' \in Seq(AliveCall)
        /\ Len(waiting') = Len(waiting) + n
        /\ DOMAIN waiting = 1 .. Len(waiting) /\ Len(waiting) \in Nat
        /\ DOMAIN waiting' = 1 .. Len(waiting) + n
        /\ \A i \in 1 .. Len(waiting) : waiting'[i] = waiting[i]
        /\ \A i \in Len(waiting) + 1 .. Len(waiting) + n :
             waiting'[i] = calls[i - Len(waiting)]
    <3>1. /\ waiting' \in Seq(AliveCall) /\ Len(waiting) \in Nat
          /\ DOMAIN waiting = 1 .. Len(waiting)
          /\ Len(waiting') = Len(waiting) + Len(calls)
          /\ DOMAIN waiting' = 1 .. Len(waiting) + Len(calls)
          /\ \A i \in 1 .. Len(waiting) : waiting'[i] = waiting[i]
          /\ \A i \in Len(waiting) + 1 .. Len(waiting) + Len(calls) :
               waiting'[i] = calls[i - Len(waiting)]
      <4>1. /\ waiting \in Seq(AliveCall) /\ calls \in Seq(AliveCall)
            /\ waiting' = waiting \o calls
        BY <1>1, <1>3, <2>1
      <4> QED BY ONLY <4>1, Joined
    <3> QED BY <1>3, <3>1
  <2>3. ASSUME NEW i \in Len(waiting) + 1 .. Len(waiting) + n
        PROVE  waiting'[i] = Waiter("subscribe", list, promise)
    <3>1. i - Len(waiting) \in 1 .. n BY <2>2
    <3> QED BY <1>4, <2>2, <3>1
  <2>4. Waiter("subscribe", list, promise).list = list BY DEF Waiter
  <2>5. ASSUME NEW i \in DOMAIN waiting' PROVE OneEach(waiting'[i].list)
    <3>1. CASE i \in 1 .. Len(waiting) BY <1>1, <2>2, <3>1 DEF Told
    <3>2. CASE i \in Len(waiting) + 1 .. Len(waiting) + n
      BY <2>3, <2>4, <3>2
    <3> QED BY <2>2, <3>1, <3>2
  <2> QED BY <1>6, <2>2, <2>3, <2>5 DEF Told
<1> QED BY <1>5, <1>6

LEMMA UnsubscribeTypes ==
  ASSUME AliveTypeOK, NEW out, Unsubscribe(out)
  PROVE  /\ subs' \in Seq(Subscription) /\ online' \subseteq 1 .. opened
         /\ session' \in [AliveEndpoint -> 0 .. opened]
<1>1. subs' \in Seq(Subscription)
  <2>1. subs' = Staying(Leaving(out)) BY DEF Unsubscribe
  <2>2. subs \in Seq(Subscription) BY DEF AliveTypeOK
  <2> QED BY <2>1, <2>2, WhatStays
<1>2. /\ online \subseteq 1 .. opened /\ opened \in Nat
      /\ session \in [AliveEndpoint -> 0 .. opened]
  BY DEF AliveTypeOK
<1>3. online' \subseteq 1 .. opened BY <1>2 DEF Unsubscribe
<1>4. session' \in [AliveEndpoint -> 0 .. opened] BY <1>2 DEF Unsubscribe
<1> QED BY <1>1, <1>3, <1>4

LEMMA ProceedTypes ==
  ASSUME AliveTypeOK, NEW j \in Job, NEW begins \in BOOLEAN,
         NEW todo \in SUBSET Account, NEW q \in Seq(AliveCall), Told(q),
         session' \in [AliveEndpoint -> 0 .. opened],
         Proceed(j, begins, todo, q)
  PROVE  /\ promise' \in Job \cup {0} /\ jobs' \in [Job -> AliveRun]
         /\ \A k \in Job : jobs'[k] # Idling => /\ jobs'[k].at # "over"
                                               /\ jobs'[k].account \in Account
         /\ waiting' \in Seq(AliveCall) /\ Told(waiting')
<1>0. /\ promise \in Job \cup {0} /\ jobs \in [Job -> AliveRun]
      /\ opened \in Nat
      /\ \A k \in Job : jobs[k] # Idling => /\ jobs[k].at # "over"
                                           /\ jobs[k].account \in Account
  BY DEF AliveTypeOK
<1>1. CASE /\ todo = {} /\ jobs' = [jobs EXCEPT ![j] = Idling]
           /\ promise' = IF begins \/ promise = j THEN 0 ELSE promise
           /\ waiting' = [i \in DOMAIN q |->
                            [q[i] EXCEPT !.on = IF @ = j THEN 0 ELSE @]]
  <2>1. Idling \in AliveRun BY DEF Idling, AliveRun
  <2>2. ASSUME NEW i \in DOMAIN q
        PROVE  waiting'[i] \in AliveCall /\ waiting'[i].list = q[i].list
    <3>1. q[i] \in AliveCall OBVIOUS
    <3> QED BY <1>1, <3>1 DEF AliveCall
  <2>3. waiting' \in Seq(AliveCall) /\ DOMAIN waiting' = DOMAIN q
    <3>1. DOMAIN q = 1 .. Len(q) /\ Len(q) \in Nat OBVIOUS
    <3> QED BY <1>1, <2>2, <3>1
  <2>4. Told(waiting') BY <2>2, <2>3 DEF Told
  <2> QED BY <1>0, <1>1, <2>1, <2>3, <2>4
<1>2. ASSUME NEW a \in todo,
             jobs' = [jobs EXCEPT ![j] =
                       [at |-> IF session'[a.endpoint] = 0 THEN "socket"
                               ELSE "channel",
                        account |-> a, session |-> session'[a.endpoint],
                        todo |-> todo \ {a}]],
             promise' = (IF begins THEN j ELSE promise), waiting' = q
      PROVE  /\ promise' \in Job \cup {0} /\ jobs' \in [Job -> AliveRun]
             /\ \A k \in Job : jobs'[k] # Idling =>
                   /\ jobs'[k].at # "over" /\ jobs'[k].account \in Account
  <2>1. a \in Account /\ a.endpoint \in AliveEndpoint BY DEF Account
  <2>2. session'[a.endpoint] \in Nat BY <1>0, <2>1
  <2> QED BY <1>0, <1>2, <2>1, <2>2 DEF AliveRun
<1> QED BY <1>1, <1>2 DEF Proceed

LEMMA IdlingIsOver ==
  Idling.at = "over" /\ Idling.todo = {} /\ Idling \in AliveRun
BY DEF Idling, AliveRun

LEMMA AliveInitTypes ==
  ASSUME AliveConstants, AliveInit PROVE AliveTypeOK
<1>1. signedIn \subseteq Account /\ OneEach(signedIn) BY DEF AliveInit
<1>2. jobs \in [Job -> AliveRun] /\ \A j \in Job : jobs[j] = Idling
  BY DEF AliveInit, Idling, AliveRun
<1>3. refreshing \in [at : {"not begun", "under way", "over"},
                      list : SUBSET Account] /\ refreshing.list = {}
  BY DEF AliveInit
<1>4. /\ Waiter("all", {}, 0) \in AliveCall
      /\ Waiter("all", {}, 0).list = {}
  BY WaiterType DEF Waiter
<1>5. /\ waiting \in Seq(AliveCall)
      /\ \A i \in DOMAIN waiting : waiting[i].list = {}
  <2>1. waiting = <<>> \/ waiting = <<Waiter("all", {}, 0)>>
    BY DEF AliveInit
  <2>2. CASE waiting = <<>> BY <2>2
  <2>3. CASE waiting = <<Waiter("all", {}, 0)>> BY <1>4, <2>3
  <2> QED BY <2>1, <2>2, <2>3
<1>6. OneEach({}) BY DEF OneEach
<1>7. /\ listRead \in BOOLEAN /\ enabled \in BOOLEAN /\ together \in BOOLEAN
      /\ promise \in Job \cup {0} /\ opened = 0 /\ online = {}
      /\ subs = <<>> /\ refused \subseteq Account
  BY DEF AliveInit
<1>12. subs \in Seq(Subscription) BY <1>7
<1>10. /\ opened \in Nat /\ opened <= MaxAliveSessions
       /\ online \subseteq 1 .. opened
  BY <1>7 DEF AliveConstants
<1>11. session \in [AliveEndpoint -> 0 .. opened]
  <2>1. 0 \in 0 .. opened BY <1>10
  <2> QED BY <2>1 DEF AliveInit
<1>8. \A i \in DOMAIN waiting : OneEach(waiting[i].list) BY <1>5, <1>6
<1>9. OneEach(refreshing.list) BY <1>3, <1>6
<1> QED BY <1>1, <1>2, <1>3, <1>5, <1>7, <1>8, <1>9, <1>10, <1>11,
           <1>12
    DEF AliveTypeOK

LEMMA AliveNextTypes ==
  ASSUME AliveConstants, AliveTypeOK, [AliveNext]_avVars PROVE AliveTypeOK'
<1> USE DEF Told
<1>1. CASE UNCHANGED avVars
  BY <1>1 DEF avVars, AliveTypeOK, OneEach, Idling, Job
<1>2. CASE LoadFromStore
  <2>1. waiting' \in Seq(AliveCall) /\ Told(waiting')
    <3> DEFINE w == Waiter("subscribe", signedIn, promise)
    <3>1. w \in AliveCall /\ w.list = signedIn /\ OneEach(signedIn)
      BY WaiterType DEF AliveTypeOK, Waiter
    <3>2. CASE waiting' = waiting BY <3>2 DEF AliveTypeOK
    <3>3. CASE waiting' = <<w>> \o waiting
      <4>1. /\ <<w>> \in Seq(AliveCall) /\ waiting \in Seq(AliveCall)
            /\ Len(<<w>>) = 1 /\ <<w>>[1] = w
        <5>1. waiting \in Seq(AliveCall) BY DEF AliveTypeOK
        <5> HIDE DEF w
        <5> QED BY <3>1, <5>1
      <4>2. /\ waiting' \in Seq(AliveCall) /\ Len(waiting) \in Nat
            /\ DOMAIN waiting = 1 .. Len(waiting)
            /\ DOMAIN waiting' = 1 .. 1 + Len(waiting)
            /\ waiting'[1] = w
            /\ \A k \in 2 .. 1 + Len(waiting) : waiting'[k] = waiting[k - 1]
        <5> HIDE DEF w
        <5> QED BY ONLY <4>1, <3>3, Joined
      <4>3. ASSUME NEW k \in DOMAIN waiting' PROVE OneEach(waiting'[k].list)
        <5>1. CASE k = 1 BY <5>1, <3>1, <4>2
        <5>2. CASE k # 1
          <6>1. k \in 2 .. 1 + Len(waiting) /\ k - 1 \in DOMAIN waiting
            BY <4>2, <5>2
          <6> QED BY <6>1, <4>2 DEF AliveTypeOK
        <5> QED BY <5>1, <5>2
      <4> QED BY <4>2, <4>3
    <3> QED BY <1>2, <3>2, <3>3 DEF LoadFromStore
  <2> QED BY <1>2, <2>1
    DEF LoadFromStore, subscriptions, AliveTypeOK
<1>3. ASSUME NEW a \in Account, SignsIn(a) PROVE AliveTypeOK'
  <2>1. signedIn' \in SUBSET Account /\ OneEach(signedIn')
    BY <1>3 DEF SignsIn, AliveTypeOK, OneEach
  <2>2. waiting' \in Seq(AliveCall) /\ Told(waiting')
    BY <1>3, <2>1, Emitted DEF SignsIn
  <2> QED BY <1>3, <2>1, <2>2 DEF SignsIn, subscriptions, AliveTypeOK
<1>4. ASSUME NEW a \in Account, SignsOut(a) PROVE AliveTypeOK'
  <2>1. signedIn' \in SUBSET Account /\ OneEach(signedIn')
    BY <1>4 DEF SignsOut, AliveTypeOK, OneEach
  <2>2. waiting' \in Seq(AliveCall) /\ Told(waiting')
    BY <1>4, <2>1, Emitted DEF SignsOut
  <2> QED BY <1>4, <2>1, <2>2 DEF SignsOut, subscriptions, AliveTypeOK
<1>5. CASE BeginRefreshing
  BY <1>5 DEF BeginRefreshing, subscriptions, AliveTypeOK
<1>6. CASE EndRefreshing
  <2>1. /\ signedIn' \in SUBSET Account /\ OneEach(signedIn')
        /\ refreshing' \in [at : {"not begun", "under way", "over"},
                            list : SUBSET Account] /\ refreshing'.list = {}
    BY <1>6 DEF EndRefreshing, AliveTypeOK
  <2>2. waiting' \in Seq(AliveCall) /\ Told(waiting')
    BY <1>6, <2>1, Emitted DEF EndRefreshing
  <2> QED BY <1>6, <2>1, <2>2, NoneTold
    DEF EndRefreshing, subscriptions, AliveTypeOK
<1>7. CASE SetEnabled
  <2>1. waiting' \in Seq(AliveCall) /\ Told(waiting')
    <3> DEFINE w == IF enabled THEN Waiter("leave", {}, promise)
                    ELSE Waiter("all", {}, 0)
    <3>1. w \in AliveCall /\ w.list = {} BY WaiterType DEF AliveTypeOK, Waiter
    <3>2. waiting' = Append(waiting, w) BY <1>7 DEF SetEnabled
    <3> HIDE DEF w
    <3>3. waiting \in Seq(AliveCall) /\ Told(waiting) BY DEF AliveTypeOK
    <3>4. /\ waiting' \in Seq(AliveCall) /\ Len(waiting) \in Nat
          /\ DOMAIN waiting' = 1 .. Len(waiting) + 1
          /\ DOMAIN waiting = 1 .. Len(waiting)
          /\ \A k \in 1 .. Len(waiting) : waiting'[k] = waiting[k]
          /\ waiting'[Len(waiting) + 1] = w
      BY <3>1, <3>2, <3>3
    <3>5. ASSUME NEW k \in DOMAIN waiting' PROVE OneEach(waiting'[k].list)
      <4>1. CASE k = Len(waiting) + 1 BY <3>1, <3>4, <4>1, NoneTold
      <4>2. CASE k # Len(waiting) + 1
        <5>1. k \in DOMAIN waiting /\ waiting'[k] = waiting[k]
          BY <3>4, <4>2
        <5> QED BY <3>3, <5>1
      <4> QED BY <4>1, <4>2
    <3> QED BY <3>4, <3>5
  <2> QED BY <1>7, <2>1 DEF SetEnabled, subscriptions, AliveTypeOK
<1>8. ASSUME NEW i \in DOMAIN waiting, NEW j \in Job, SubscribeToAccounts(i, j)
      PROVE  AliveTypeOK'
  <2> DEFINE q == RemoveAt(waiting, i)
             todo == waiting[i].list \ Subscribed
  <2>1. q \in Seq(AliveCall) /\ Told(q) BY TakenOutTypes
  <2>2. todo \in SUBSET Account
    <3>1. waiting \in Seq(AliveCall) BY DEF AliveTypeOK
    <3>2. waiting[i] \in AliveCall BY <3>1
    <3> QED BY <3>2 DEF AliveCall
  <2>3. /\ subs' \in Seq(Subscription) /\ online' \subseteq 1 .. opened
        /\ session' \in [AliveEndpoint -> 0 .. opened]
    BY <1>8, UnsubscribeTypes DEF SubscribeToAccounts
  <2>4. Proceed(j, TRUE, todo, q) BY <1>8 DEF SubscribeToAccounts
  <2> HIDE DEF q, todo
  <2>5. /\ promise' \in Job \cup {0} /\ jobs' \in [Job -> AliveRun]
        /\ \A k \in Job : jobs'[k] # Idling => /\ jobs'[k].at # "over"
                                              /\ jobs'[k].account \in Account
        /\ waiting' \in Seq(AliveCall) /\ Told(waiting')
    BY <2>1, <2>2, <2>3, <2>4, ProceedTypes
  <2> QED BY <1>8, <2>3, <2>5 DEF SubscribeToAccounts, AliveTypeOK, Busy
<1>9. ASSUME NEW i \in DOMAIN waiting, SubscribeToAll(i) PROVE AliveTypeOK'
  <2> DEFINE q == RemoveAt(waiting, i)
             w == Waiter("subscribe", signedIn, promise)
  <2>1. q \in Seq(AliveCall) /\ Told(q) BY TakenOutTypes
  <2>2. w \in AliveCall /\ w.list = signedIn /\ OneEach(signedIn)
    BY WaiterType DEF AliveTypeOK, Waiter
  <2>3. waiting' = q \o IF enabled THEN <<w>> ELSE <<>>
    BY <1>9 DEF SubscribeToAll
  <2> HIDE DEF q, w
  <2>4. waiting' \in Seq(AliveCall) /\ Told(waiting')
    <3>1. CASE enabled
      <4>1. waiting' = Append(q, w) BY <2>1, <2>2, <2>3, <3>1
      <4> QED BY <2>1, <2>2, <4>1
    <3>2. CASE ~enabled
      <4>1. waiting' = q BY <2>1, <2>3, <3>2
      <4> QED BY <2>1, <4>1
    <3> QED BY <3>1, <3>2
  <2> QED BY <1>9, <2>4 DEF SubscribeToAll, subscriptions, AliveTypeOK
<1>10. ASSUME NEW i \in DOMAIN waiting, UnsubscribeFromAll(i)
       PROVE  AliveTypeOK'
  <2>1. waiting' \in Seq(AliveCall) /\ Told(waiting')
    BY <1>10, TakenOutTypes DEF UnsubscribeFromAll
  <2>2. /\ subs' \in Seq(Subscription) /\ online' \subseteq 1 .. opened
        /\ session' \in [AliveEndpoint -> 0 .. opened]
    BY <1>10, UnsubscribeTypes DEF UnsubscribeFromAll
  <2> QED BY <1>10, <2>1, <2>2 DEF UnsubscribeFromAll, AliveTypeOK, Busy
<1>11. ASSUME NEW j \in Job, Socket(j) PROVE AliveTypeOK'
  <2>1. jobs[j] # Idling /\ jobs[j].account \in Account /\ jobs[j] \in AliveRun
    BY <1>11, IdlingIsOver DEF Socket, AliveTypeOK
  <2>2. /\ opened' \in Nat /\ opened' <= MaxAliveSessions
        /\ online' \subseteq 1 .. opened'
        /\ session' \in [AliveEndpoint -> 0 .. opened']
    <3>1. CASE UNCHANGED <<opened, online, session>>
      BY <3>1 DEF AliveTypeOK
    <3>2. CASE /\ opened < MaxAliveSessions /\ opened' = opened + 1
               /\ online' = online \cup {opened'}
               /\ session' = [session EXCEPT ![jobs[j].account.endpoint] =
                                                opened']
      <4>1. /\ opened \in Nat /\ opened' \in Nat
            /\ opened' <= MaxAliveSessions /\ opened' \in 1 .. opened'
            /\ 1 .. opened \subseteq 1 .. opened'
            /\ 0 .. opened \subseteq 0 .. opened'
        <5>1. opened \in Nat /\ MaxAliveSessions \in Nat
          BY DEF AliveTypeOK, AliveConstants
        <5> QED BY <3>2, <5>1
      <4>2. /\ online \subseteq 1 .. opened
            /\ session \in [AliveEndpoint -> 0 .. opened]
        BY DEF AliveTypeOK
      <4>3. online' \subseteq 1 .. opened' BY <3>2, <4>1, <4>2
      <4>4. session' \in [AliveEndpoint -> 0 .. opened']
        <5>1. opened' \in 0 .. opened' BY <4>1
        <5> QED BY <3>2, <4>1, <4>2, <5>1
      <4> QED BY <4>1, <4>3, <4>4
    <3> QED BY <1>11, <3>1, <3>2 DEF Socket
  <2>3. /\ jobs' \in [Job -> AliveRun]
        /\ \A k \in Job : jobs'[k] # Idling => /\ jobs'[k].at # "over"
                                              /\ jobs'[k].account \in Account
    <3>1. PICK n \in Nat :
            jobs' = [jobs EXCEPT ![j].at = "channel", ![j].session = n]
      <4>1. jobs[j].session \in Nat BY <2>1 DEF AliveRun
      <4>2. CASE jobs' = [jobs EXCEPT ![j].at = "channel"]
        <5>1. jobs' = [jobs EXCEPT ![j].at = "channel",
                                   ![j].session = jobs[j].session]
          BY <2>1, <4>2 DEF AliveRun, AliveTypeOK
        <5> QED BY <4>1, <5>1
      <4>3. CASE jobs' = [jobs EXCEPT ![j].at = "channel",
                                      ![j].session = opened']
        BY <2>2, <4>3
      <4> QED BY <1>11, <4>2, <4>3 DEF Socket
    <3>2. /\ jobs \in [Job -> AliveRun]
          /\ \A k \in Job : jobs[k] # Idling => /\ jobs[k].at # "over"
                                               /\ jobs[k].account \in Account
      BY DEF AliveTypeOK
    <3>3. /\ jobs'[j] \in AliveRun /\ jobs'[j].at = "channel"
          /\ jobs'[j].account = jobs[j].account
      BY <2>1, <3>1, <3>2 DEF AliveRun
    <3>4. \A k \in Job : k # j => jobs'[k] = jobs[k] BY <3>1, <3>2
    <3>5. jobs' \in [Job -> AliveRun] BY <3>1, <3>2, <3>3, <3>4
    <3> QED BY <2>1, <3>2, <3>3, <3>4, <3>5
  <2> QED BY <1>11, <2>2, <2>3 DEF Socket, AliveTypeOK
<1>12. ASSUME NEW j \in Job, Channel(j) PROVE AliveTypeOK'
  <2>1. /\ jobs[j] # Idling /\ jobs[j].account \in Account
        /\ jobs[j].todo \in SUBSET Account /\ jobs[j].session \in Nat
    <3>1. jobs[j] # Idling /\ jobs[j] \in AliveRun
      BY <1>12, IdlingIsOver DEF Channel, AliveTypeOK
    <3> QED BY <3>1 DEF AliveTypeOK, AliveRun
  <2>2. subs' \in Seq(Subscription) /\ refused' \subseteq Account
    <3> DEFINE s == [account |-> jobs[j].account, session |-> jobs[j].session]
    <3>1. s \in Subscription BY <2>1 DEF Subscription
    <3> HIDE DEF s
    <3>2. /\ subs' = Append(subs, s) \/ subs' = subs
          /\ \/ refused' = refused \ {jobs[j].account}
             \/ refused' = refused \cup {jobs[j].account}
      BY <1>12 DEF Channel, s
    <3>3. subs \in Seq(Subscription) /\ refused \subseteq Account
      BY DEF AliveTypeOK
    <3>4. subs' \in Seq(Subscription) BY <3>1, <3>2, <3>3
    <3>5. refused' \subseteq Account BY <2>1, <3>2, <3>3
    <3> QED BY <3>4, <3>5
  <2>3. session' \in [AliveEndpoint -> 0 .. opened]
    BY <1>12 DEF Channel, AliveTypeOK
  <2>4. Proceed(j, FALSE, jobs[j].todo, waiting) BY <1>12 DEF Channel
  <2>5. waiting \in Seq(AliveCall) /\ Told(waiting) BY DEF AliveTypeOK
  <2>6. /\ promise' \in Job \cup {0} /\ jobs' \in [Job -> AliveRun]
        /\ \A k \in Job : jobs'[k] # Idling => /\ jobs'[k].at # "over"
                                              /\ jobs'[k].account \in Account
        /\ waiting' \in Seq(AliveCall) /\ Told(waiting')
    BY <2>1, <2>3, <2>4, <2>5, ProceedTypes
  <2> QED BY <1>12, <2>2, <2>3, <2>6 DEF Channel, AliveTypeOK
<1> QED BY <1>1, <1>2, <1>3, <1>4, <1>5, <1>6, <1>7, <1>8, <1>9, <1>10,
           <1>11, <1>12 DEF AliveNext

\* Whatever GitHub refuses, a run that is not over has an account, sessions are
\* numbered as they were made, and no list told to a call, of those that the
\* accounts store keeps and tells (accounts-store.ts:95-136), has two accounts
\* of one endpoint.
THEOREM AliveTypesCorrect ==
  ASSUME AliveConstants PROVE AliveSpec => []AliveTypeOK
<1>1. AliveInit => AliveTypeOK BY AliveInitTypes
<1>2. AliveTypeOK /\ [AliveNext]_avVars => AliveTypeOK' BY AliveNextTypes
<1> QED BY <1>1, <1>2, PTL DEF AliveSpec

-----------------------------------------------------------------------------
(* What the queue, the run and the subscriptions come to.                  *)

Calls(q) == {i \in DOMAIN q : q[i].what # "all"}
Asks == \E w \in Range(waiting) : w.what = "all"

\* The last call of a queue that subscribes or leaves is of the list.
LastAsks(q, list) ==
  \A i \in Calls(q) : (\A k \in Calls(q) : k <= i) => q[i].list = list

\* Calls by their kind, and the same calls whatever they wait for.
Kinds == \A w \in Range(waiting) : /\ w.what # "subscribe" => w.list = {}
                                   /\ w.what = "all" => w.on = 0
SameCalls(q, r) ==
  /\ DOMAIN r = DOMAIN q
  /\ \A i \in DOMAIN q : r[i].what = q[i].what /\ r[i].list = q[i].list

\* Nothing is subscribed until the accounts have been read, for which, when
\* notifications are on, a call waits.
Unread ==
  ~listRead => /\ promise = 0 /\ ~Busy /\ subs = <<>>
               /\ refreshing.at = "not begun"
               /\ \A w \in Range(waiting) : w.what # "subscribe" /\ w.on = 0
               /\ enabled => Asks

\* The promise is of the one run under way, and calls wait for no other.
Awaited ==
  /\ \A j \in Job : jobs[j] # Idling <=> promise = j
  /\ \A w \in Range(waiting) : w.on \in {0, promise}

\* What the runs under way have yet to subscribe.
Pending == {a \in Account : \E j \in Job :
              jobs[j] # Idling /\ (a = jobs[j].account \/ a \in jobs[j].todo)}

Apart ==
  /\ OneEach(Subscribed \cup Pending) /\ Subscribed \cap Pending = {} /\ Once
  /\ \A j \in Job : jobs[j] # Idling => jobs[j].account \notin jobs[j].todo

\* Every endpoint has a session of its own, over which its account is
\* subscribed, or will be.
Linked ==
  /\ \A e \in AliveEndpoint : session[e] # 0 => session[e] \in online
  /\ \A e, f \in AliveEndpoint :
       session[e] # 0 /\ session[e] = session[f] => e = f
  /\ \A s \in Range(subs) :
       s.session # 0 /\ session[s.account.endpoint] = s.session
  /\ \A j \in Job : jobs[j] # Idling =>
       /\ session[jobs[j].account.endpoint] = jobs[j].session
       /\ jobs[j].at = "socket" => jobs[j].session = 0

\* Where it is all going: what the last call asks for is what is wanted; and
\* when no call is left, what is subscribed and what is pending come to it.
Wanted == IF enabled THEN signedIn ELSE {}
Aimed == listRead /\ ~(enabled /\ Asks) =>
           /\ LastAsks(waiting, Wanted)
           /\ Calls(waiting) = {} =>
                /\ Subscribed \cup Pending \subseteq Wanted
                /\ Wanted \ refused \subseteq Subscribed \cup Pending

AliveInv == /\ AliveTypeOK /\ Kinds /\ Unread
            /\ ~together => Awaited /\ Apart /\ Linked /\ Aimed

LEMMA AddedCalls ==
  ASSUME NEW q \in Seq(AliveCall), NEW r \in Seq(AliveCall), NEW n \in Nat,
         n # 0, NEW w \in AliveCall, Len(r) = Len(q) + n,
         \A i \in 1 .. Len(q) : r[i] = q[i],
         \A i \in Len(q) + 1 .. Len(q) + n : r[i] = w
  PROVE  /\ Range(r) = Range(q) \cup {w}
         /\ w.what # "all" => LastAsks(r, w.list) /\ Calls(r) # {}
<1>1. /\ DOMAIN r = 1 .. Len(q) + n /\ DOMAIN q = 1 .. Len(q)
      /\ Len(q) \in Nat
  OBVIOUS
<1>2. Len(q) + n \in DOMAIN r /\ r[Len(q) + n] = w BY <1>1
<1>3. \A i \in DOMAIN r : r[i] = w \/ (i \in DOMAIN q /\ r[i] = q[i])
  BY <1>1
<1>4. \A i \in DOMAIN q : i \in DOMAIN r /\ r[i] = q[i] BY <1>1
<1>5. Range(r) = Range(q) \cup {w} BY <1>2, <1>3, <1>4 DEF Range
<1>6. ASSUME w.what # "all" PROVE LastAsks(r, w.list) /\ Calls(r) # {}
  <2>1. Len(q) + n \in Calls(r) BY <1>2, <1>6 DEF Calls
  <2>2. ASSUME NEW i \in Calls(r), \A k \in Calls(r) : k <= i
        PROVE  r[i].list = w.list
    <3>1. i \in 1 .. Len(q) + n /\ Len(q) + n <= i
      BY <1>1, <2>1, <2>2 DEF Calls
    <3>2. i = Len(q) + n BY <1>1, <3>1
    <3> QED BY <1>2, <3>2
  <2> QED BY <2>1, <2>2 DEF LastAsks
<1> QED BY <1>5, <1>6

LEMMA LeftCalls ==
  ASSUME NEW q \in Seq(AliveCall), NEW i \in DOMAIN q, NEW r,
         r = RemoveAt(q, i)
  PROVE  /\ r \in Seq(AliveCall)
         /\ Range(r) \subseteq Range(q)
         /\ Range(q) \subseteq Range(r) \cup {q[i]}
         /\ q[i].what = "all" \/ (\A k \in Calls(q) : i <= k) =>
              \A list : LastAsks(q, list) => LastAsks(r, list)
         /\ i \in Calls(q) /\ (\A k \in Calls(q) : i <= k) /\ Calls(r) = {} =>
              \A list : LastAsks(q, list) => q[i].list = list
<1>1. /\ r \in Seq(AliveCall) /\ Len(q) \in Nat
      /\ DOMAIN r = 1 .. Len(q) - 1 /\ DOMAIN q = 1 .. Len(q)
      /\ \A k \in DOMAIN r : r[k] = IF k < i THEN q[k] ELSE q[k + 1]
  BY TakenOut
<1>2. i \in Nat /\ i \in 1 .. Len(q) BY <1>1
<1>3. ASSUME NEW k \in DOMAIN q, k < i PROVE k \in DOMAIN r /\ r[k] = q[k]
  BY <1>1, <1>2, <1>3
<1>4. ASSUME NEW k \in DOMAIN q, i < k
      PROVE  k - 1 \in DOMAIN r /\ r[k - 1] = q[k]
  <2>1. k - 1 \in DOMAIN r /\ ~(k - 1 < i) /\ (k - 1) + 1 = k
    BY <1>1, <1>2, <1>4
  <2> QED BY <1>1, <2>1
<1>5. ASSUME NEW m \in DOMAIN r
      PROVE  /\ m \in DOMAIN q /\ m + 1 \in DOMAIN q /\ m \in Nat
             /\ r[m] = q[m] \/ r[m] = q[m + 1]
  BY <1>1
<1>6. Range(r) \subseteq Range(q) BY <1>5 DEF Range
<1>7. Range(q) \subseteq Range(r) \cup {q[i]}
  <2>1. ASSUME NEW k \in DOMAIN q, k # i PROVE q[k] \in Range(r)
    <3>1. k < i \/ i < k BY <1>1, <1>2, <2>1
    <3> QED BY <1>3, <1>4, <3>1 DEF Range
  <2> QED BY <2>1 DEF Range
<1>8. ASSUME NEW list, LastAsks(q, list),
             q[i].what = "all" \/ \A k \in Calls(q) : i <= k
      PROVE  LastAsks(r, list)
  <2> SUFFICES ASSUME NEW m \in Calls(r), \A k \in Calls(r) : k <= m
               PROVE  r[m].list = list
    BY DEF LastAsks
  <2>1. m \in DOMAIN r /\ r[m].what # "all" /\ m \in Nat
    BY <1>5 DEF Calls
  <2>2. CASE m < i
    <3>1. m \in Calls(q) /\ r[m] = q[m] BY <1>1, <2>1, <2>2, <1>5 DEF Calls
    <3>2. ~(i <= m) BY <1>2, <2>1, <2>2
    <3>3. i \notin Calls(q) BY <1>8, <3>1, <3>2 DEF Calls
    <3>4. ASSUME NEW k \in Calls(q) PROVE k <= m
      <4>1. k \in DOMAIN q /\ q[k].what # "all" /\ k # i /\ k \in Nat
        BY <1>1, <3>3 DEF Calls
      <4>2. CASE k < i
        <5>1. k \in Calls(r) BY <1>3, <4>1, <4>2 DEF Calls
        <5> QED BY <5>1
      <4>3. CASE i < k
        <5>1. k - 1 \in Calls(r) BY <1>4, <4>1, <4>3 DEF Calls
        <5>2. k - 1 <= m BY <5>1
        <5> QED BY <1>2, <2>1, <2>2, <4>1, <4>3, <5>2
      <4> QED BY <1>2, <4>1, <4>2, <4>3
    <3> QED BY <1>8, <3>1, <3>4 DEF LastAsks
  <2>3. CASE ~(m < i)
    <3>1. m + 1 \in Calls(q) /\ r[m] = q[m + 1]
      BY <1>1, <1>5, <2>1, <2>3 DEF Calls
    <3>2. ASSUME NEW k \in Calls(q) PROVE k <= m + 1
      <4>1. k \in DOMAIN q /\ q[k].what # "all" /\ k \in Nat
        BY <1>1 DEF Calls
      <4>2. CASE k <= i BY <1>2, <2>1, <2>3, <4>1, <4>2
      <4>3. CASE i < k
        <5>1. k - 1 \in Calls(r) BY <1>4, <4>1, <4>3 DEF Calls
        <5>2. k - 1 <= m BY <5>1
        <5> QED BY <2>1, <4>1, <5>2
      <4> QED BY <1>2, <4>1, <4>2, <4>3
    <3> QED BY <1>8, <3>1, <3>2 DEF LastAsks
  <2> QED BY <2>2, <2>3
<1>9. ASSUME NEW list, i \in Calls(q), \A k \in Calls(q) : i <= k,
             LastAsks(q, list), Calls(r) = {}
      PROVE  q[i].list = list
  <2>1. ASSUME NEW k \in Calls(q) PROVE k <= i
    <3>1. k \in DOMAIN q /\ q[k].what # "all" /\ k \in Nat
      BY <1>1 DEF Calls
    <3>2. CASE i < k
      <4>1. k - 1 \in Calls(r) BY <1>4, <3>1, <3>2 DEF Calls
      <4> QED BY <1>9, <4>1
    <3> QED BY <1>2, <3>1, <3>2
  <2> QED BY <1>9, <2>1 DEF LastAsks
<1> QED BY <1>1, <1>6, <1>7, <1>8, <1>9

LEMMA CallsStaySame ==
  ASSUME NEW q, NEW r, SameCalls(q, r)
  PROVE  /\ Calls(r) = Calls(q)
         /\ \A list : LastAsks(q, list) => LastAsks(r, list)
<1>1. Calls(r) = Calls(q) BY DEF SameCalls, Calls
<1>2. \A i \in Calls(q) : r[i].list = q[i].list BY DEF SameCalls, Calls
<1> QED BY <1>1, <1>2 DEF LastAsks

LEMMA OneMoreCall ==
  ASSUME NEW q \in Seq(AliveCall), NEW w \in AliveCall, NEW r,
         r = Append(q, w)
  PROVE  /\ Range(r) = Range(q) \cup {w}
         /\ w.what # "all" => LastAsks(r, w.list) /\ Calls(r) # {}
<1>1. /\ r \in Seq(AliveCall) /\ Len(r) = Len(q) + 1
      /\ \A i \in 1 .. Len(q) : r[i] = q[i]
      /\ r[Len(q) + 1] = w /\ Len(q) \in Nat
  OBVIOUS
<1>2. \A i \in Len(q) + 1 .. Len(q) + 1 : r[i] = w BY <1>1
<1>3. 1 \in Nat /\ 1 # 0 OBVIOUS
<1> QED BY ONLY <1>1, <1>2, <1>3, q \in Seq(AliveCall), w \in AliveCall,
                AddedCalls

\* With one account of an endpoint subscribed, all that are to leave do, and
\* their sessions with them; the others are as they were.
LEMMA AllLeave ==
  ASSUME AliveTypeOK, Once, Linked, OneEach(Subscribed),
         NEW out \in SUBSET Subscribed, Unsubscribe(out)
  PROVE  /\ Range(subs') = {s \in Range(subs) : s.account \notin out}
         /\ Subscribed' = Subscribed \ out /\ Once'
         /\ \A e \in AliveEndpoint : session'[e] # 0 => session'[e] \in online'
         /\ \A e, f \in AliveEndpoint :
              session'[e] # 0 /\ session'[e] = session'[f] => e = f
         /\ \A s \in Range(subs') :
              s.session # 0 /\ session'[s.account.endpoint] = s.session
<1>1. /\ subs \in Seq(Subscription)
      /\ \A s \in Range(subs) : /\ s.account \in Account
                                /\ s.account.endpoint \in AliveEndpoint
                                /\ s.account \in Subscribed
  <2>1. subs \in Seq(Subscription) BY DEF AliveTypeOK
  <2>2. ASSUME NEW s \in Range(subs)
        PROVE  s.account \in Account /\ s.account.endpoint \in AliveEndpoint
    <3>1. s \in Subscription BY <2>1 DEF Range
    <3> QED BY <3>1 DEF Subscription, Account
  <2> QED BY <2>1, <2>2 DEF Subscribed
<1>2. ASSUME NEW a \in out PROVE a.endpoint \in AliveEndpoint
  BY <1>1 DEF Subscribed
<1>3. Leaving(out) = out
  <2>1. ASSUME NEW a \in out PROVE a \in Leaving(out)
    <3>1. PICK i \in DOMAIN subs : subs[i].account = a
      BY DEF Subscribed, Range
    <3>2. subs[i] \in Range(subs) BY DEF Range
    <3>3. session[a.endpoint] # 0 BY <3>1, <3>2 DEF Linked
    <3>4. ASSUME NEW j \in 1 .. i - 1,
                 subs[j].account.endpoint = a.endpoint
          PROVE  subs[j].account \notin out \ {a}
      <4>1. j \in DOMAIN subs BY <1>1
      <4>2. subs[j].account \in Subscribed /\ a \in Subscribed
        BY <4>1 DEF Subscribed, Range
      <4> QED BY <3>4, <4>2 DEF OneEach
    <3> QED BY <3>1, <3>3, <3>4 DEF Leaving
  <2> QED BY <2>1 DEF Leaving
<1>4. /\ subs' = Staying(out)
      /\ online' = online \ {session[a.endpoint] : a \in out}
      /\ session' = [e \in AliveEndpoint |->
                       IF \E a \in out : a.endpoint = e THEN 0 ELSE session[e]]
  BY <1>3 DEF Unsubscribe
<1>5. /\ Range(subs') = {s \in Range(subs) : s.account \notin out}
      /\ \A i, k \in DOMAIN subs' :
           subs'[i].account = subs'[k].account => i = k
  BY <1>1, <1>4, WhatStays
<1>6. Subscribed' = Subscribed \ out BY <1>5 DEF Subscribed
<1>7. ASSUME NEW e \in AliveEndpoint, session'[e] # 0
      PROVE  session'[e] = session[e] /\ ~\E a \in out : a.endpoint = e
  BY <1>4, <1>7
<1>8. ASSUME NEW e \in AliveEndpoint, session'[e] # 0
      PROVE  session'[e] \in online'
  <2>1. session[e] \in online /\ session[e] # 0 BY <1>7, <1>8 DEF Linked
  <2>2. ASSUME NEW a \in out PROVE session[a.endpoint] # session[e]
    <3>1. a.endpoint # e BY <1>7, <1>8
    <3> QED BY <1>2, <2>1, <3>1 DEF Linked
  <2> QED BY <1>4, <1>7, <1>8, <2>1, <2>2
<1>9. ASSUME NEW e \in AliveEndpoint, NEW f \in AliveEndpoint,
             session'[e] # 0, session'[e] = session'[f]
      PROVE  e = f
  <2>1. session'[e] = session[e] /\ session'[f] = session[f]
    BY <1>7, <1>9
  <2> QED BY <1>9, <2>1 DEF Linked
<1>10. ASSUME NEW s \in Range(subs')
       PROVE  s.session # 0 /\ session'[s.account.endpoint] = s.session
  <2>1. s \in Range(subs) /\ s.account \notin out BY <1>5
  <2>2. s.session # 0 /\ session[s.account.endpoint] = s.session
    BY <2>1 DEF Linked
  <2>3. ~\E a \in out : a.endpoint = s.account.endpoint
    BY <1>1, <2>1 DEF OneEach
  <2>4. s.account.endpoint \in AliveEndpoint BY <1>1, <2>1
  <2> QED BY <1>4, <2>2, <2>3, <2>4
<1> QED BY <1>5, <1>6, <1>8, <1>9, <1>10 DEF Once

\* One run at most is under way, with these accounts to do; and its account is
\* subscribed over the session there is.
RunIs(j, todo) ==
  /\ Pending = todo /\ promise = IF todo = {} THEN 0 ELSE j
  /\ \A k \in Job : jobs[k] # Idling <=> promise = k
  /\ \A k \in Job : jobs[k] # Idling =>
       /\ jobs[k].account \notin jobs[k].todo
       /\ session[jobs[k].account.endpoint] = jobs[k].session
       /\ jobs[k].at = "socket" => jobs[k].session = 0

\* A run goes on with what is left to do, or is over.
LEMMA RunProceeds ==
  ASSUME AliveTypeOK, NEW j \in Job, NEW begins \in BOOLEAN,
         NEW todo \in SUBSET Account, NEW q,
         \A k \in Job : k # j => jobs[k] = Idling, begins \/ promise = j,
         Proceed(j, begins, todo, q)
  PROVE  RunIs(j, todo)'
<1>0. jobs \in [Job -> AliveRun] /\ 0 \notin Job
  <2>1. 0 \notin Job BY DEF Job
  <2> QED BY <2>1 DEF AliveTypeOK
<1>1. CASE /\ todo = {} /\ jobs' = [jobs EXCEPT ![j] = Idling]
           /\ promise' = IF begins \/ promise = j THEN 0 ELSE promise
  <2>1. \A k \in Job : jobs'[k] = Idling BY <1>0, <1>1
  <2>2. Pending' = {} BY <2>1 DEF Pending
  <2>3. promise' = 0 BY <1>1
  <2> QED BY <1>0, <1>1, <2>1, <2>2, <2>3 DEF RunIs
<1>2. ASSUME NEW a \in todo,
             jobs' = [jobs EXCEPT ![j] =
                       [at |-> IF session'[a.endpoint] = 0 THEN "socket"
                               ELSE "channel",
                        account |-> a, session |-> session'[a.endpoint],
                        todo |-> todo \ {a}]],
             promise' = IF begins THEN j ELSE promise
      PROVE  RunIs(j, todo)'
  <2>1. /\ jobs'[j].account = a /\ jobs'[j].todo = todo \ {a}
        /\ jobs'[j].session = session'[a.endpoint]
        /\ jobs'[j].at = IF session'[a.endpoint] = 0 THEN "socket"
                         ELSE "channel"
    BY <1>0, <1>2
  <2>2. jobs'[j] # Idling BY <2>1, IdlingIsOver
  <2>3. \A k \in Job : k # j => jobs'[k] = Idling BY <1>0, <1>2
  <2>4. \A x \in Account : x \in Pending' <=> x \in todo
    BY <2>1, <2>2, <2>3 DEF Pending
  <2>5. Pending' = todo BY <2>4 DEF Pending
  <2>6. promise' = j /\ todo # {} BY <1>2
  <2>7. /\ jobs'[j].account \notin jobs'[j].todo
        /\ session'[jobs'[j].account.endpoint] = jobs'[j].session
        /\ jobs'[j].at = "socket" => jobs'[j].session = 0
    BY <2>1
  <2> QED BY <2>2, <2>3, <2>5, <2>6, <2>7 DEF RunIs
<1> QED BY <1>1, <1>2 DEF Proceed

\* The same calls; none waits for the run when it is over.
Released(q, r, j, todo) ==
  /\ SameCalls(q, r)
  /\ \A i \in DOMAIN q : \/ r[i].on = 0
                         \/ r[i].on = q[i].on /\ (todo = {} => q[i].on # j)

\* A run that is over lets the calls go on that waited for it.
LEMMA QueueProceeds ==
  ASSUME NEW j \in Job, NEW begins \in BOOLEAN, NEW todo,
         NEW q \in Seq(AliveCall), Proceed(j, begins, todo, q)
  PROVE  Released(q, waiting', j, todo)
<1>1. CASE /\ todo = {}
           /\ waiting' = [i \in DOMAIN q |->
                            [q[i] EXCEPT !.on = IF @ = j THEN 0 ELSE @]]
  <2>1. ASSUME NEW i \in DOMAIN q
        PROVE  /\ waiting'[i].what = q[i].what /\ waiting'[i].list = q[i].list
               /\ waiting'[i].on = IF q[i].on = j THEN 0 ELSE q[i].on
    <3>1. q[i] \in AliveCall OBVIOUS
    <3> QED BY <1>1, <3>1 DEF AliveCall
  <2>2. DOMAIN waiting' = DOMAIN q BY <1>1
  <2> QED BY <2>1, <2>2 DEF SameCalls, Released
<1>2. CASE todo # {} /\ waiting' = q BY <1>2 DEF SameCalls, Released
<1> QED BY <1>1, <1>2 DEF Proceed

-----------------------------------------------------------------------------
(* The steps.                                                              *)

LEMMA AliveInvInit ==
  ASSUME AliveConstants, AliveInit PROVE AliveInv
<1>1. AliveTypeOK BY AliveInitTypes
<1>2. \A j \in Job : jobs[j] = Idling BY DEF AliveInit
<1>3. \A w \in Range(waiting) : w = Waiter("all", {}, 0)
  <2>1. waiting = <<>> \/ waiting = <<Waiter("all", {}, 0)>>
    BY DEF AliveInit
  <2>2. CASE waiting = <<>> BY <2>2 DEF Range
  <2>3. CASE waiting = <<Waiter("all", {}, 0)>> BY <2>3 DEF Range
  <2> QED BY <2>1, <2>2, <2>3
<1>4. enabled => Waiter("all", {}, 0) \in Range(waiting)
  <2>1. ASSUME enabled PROVE waiting = <<Waiter("all", {}, 0)>>
    BY <2>1 DEF AliveInit
  <2>2. ASSUME enabled
        PROVE  1 \in DOMAIN waiting /\ waiting[1] = Waiter("all", {}, 0)
    BY <2>1, <2>2
  <2> QED BY <2>2 DEF Range
<1>5. /\ ~listRead /\ promise = 0 /\ subs = <<>>
      /\ refreshing.at = "not begun"
      /\ session = [e \in AliveEndpoint |-> 0]
  BY DEF AliveInit
<1>15. LET w == Waiter("all", {}, 0) IN
         w.what = "all" /\ w.list = {} /\ w.on = 0
  BY DEF Waiter
<1>6. Kinds BY <1>3, <1>15 DEF Kinds
<1>7. Unread
  <2>1. ~Busy BY <1>2 DEF Busy
  <2>2. \A w \in Range(waiting) : w.what # "subscribe" /\ w.on = 0
    BY <1>3, <1>15
  <2>3. enabled => Asks BY <1>4, <1>15 DEF Asks
  <2> QED BY <1>5, <2>1, <2>2, <2>3 DEF Unread
<1>8. 0 \notin Job BY DEF Job
<1>9. Awaited
  <2>1. \A w \in Range(waiting) : w.on = 0 BY <1>3, <1>15
  <2>2. \A j \in Job : jobs[j] # Idling <=> promise = j BY <1>2, <1>5, <1>8
  <2> QED BY <2>1, <2>2 DEF Awaited
<1>10. Range(subs) = {} /\ DOMAIN subs = {}
  <2>1. subs = <<>> BY <1>5
  <2>2. Range(subs) = {} BY <2>1 DEF Range
  <2> QED BY <2>2 DEF Range
<1>11. Subscribed = {} /\ Pending = {} BY <1>2, <1>10 DEF Subscribed, Pending
<1>12. Apart BY <1>2, <1>10, <1>11 DEF Apart, OneEach, Once
<1>13. Linked BY <1>2, <1>5, <1>10 DEF Linked
<1>14. Aimed BY <1>5 DEF Aimed
<1> QED BY <1>1, <1>6, <1>7, <1>9, <1>12, <1>13, <1>14 DEF AliveInv

\* What changes when nothing is subscribed and no run moves.
LEMMA SubscriptionsStay ==
  ASSUME UNCHANGED subscriptions
  PROVE  /\ together' = together /\ promise' = promise /\ jobs' = jobs
         /\ refused' = refused
         /\ Busy' = Busy /\ Subscribed' = Subscribed /\ Pending' = Pending
         /\ (Apart => Apart') /\ (Linked => Linked')
<1>1. /\ promise' = promise /\ jobs' = jobs /\ session' = session
      /\ online' = online /\ subs' = subs /\ refused' = refused
      /\ together' = together
  BY DEF subscriptions
<1>2. Busy' = Busy BY <1>1 DEF Busy
<1>3. Subscribed' = Subscribed BY <1>1 DEF Subscribed
<1>4. Pending' = Pending BY <1>1 DEF Pending
<1>5. Apart => Apart' BY <1>1, <1>3, <1>4 DEF Apart, Once
<1>6. Linked => Linked' BY <1>1 DEF Linked
<1> QED BY <1>1, <1>2, <1>3, <1>4, <1>5, <1>6

\* When no call may go on, none waits for the accounts any more; and before
\* they are read, none waits for anything else.
LEMMA NoneMayGoOn ==
  ASSUME AliveInv, AtRest
  PROVE  /\ listRead => ~Asks
         /\ ~listRead => \A w \in Range(waiting) : w.what = "all"
BY DEF AtRest, MayGoOn, AliveInv, Unread, Asks, Range

LEMMA ListIsTold ==
  ASSUME AliveInv, AliveTypeOK', AtRest, listRead, NEW n \in Nat, n # 0,
         Emit(signedIn', n), UNCHANGED <<listRead, enabled, subscriptions>>
  PROVE  AliveInv'
<1> DEFINE w == Waiter("subscribe", signedIn', promise)
<1>1. /\ signedIn' \in SUBSET Account /\ OneEach(signedIn')
      /\ promise \in Job \cup {0} /\ waiting \in Seq(AliveCall)
  BY DEF AliveTypeOK, AliveInv
<1>2. /\ w \in AliveCall /\ w.what = "subscribe" /\ w.list = signedIn'
      /\ w.on = promise
  BY <1>1, WaiterType DEF Waiter
<1> HIDE DEF w
<1>3. /\ ~enabled => waiting' = waiting
      /\ enabled => /\ Range(waiting') = Range(waiting) \cup {w}
                    /\ LastAsks(waiting', signedIn') /\ Calls(waiting') # {}
  <2>1. /\ waiting' \in Seq(AliveCall)
        /\ ~enabled => waiting' = waiting
        /\ enabled =>
             /\ Len(waiting') = Len(waiting) + n
             /\ \A i \in 1 .. Len(waiting) : waiting'[i] = waiting[i]
             /\ \A i \in Len(waiting) + 1 .. Len(waiting) + n :
                  waiting'[i] = w
    BY <1>1, Emitted DEF AliveInv, w
  <2>2. ASSUME enabled
        PROVE  /\ Range(waiting') = Range(waiting) \cup {w}
               /\ w.what # "all" => /\ LastAsks(waiting', w.list)
                                    /\ Calls(waiting') # {}
    <3>1. /\ Len(waiting') = Len(waiting) + n
          /\ \A i \in 1 .. Len(waiting) : waiting'[i] = waiting[i]
          /\ \A i \in Len(waiting) + 1 .. Len(waiting) + n : waiting'[i] = w
          /\ waiting' \in Seq(AliveCall) /\ waiting \in Seq(AliveCall)
          /\ w \in AliveCall /\ n \in Nat /\ n # 0
      BY <1>1, <1>2, <2>1, <2>2
    <3> QED BY ONLY <3>1, AddedCalls
  <2> QED BY <1>2, <2>1, <2>2
<1>4. /\ together' = together /\ promise' = promise /\ jobs' = jobs
      /\ refused' = refused
      /\ Busy' = Busy /\ Subscribed' = Subscribed /\ Pending' = Pending
      /\ (Apart => Apart') /\ (Linked => Linked')
  BY SubscriptionsStay
<1>5. Kinds' BY <1>2, <1>3 DEF Kinds, AliveInv
<1>6. Unread' BY DEF Unread
<1>7. ~together => Awaited' BY <1>2, <1>3, <1>4 DEF Awaited, AliveInv
<1>8. ~Asks BY NoneMayGoOn
<1>9. ~together => Aimed'
  <2>1. CASE enabled
    <3>1. LastAsks(waiting', Wanted') /\ Calls(waiting') # {}
      BY <1>3, <2>1 DEF Wanted
    <3> QED BY <3>1 DEF Aimed
  <2>2. CASE ~enabled
    <3>1. waiting' = waiting /\ Wanted' = Wanted
      BY <1>3, <2>2 DEF Wanted
    <3> QED BY <1>4, <2>2, <3>1 DEF Aimed, AliveInv
  <2> QED BY <2>1, <2>2
<1> QED BY <1>4, <1>5, <1>6, <1>7, <1>9 DEF AliveInv

LEMMA LoadKeepsInv ==
  ASSUME AliveInv, AliveTypeOK', LoadFromStore PROVE AliveInv'
<1> DEFINE w == Waiter("subscribe", signedIn, promise)
<1>1. /\ w \in AliveCall /\ w.what = "subscribe" /\ w.on = promise
  BY WaiterType DEF AliveInv, AliveTypeOK, Waiter
<1>2. /\ waiting \in Seq(AliveCall) /\ AtRest /\ ~listRead /\ listRead'
      /\ enabled' = enabled /\ signedIn' = signedIn
      /\ waiting' = IF enabled /\ signedIn # {} THEN <<w>> \o waiting
                    ELSE waiting
      /\ UNCHANGED subscriptions
  BY DEF LoadFromStore, HasRoom, AliveInv, AliveTypeOK
<1> HIDE DEF w
<1>3. /\ waiting' = waiting \/ Range(waiting') = Range(waiting) \cup {w}
      /\ ~enabled => waiting' = waiting
      /\ Range(waiting) \subseteq Range(waiting')
  <2>1. CASE waiting' = waiting /\ ~(enabled /\ signedIn # {}) BY <2>1
  <2>2. CASE waiting' = <<w>> \o waiting /\ enabled
    <3>1. /\ <<w>> \in Seq(AliveCall) /\ waiting \in Seq(AliveCall)
          /\ Len(<<w>>) = 1 /\ <<w>>[1] = w
      BY <1>1, <1>2
    <3>2. /\ Len(waiting) \in Nat
          /\ DOMAIN waiting = 1 .. Len(waiting)
          /\ DOMAIN waiting' = 1 .. 1 + Len(waiting)
          /\ waiting'[1] = w
          /\ \A k \in 2 .. 1 + Len(waiting) : waiting'[k] = waiting[k - 1]
      BY ONLY <3>1, <2>2, Joined
    <3>3. ASSUME NEW k \in DOMAIN waiting'
          PROVE  waiting'[k] = w \/ waiting'[k] \in Range(waiting)
      <4>1. CASE k = 1 BY <3>2, <4>1
      <4>2. CASE k # 1
        <5>1. k \in 2 .. 1 + Len(waiting) /\ k - 1 \in DOMAIN waiting
          BY <3>2, <4>2
        <5> QED BY <3>2, <5>1 DEF Range
      <4> QED BY <4>1, <4>2
    <3>4. ASSUME NEW k \in DOMAIN waiting PROVE waiting[k] \in Range(waiting')
      <4>1. k + 1 \in 2 .. 1 + Len(waiting) /\ (k + 1) - 1 = k
        BY <3>2
      <4>2. k + 1 \in DOMAIN waiting' /\ waiting'[k + 1] = waiting[k]
        BY <3>2, <4>1
      <4> QED BY <4>2 DEF Range
    <3>5. w \in Range(waiting')
      <4>1. 1 \in DOMAIN waiting' BY <3>2
      <4> QED BY <3>2, <4>1 DEF Range
    <3>6. Range(waiting') \subseteq Range(waiting) \cup {w} BY <3>3 DEF Range
    <3>7. Range(waiting) \subseteq Range(waiting') BY <3>4 DEF Range
    <3> QED BY <2>2, <3>5, <3>6, <3>7
  <2> QED BY <1>2, <2>1, <2>2
<1>4. /\ together' = together /\ promise' = promise /\ jobs' = jobs
      /\ refused' = refused
      /\ Busy' = Busy /\ Subscribed' = Subscribed /\ Pending' = Pending
      /\ (Apart => Apart') /\ (Linked => Linked')
  BY <1>2, SubscriptionsStay
<1>5. Kinds' BY <1>1, <1>3 DEF Kinds, AliveInv
<1>6. Unread' BY <1>2 DEF Unread
<1>7. ~together => Awaited' BY <1>1, <1>3, <1>4 DEF Awaited, AliveInv
<1>8. Aimed'
  <2>1. CASE enabled
    <3>1. Asks BY <1>2, <2>1 DEF AliveInv, Unread
    <3>2. Asks' BY <1>3, <3>1 DEF Asks
    <3> QED BY <1>2, <2>1, <3>2 DEF Aimed
  <2>2. CASE ~enabled
    <3>1. \A x \in Range(waiting) : x.what = "all" BY <1>2, NoneMayGoOn
    <3>2. Calls(waiting') = {} BY <1>3, <2>2, <3>1 DEF Calls, Range
    <3>3. ~Busy /\ subs = <<>> BY <1>2 DEF AliveInv, Unread
    <3>4. Range(subs) = {} BY <3>3 DEF Range
    <3>5. Subscribed = {} /\ Pending = {}
      BY <3>3, <3>4 DEF Subscribed, Pending, Busy
    <3>6. Wanted' = {} BY <1>2, <2>2 DEF Wanted
    <3> QED BY <1>4, <3>2, <3>5, <3>6 DEF Aimed, LastAsks
  <2> QED BY <2>1, <2>2
<1> QED BY <1>4, <1>5, <1>6, <1>7, <1>8 DEF AliveInv

LEMMA SettingKeepsInv ==
  ASSUME AliveInv, AliveTypeOK', SetEnabled PROVE AliveInv'
<1> DEFINE w == IF enabled THEN Waiter("leave", {}, promise)
                ELSE Waiter("all", {}, 0)
<1>1. /\ w \in AliveCall /\ w.list = {} /\ w.on \in {0, promise}
      /\ w.what = IF enabled THEN "leave" ELSE "all"
      /\ ~enabled => w.on = 0
  BY WaiterType DEF AliveInv, AliveTypeOK, Waiter
<1>2. /\ waiting \in Seq(AliveCall) /\ AtRest /\ enabled' = ~enabled
      /\ listRead' = listRead /\ refreshing' = refreshing
      /\ waiting' = Append(waiting, w) /\ UNCHANGED subscriptions
  BY DEF SetEnabled, HasRoom, AliveInv, AliveTypeOK
<1> HIDE DEF w
<1>3. /\ Range(waiting') = Range(waiting) \cup {w}
      /\ w.what # "all" => LastAsks(waiting', w.list) /\ Calls(waiting') # {}
  BY ONLY <1>1, <1>2, OneMoreCall
<1>4. /\ together' = together /\ promise' = promise /\ jobs' = jobs
      /\ refused' = refused /\ subs' = subs
      /\ Busy' = Busy /\ Subscribed' = Subscribed /\ Pending' = Pending
      /\ (Apart => Apart') /\ (Linked => Linked')
  BY <1>2, SubscriptionsStay DEF subscriptions
<1>5. Kinds' BY <1>1, <1>3 DEF Kinds, AliveInv
<1>6. Unread' BY <1>1, <1>2, <1>3, <1>4 DEF Unread, Asks, AliveInv
<1>7. ~together => Awaited' BY <1>1, <1>3, <1>4 DEF Awaited, AliveInv
<1>8. Aimed'
  <2>1. CASE enabled BY <1>1, <1>2, <1>3, <2>1 DEF Aimed, Wanted
  <2>2. CASE ~enabled BY <1>1, <1>2, <1>3, <2>2 DEF Aimed, Asks
  <2> QED BY <2>1, <2>2
<1> QED BY <1>4, <1>5, <1>6, <1>7, <1>8 DEF AliveInv

LEMMA AskingKeepsInv ==
  ASSUME AliveInv, AliveTypeOK', NEW i \in DOMAIN waiting, SubscribeToAll(i)
  PROVE  AliveInv'
<1> DEFINE r == RemoveAt(waiting, i)
           w == Waiter("subscribe", signedIn, promise)
<1>1. /\ w \in AliveCall /\ w.what = "subscribe" /\ w.on = promise
      /\ w.list = signedIn
  BY WaiterType DEF AliveInv, AliveTypeOK, Waiter
<1>2. /\ waiting \in Seq(AliveCall) /\ waiting[i].what = "all" /\ listRead
      /\ UNCHANGED <<signedIn, listRead, enabled>> /\ UNCHANGED subscriptions
      /\ waiting' = r \o IF enabled THEN <<w>> ELSE <<>>
  BY DEF SubscribeToAll, GoesOnNow, MayGoOn, AliveInv, AliveTypeOK
<1>3. /\ r \in Seq(AliveCall) /\ Range(r) \subseteq Range(waiting)
      /\ Range(waiting) \subseteq Range(r) \cup {waiting[i]}
      /\ \A list : LastAsks(waiting, list) => LastAsks(r, list)
  <2> HIDE DEF w
  <2> QED BY <1>2, LeftCalls
<1> HIDE DEF r, w
<1>4. /\ enabled => /\ Range(waiting') = Range(r) \cup {w}
                    /\ LastAsks(waiting', signedIn) /\ Calls(waiting') # {}
      /\ ~enabled => waiting' = r
  <2>1. ASSUME enabled PROVE waiting' = Append(r, w)
    BY <1>1, <1>2, <1>3, <2>1
  <2>2. ASSUME enabled
        PROVE  /\ Range(waiting') = Range(r) \cup {w}
               /\ LastAsks(waiting', w.list) /\ Calls(waiting') # {}
    <3>1. waiting' = Append(r, w) BY <2>1, <2>2
    <3> QED BY ONLY <1>1, <1>3, <3>1, OneMoreCall
  <2>3. ~enabled => waiting' = r BY <1>2, <1>3
  <2> QED BY <1>1, <2>2, <2>3
<1>5. /\ together' = together /\ promise' = promise /\ jobs' = jobs
      /\ refused' = refused
      /\ Busy' = Busy /\ Subscribed' = Subscribed /\ Pending' = Pending
      /\ (Apart => Apart') /\ (Linked => Linked')
  BY <1>2, SubscriptionsStay
<1>6. Kinds' BY <1>1, <1>3, <1>4 DEF Kinds, AliveInv
<1>7. Unread' BY <1>2 DEF Unread
<1>8. ~together => Awaited' BY <1>1, <1>3, <1>4, <1>5 DEF Awaited, AliveInv
<1>9. ~together => Aimed'
  <2>1. CASE enabled BY <1>2, <1>4, <2>1 DEF Aimed, Wanted
  <2>2. CASE ~enabled
    <3>1. Wanted' = Wanted /\ waiting' = r
      BY <1>2, <1>4, <2>2 DEF Wanted
    <3>2. Calls(r) = {} => Calls(waiting) = {}
      BY <1>2, <1>3 DEF Calls, Range
    <3> QED BY <1>2, <1>3, <1>5, <2>2, <3>1, <3>2 DEF Aimed, AliveInv
  <2> QED BY <2>1, <2>2
<1> QED BY <1>5, <1>6, <1>7, <1>8, <1>9 DEF AliveInv

\* While one run at most is under way and calls wait for it only, the call that
\* goes on when none is under way is the first.
LEMMA FirstCall ==
  ASSUME AliveInv, ~together, ~Busy, NEW i \in DOMAIN waiting, GoesOnNow(i)
  PROVE  /\ promise = 0 /\ \A j \in Job : jobs[j] = Idling
         /\ \A w \in Range(waiting) : w.on = 0
         /\ \A k \in Calls(waiting) : i <= k
<1>1. \A j \in Job : jobs[j] = Idling BY DEF Busy
<1>2. promise = 0 BY <1>1 DEF AliveInv, Awaited, AliveTypeOK
<1>3. \A w \in Range(waiting) : w.on = 0 BY <1>2 DEF AliveInv, Awaited
<1>4. ASSUME NEW k \in Calls(waiting) PROVE i <= k
  <2>1. waiting \in Seq(AliveCall) BY DEF AliveInv, AliveTypeOK
  <2>2. /\ k \in DOMAIN waiting /\ k \in Nat /\ i \in Nat /\ 1 <= k
        /\ waiting[k].what # "all" /\ waiting[k] \in Range(waiting)
    BY <2>1 DEF Calls, Range
  <2>3. MayGoOn(waiting[k]) BY <1>3, <2>2 DEF MayGoOn
  <2>4. k \notin 1 .. i - 1 BY <2>3 DEF GoesOnNow
  <2> QED BY <2>2, <2>4
<1> QED BY <1>1, <1>2, <1>3, <1>4

LEMMA LeavingKeepsInv ==
  ASSUME AliveInv, AliveTypeOK', NEW i \in DOMAIN waiting,
         UnsubscribeFromAll(i)
  PROVE  AliveInv'
<1>1. /\ waiting \in Seq(AliveCall) /\ waiting[i].what = "leave"
      /\ GoesOnNow(i) /\ Unsubscribe(Subscribed)
      /\ waiting' = RemoveAt(waiting, i) /\ together' = (together \/ Busy)
      /\ UNCHANGED <<signedIn, listRead, refreshing, enabled, promise, jobs,
                     opened, refused>>
  BY DEF UnsubscribeFromAll, AliveInv, AliveTypeOK
<1>2. /\ Range(waiting') \subseteq Range(waiting)
      /\ Range(waiting) \subseteq Range(waiting') \cup {waiting[i]}
      /\ waiting[i].what = "all" \/ (\A k \in Calls(waiting) : i <= k) =>
           \A list : LastAsks(waiting, list) => LastAsks(waiting', list)
      /\ i \in Calls(waiting) /\ (\A k \in Calls(waiting) : i <= k)
           /\ Calls(waiting') = {} =>
           \A list : LastAsks(waiting, list) => waiting[i].list = list
  BY ONLY <1>1, i \in DOMAIN waiting, LeftCalls
<1>3. Kinds' BY <1>2 DEF Kinds, AliveInv
<1>4. Busy' = Busy BY <1>1 DEF Busy
<1>5. Asks' <=> Asks BY <1>1, <1>2 DEF Asks
<1>6. Unread'
  <2> SUFFICES ASSUME ~listRead PROVE Unread' BY <1>1 DEF Unread
  <2>1. subs = <<>> BY DEF AliveInv, Unread
  <2>2. Range(subs) = {} BY <2>1 DEF Range
  <2>3. subs' = Staying(Leaving(Subscribed)) /\ subs \in Seq(Subscription)
    BY <1>1 DEF Unsubscribe, AliveInv, AliveTypeOK
  <2>4. subs' \in Seq(Subscription) /\ Range(subs') = {}
    BY <2>2, <2>3, WhatStays
  <2>5. DOMAIN subs' = {} BY <2>4 DEF Range
  <2>6. subs' = <<>> BY <2>4, <2>5
  <2> QED BY <1>1, <1>2, <1>4, <1>5, <2>6 DEF AliveInv, Unread
<1>7. SUFFICES ASSUME ~together' PROVE Awaited' /\ Apart' /\ Linked' /\ Aimed'
  BY <1>3, <1>6 DEF AliveInv
<1>8. ~together /\ ~Busy BY <1>1, <1>7
<1>9. /\ promise = 0 /\ \A j \in Job : jobs[j] = Idling
      /\ \A w \in Range(waiting) : w.on = 0
      /\ \A k \in Calls(waiting) : i <= k
  BY <1>1, <1>8, FirstCall
<1>10. Pending = {} /\ Pending' = {} BY <1>1, <1>9 DEF Pending
<1>11. Once /\ Linked /\ OneEach(Subscribed)
  BY <1>8 DEF AliveInv, Apart, OneEach
<1>12. /\ Range(subs') = {s \in Range(subs) : s.account \notin Subscribed}
       /\ Subscribed' = {} /\ Once'
       /\ \A e \in AliveEndpoint : session'[e] # 0 => session'[e] \in online'
       /\ \A e, f \in AliveEndpoint :
            session'[e] # 0 /\ session'[e] = session'[f] => e = f
       /\ \A s \in Range(subs') :
            s.session # 0 /\ session'[s.account.endpoint] = s.session
  <2>1. AliveTypeOK /\ Subscribed \subseteq Subscribed BY DEF AliveInv
  <2>2. Subscribed \ Subscribed = {} OBVIOUS
  <2> QED BY <1>1, <1>11, <2>1, <2>2, AllLeave
<1>13. Awaited' BY <1>1, <1>2, <1>8, <1>9 DEF Awaited, AliveInv
<1>14. Apart' BY <1>1, <1>9, <1>10, <1>12 DEF Apart, OneEach
<1>15. Linked' BY <1>1, <1>9, <1>12 DEF Linked
<1>16. Aimed'
  <2> SUFFICES ASSUME listRead, ~(enabled /\ Asks) PROVE Aimed'
    BY <1>1, <1>5 DEF Aimed
  <2>1. LastAsks(waiting, Wanted) BY <1>8 DEF AliveInv, Aimed
  <2>2. Wanted' = Wanted BY <1>1 DEF Wanted
  <2>3. LastAsks(waiting', Wanted') BY <1>2, <1>9, <2>1, <2>2
  <2>4. ASSUME Calls(waiting') = {} PROVE Wanted = {}
    <3>1. i \in Calls(waiting) BY <1>1 DEF Calls
    <3>2. waiting[i].list = Wanted BY <1>2, <1>9, <2>1, <2>4, <3>1
    <3>3. waiting[i].list = {} BY <1>1 DEF AliveInv, Kinds, Range
    <3> QED BY <3>2, <3>3
  <2> QED BY <1>10, <1>12, <2>2, <2>3, <2>4 DEF Aimed
<1> QED BY <1>13, <1>14, <1>15, <1>16

LEMMA SubscribingKeepsInv ==
  ASSUME AliveInv, AliveTypeOK', NEW i \in DOMAIN waiting, NEW j \in Job,
         SubscribeToAccounts(i, j)
  PROVE  AliveInv'
<1> DEFINE r == RemoveAt(waiting, i)
           list == waiting[i].list
           todo == list \ Subscribed
<1>1. /\ waiting \in Seq(AliveCall) /\ waiting[i].what = "subscribe"
      /\ GoesOnNow(i) /\ Unsubscribe(Subscribed \ list)
      /\ Proceed(j, TRUE, todo, r) /\ together' = (together \/ Busy)
      /\ UNCHANGED <<signedIn, listRead, refreshing, enabled, opened, refused>>
  BY DEF SubscribeToAccounts, AliveInv, AliveTypeOK
<1>2. /\ r \in Seq(AliveCall) /\ Range(r) \subseteq Range(waiting)
      /\ Range(waiting) \subseteq Range(r) \cup {waiting[i]}
      /\ waiting[i].what = "all" \/ (\A k \in Calls(waiting) : i <= k) =>
           \A l : LastAsks(waiting, l) => LastAsks(r, l)
      /\ i \in Calls(waiting) /\ (\A k \in Calls(waiting) : i <= k)
           /\ Calls(r) = {} =>
           \A l : LastAsks(waiting, l) => list = l
  BY <1>1, LeftCalls
<1>3. list \in SUBSET Account /\ OneEach(list)
  <2>1. waiting[i] \in AliveCall BY <1>1
  <2> QED BY <2>1 DEF AliveCall, AliveInv, AliveTypeOK
<1> HIDE DEF r, list
<1>4. listRead /\ listRead'
  <2>1. waiting[i] \in Range(waiting) BY DEF Range
  <2> QED BY <1>1, <2>1 DEF AliveInv, Unread
<1>16. PICK rest \in SUBSET Account : rest = todo BY <1>3
<1>5. /\ SameCalls(r, waiting')
      /\ \A k \in DOMAIN r : waiting'[k].on = r[k].on \/ waiting'[k].on = 0
  <2>1. Proceed(j, TRUE, rest, r) /\ TRUE \in BOOLEAN BY <1>1, <1>16
  <2>2. Released(r, waiting', j, rest)
    <3>1. r \in Seq(AliveCall) /\ j \in Job BY <1>2
    <3> QED BY ONLY <3>1, <2>1, QueueProceeds
  <2> QED BY <2>2 DEF Released
<1>6. /\ Calls(waiting') = Calls(r)
      /\ \A l : LastAsks(r, l) => LastAsks(waiting', l)
  BY <1>5, CallsStaySame
<1>7. ASSUME NEW w \in Range(waiting')
      PROVE  \E v \in Range(waiting) : /\ w.what = v.what /\ w.list = v.list
                                       /\ w.on = v.on \/ w.on = 0
  BY <1>2, <1>5 DEF SameCalls, Range
<1>8. Kinds' BY <1>7 DEF Kinds, AliveInv
<1>9. Unread' BY <1>4 DEF Unread
<1>10. Asks => Asks'
  <2> SUFFICES ASSUME NEW v \in Range(waiting), v.what = "all" PROVE Asks'
    BY DEF Asks
  <2>1. v \in Range(r) BY <1>1, <1>2
  <2>2. PICK k \in DOMAIN r : v = r[k] BY <2>1 DEF Range
  <2>3. k \in DOMAIN waiting' /\ waiting'[k].what = "all"
    BY <1>5, <2>2 DEF SameCalls
  <2> QED BY <2>3 DEF Asks, Range
<1>11. SUFFICES ASSUME ~together'
                PROVE  Awaited' /\ Apart' /\ Linked' /\ Aimed'
  BY <1>8, <1>9 DEF AliveInv
<1>12. ~together /\ ~Busy BY <1>1, <1>11
<1>13. /\ promise = 0 /\ \A k \in Job : jobs[k] = Idling
       /\ \A w \in Range(waiting) : w.on = 0
       /\ \A k \in Calls(waiting) : i <= k
  BY <1>1, <1>12, FirstCall
<1>14. Once /\ Linked /\ OneEach(Subscribed)
  BY <1>12 DEF AliveInv, Apart, OneEach
<1>15. /\ Subscribed' = Subscribed \cap list /\ Once'
       /\ \A e \in AliveEndpoint : session'[e] # 0 => session'[e] \in online'
       /\ \A e, f \in AliveEndpoint :
            session'[e] # 0 /\ session'[e] = session'[f] => e = f
       /\ \A s \in Range(subs') :
            s.session # 0 /\ session'[s.account.endpoint] = s.session
  <2>1. AliveTypeOK /\ Subscribed \ list \subseteq Subscribed
    BY DEF AliveInv
  <2>2. Subscribed \ (Subscribed \ list) = Subscribed \cap list OBVIOUS
  <2> QED BY <1>1, <1>14, <2>1, <2>2, AllLeave
<1>23. RunIs(j, rest)'
  <2>1. /\ AliveTypeOK /\ TRUE \in BOOLEAN /\ Proceed(j, TRUE, rest, r)
        /\ \A k \in Job : k # j => jobs[k] = Idling
    BY <1>1, <1>13, <1>16 DEF AliveInv
  <2> QED BY <2>1, RunProceeds
<1>18. Awaited'
  <2>1. \A w \in Range(waiting') : w.on = 0 BY <1>7, <1>13
  <2> QED BY <1>23, <2>1 DEF Awaited, RunIs
<1>19. Subscribed' \cup Pending' = list /\ Subscribed' \cap Pending' = {}
  BY <1>15, <1>16, <1>23 DEF RunIs
<1>20. Apart' BY <1>3, <1>15, <1>19, <1>23 DEF Apart, RunIs
<1>21. Linked' BY <1>15, <1>23 DEF Linked, RunIs
<1>22. Aimed'
  <2> SUFFICES ASSUME ~(enabled /\ Asks) PROVE Aimed'
    BY <1>1, <1>10 DEF Aimed
  <2>1. LastAsks(waiting, Wanted) BY <1>4, <1>12 DEF AliveInv, Aimed
  <2>2. Wanted' = Wanted BY <1>1 DEF Wanted
  <2>3. LastAsks(waiting', Wanted') BY <1>2, <1>6, <1>13, <2>1, <2>2
  <2>4. ASSUME Calls(waiting') = {} PROVE list = Wanted
    <3>1. i \in Calls(waiting) BY <1>1 DEF Calls
    <3> QED BY <1>2, <1>6, <1>13, <2>1, <2>4, <3>1
  <2> QED BY <1>19, <2>2, <2>3, <2>4 DEF Aimed
<1> QED BY <1>18, <1>20, <1>21, <1>22

\* The run under way is the only one, and it is what is pending.
LEMMA RunUnderWay ==
  ASSUME AliveInv, ~together, NEW j \in Job, jobs[j].at # "over"
  PROVE  /\ jobs[j] # Idling /\ promise = j /\ listRead
         /\ \A k \in Job : k # j => jobs[k] = Idling
         /\ jobs[j].account \in Account /\ jobs[j].todo \in SUBSET Account
         /\ jobs[j].account \notin jobs[j].todo
         /\ Pending = {jobs[j].account} \cup jobs[j].todo
<1>1. jobs[j] # Idling BY IdlingIsOver
<1>2. promise = j BY <1>1 DEF AliveInv, Awaited
<1>3. \A k \in Job : k # j => jobs[k] = Idling BY <1>2 DEF AliveInv, Awaited
<1>4. listRead BY <1>1 DEF AliveInv, Unread, Busy
<1>5. jobs[j] \in AliveRun /\ jobs[j].account \in Account
  BY <1>1 DEF AliveInv, AliveTypeOK
<1>6. jobs[j].todo \in SUBSET Account BY <1>5 DEF AliveRun
<1>7. \A a \in Account :
        a \in Pending <=> a \in {jobs[j].account} \cup jobs[j].todo
  BY <1>1, <1>3 DEF Pending
<1>8. Pending = {jobs[j].account} \cup jobs[j].todo
  BY <1>5, <1>6, <1>7 DEF Pending
<1> QED BY <1>1, <1>2, <1>3, <1>4, <1>5, <1>6, <1>8
          DEF AliveInv, Apart

LEMMA SocketKeepsInv ==
  ASSUME AliveInv, AliveTypeOK', NEW j \in Job, Socket(j) PROVE AliveInv'
<1> DEFINE a == jobs[j].account
<1>1. /\ jobs[j].at = "socket" /\ jobs \in [Job -> AliveRun]
      /\ session \in [AliveEndpoint -> 0 .. opened] /\ opened \in Nat
      /\ UNCHANGED <<signedIn, listRead, refreshing, enabled, promise, waiting,
                     subs, refused, together>>
  BY DEF Socket, AliveInv, AliveTypeOK
<1>2. jobs[j] # Idling /\ jobs'[j] # Idling /\ jobs'[j].at = "channel"
      /\ jobs'[j].account = a /\ jobs'[j].todo = jobs[j].todo
      /\ \A k \in Job : k # j => jobs'[k] = jobs[k]
  <2>1. jobs[j] \in AliveRun BY <1>1
  <2>2. /\ jobs'[j].at = "channel" /\ jobs'[j].account = a
        /\ jobs'[j].todo = jobs[j].todo
        /\ \A k \in Job : k # j => jobs'[k] = jobs[k]
    BY <1>1, <2>1 DEF Socket, AliveRun
  <2> QED BY <1>1, <2>2, IdlingIsOver
<1>3. \A k \in Job : jobs'[k] = Idling <=> jobs[k] = Idling BY <1>2
<1>4. Busy' = Busy BY <1>2, <1>3 DEF Busy
<1>5. \A k \in Job : /\ jobs'[k].account = jobs[k].account
                     /\ jobs'[k].todo = jobs[k].todo
  BY <1>2
<1>6. Pending' = Pending BY <1>3, <1>5 DEF Pending
<1>7. Subscribed' = Subscribed BY <1>1 DEF Subscribed
<1>8. Kinds' BY <1>1 DEF Kinds, AliveInv
<1>9. Unread' BY <1>1, <1>2 DEF Unread, Busy, AliveInv
<1>10. SUFFICES ASSUME ~together
                PROVE  Awaited' /\ Apart' /\ Linked' /\ Aimed'
  BY <1>1, <1>8, <1>9 DEF AliveInv
<1>11. Awaited' BY <1>1, <1>3, <1>10 DEF Awaited, AliveInv
<1>12. Apart' BY <1>1, <1>3, <1>5, <1>6, <1>7, <1>10
  DEF Apart, Once, AliveInv
<1>13. Aimed'
  <2>1. Aimed BY <1>10 DEF AliveInv
  <2>2. Wanted' = Wanted BY <1>1 DEF Wanted
  <2>3. Asks' = Asks BY <1>1 DEF Asks
  <2> QED BY <1>1, <1>6, <1>7, <2>1, <2>2, <2>3 DEF Aimed
<1>14. /\ a \in Account /\ a.endpoint \in AliveEndpoint
       /\ \A k \in Job : k # j => jobs[k] = Idling
  <2>1. jobs[j].at # "over" BY <1>1
  <2>2. a \in Account /\ \A k \in Job : k # j => jobs[k] = Idling
    BY <1>10, <2>1, RunUnderWay
  <2> QED BY <2>2 DEF Account
<1>15. Linked /\ session[a.endpoint] = jobs[j].session /\ jobs[j].session = 0
  BY <1>1, <1>2, <1>10 DEF AliveInv, Linked
<1>16. ASSUME /\ opened' = opened + 1 /\ online' = online \cup {opened'}
              /\ session' = [session EXCEPT ![a.endpoint] = opened']
              /\ jobs' = [jobs EXCEPT ![j].at = "channel",
                                      ![j].session = opened']
       PROVE  Linked'
  <2>1. /\ session'[a.endpoint] = opened' /\ opened' # 0
        /\ \A e \in AliveEndpoint : session[e] # opened'
        /\ \A e \in AliveEndpoint :
             e # a.endpoint => session'[e] = session[e]
    BY <1>1, <1>14, <1>16
  <2>2. jobs'[j].session = opened' BY <1>1, <1>16 DEF AliveRun
  <2>3. \A e \in AliveEndpoint : session'[e] # 0 => session'[e] \in online'
    BY <1>15, <1>16, <2>1 DEF Linked
  <2>4. \A e, f \in AliveEndpoint :
          session'[e] # 0 /\ session'[e] = session'[f] => e = f
    BY <1>15, <2>1 DEF Linked
  <2>5. ASSUME NEW s \in Range(subs')
        PROVE  s.session # 0 /\ session'[s.account.endpoint] = s.session
    <3>1. s \in Range(subs) BY <1>1
    <3>2. s.session # 0 /\ session[s.account.endpoint] = s.session
      BY <1>15, <3>1 DEF Linked
    <3>3. s \in Subscription
      <4>1. subs \in Seq(Subscription) BY DEF AliveInv, AliveTypeOK
      <4> QED BY <3>1, <4>1 DEF Range
    <3>4. s.account.endpoint \in AliveEndpoint
      BY <3>3 DEF Subscription, Account
    <3>5. s.account.endpoint # a.endpoint BY <1>15, <3>2
    <3> QED BY <2>1, <3>2, <3>4, <3>5
  <2>6. ASSUME NEW k \in Job, jobs'[k] # Idling
        PROVE  /\ session'[jobs'[k].account.endpoint] = jobs'[k].session
               /\ jobs'[k].at # "socket"
    <3>1. k = j BY <1>2, <1>14, <2>6
    <3> QED BY <1>2, <2>1, <2>2, <3>1
  <2> QED BY ONLY <2>3, <2>4, <2>5, <2>6 DEF Linked
<1>17. ASSUME /\ jobs' = [jobs EXCEPT ![j].at = "channel"]
              /\ UNCHANGED <<opened, online, session>>
       PROVE  Linked'
  <2>1. jobs'[j].session = jobs[j].session BY <1>1, <1>17 DEF AliveRun
  <2>2. ASSUME NEW k \in Job, jobs'[k] # Idling
        PROVE  /\ session'[jobs'[k].account.endpoint] = jobs'[k].session
               /\ jobs'[k].at # "socket"
    <3>1. k = j BY <1>2, <1>14, <2>2
    <3> QED BY <1>2, <1>15, <1>17, <2>1, <3>1
  <2>3. session' = session /\ online' = online /\ subs' = subs BY <1>1, <1>17
  <2> QED BY <1>15, <2>2, <2>3 DEF Linked
<1>18. Linked' BY <1>16, <1>17 DEF Socket
<1> QED BY <1>11, <1>12, <1>13, <1>18

LEMMA ChannelKeepsInv ==
  ASSUME AliveInv, AliveTypeOK', NEW j \in Job, Channel(j) PROVE AliveInv'
<1> DEFINE a == jobs[j].account
           s == [account |-> a, session |-> jobs[j].session]
<1>1. /\ jobs[j].at = "channel" /\ waiting \in Seq(AliveCall)
      /\ subs \in Seq(Subscription) /\ session' = session
      /\ Proceed(j, FALSE, jobs[j].todo, waiting)
      /\ UNCHANGED <<signedIn, listRead, refreshing, enabled, opened, online,
                     together>>
  BY DEF Channel, AliveInv, AliveTypeOK
<1>2. \/ /\ jobs[j].session # 0 /\ subs' = Append(subs, s)
         /\ refused' = refused \ {a}
      \/ subs' = subs /\ refused' = refused \cup {a}
  BY DEF Channel
<1>3. jobs[j] # Idling /\ jobs[j].at # "over" BY <1>1, IdlingIsOver
<1>4. listRead /\ listRead' BY <1>1, <1>3 DEF AliveInv, Unread, Busy
<1>5. jobs[j] \in AliveRun /\ a \in Account
  BY <1>3 DEF AliveInv, AliveTypeOK
<1>6. PICK todo \in SUBSET Account : todo = jobs[j].todo
  BY <1>5 DEF AliveRun
<1>7. Released(waiting, waiting', j, todo)
  <2>1. Proceed(j, FALSE, todo, waiting) /\ FALSE \in BOOLEAN BY <1>1, <1>6
  <2> QED BY ONLY <1>1, <2>1, j \in Job, QueueProceeds
<1>8. /\ Calls(waiting') = Calls(waiting)
      /\ \A l : LastAsks(waiting, l) => LastAsks(waiting', l)
  BY <1>7, CallsStaySame DEF Released
<1>9. ASSUME NEW w \in Range(waiting')
      PROVE  \E v \in Range(waiting) :
               /\ w.what = v.what /\ w.list = v.list
               /\ (w.on = 0 \/ (w.on = v.on /\ (todo = {} => v.on # j)))
  <2>1. PICK k \in DOMAIN waiting' : w = waiting'[k] BY DEF Range
  <2>2. k \in DOMAIN waiting /\ waiting[k] \in Range(waiting)
    BY <1>7, <2>1 DEF Released, SameCalls, Range
  <2>3. /\ w.what = waiting[k].what /\ w.list = waiting[k].list
        /\ (w.on = 0 \/ (w.on = waiting[k].on
                          /\ (todo = {} => waiting[k].on # j)))
    BY <1>7, <2>1, <2>2 DEF Released, SameCalls
  <2> QED BY <2>2, <2>3
<1>10. Asks => Asks' BY <1>7 DEF Released, SameCalls, Range, Asks
<1>11. Kinds' BY <1>9 DEF Kinds, AliveInv
<1>12. Unread' BY <1>4 DEF Unread
<1>13. SUFFICES ASSUME ~together
                PROVE  Awaited' /\ Apart' /\ Linked' /\ Aimed'
  BY <1>1, <1>11, <1>12 DEF AliveInv
<1>14. /\ promise = j /\ \A k \in Job : k # j => jobs[k] = Idling
       /\ a \notin todo /\ Pending = {a} \cup todo
  BY <1>3, <1>6, <1>13, RunUnderWay
<1>15. RunIs(j, todo)'
  <2>1. /\ AliveTypeOK /\ FALSE \in BOOLEAN /\ promise = j
        /\ Proceed(j, FALSE, todo, waiting)
        /\ \A k \in Job : k # j => jobs[k] = Idling
    BY <1>1, <1>6, <1>14 DEF AliveInv
  <2> QED BY <2>1, RunProceeds
<1>16. Awaited'
  <2>1. ASSUME NEW w \in Range(waiting') PROVE w.on \in {0, promise'}
    <3>1. PICK v \in Range(waiting) :
            w.on = 0 \/ (w.on = v.on /\ (todo = {} => v.on # j))
      BY <1>9
    <3>2. v.on \in {0, j} BY <1>13, <1>14 DEF AliveInv, Awaited
    <3>3. todo # {} => promise' = j BY <1>15 DEF RunIs
    <3> QED BY <3>1, <3>2, <3>3
  <2> QED BY <1>15, <2>1 DEF Awaited, RunIs
<1>17. Apart /\ Linked BY <1>13 DEF AliveInv
<1>18. /\ Subscribed' \subseteq Subscribed \cup {a}
       /\ Subscribed \subseteq Subscribed'
       /\ (a \in Subscribed' \/ (a \in refused' /\ Subscribed' = Subscribed))
       /\ refused \ {a} \subseteq refused' /\ Once'
       /\ \A x \in Range(subs') :
            x.session # 0 /\ session'[x.account.endpoint] = x.session
  <2>1. CASE /\ jobs[j].session # 0 /\ subs' = Append(subs, s)
             /\ refused' = refused \ {a}
    <3>1. s \in Subscription BY <1>5 DEF Subscription, AliveRun
    <3>2. s.account = a /\ s.session = jobs[j].session OBVIOUS
    <3> HIDE DEF s
    <3>3. /\ DOMAIN subs = 1 .. Len(subs) /\ Len(subs) \in Nat
          /\ DOMAIN subs' = 1 .. Len(subs) + 1
          /\ \A i \in 1 .. Len(subs) : subs'[i] = subs[i]
          /\ subs'[Len(subs) + 1] = s
      BY <1>1, <2>1, <3>1
    <3>4. \A i \in DOMAIN subs' : (i \in DOMAIN subs /\ subs'[i] = subs[i])
                                  \/ (i = Len(subs) + 1 /\ subs'[i] = s)
      BY <3>3
    <3>5. Range(subs') = Range(subs) \cup {s}
      <4>1. \A i \in DOMAIN subs : i \in DOMAIN subs' /\ subs'[i] = subs[i]
        BY <3>3
      <4>2. s \in Range(subs')
        <5>1. Len(subs) + 1 \in DOMAIN subs' BY <3>3
        <5> QED BY <3>3, <5>1 DEF Range
      <4> QED BY <3>4, <4>1, <4>2 DEF Range
    <3>6. Subscribed' = Subscribed \cup {a} BY <3>2, <3>5 DEF Subscribed
    <3>7. a \notin Subscribed BY <1>14, <1>17 DEF Apart
    <3>8. \A i \in DOMAIN subs : subs[i].account # a
      BY <3>7 DEF Subscribed, Range
    <3>9. Once' BY <1>17, <3>2, <3>4, <3>8 DEF Apart, Once
    <3>10. session[a.endpoint] = s.session /\ s.session # 0
      BY <1>3, <1>17, <2>1, <3>2 DEF Linked
    <3>11. \A x \in Range(subs') :
             x.session # 0 /\ session'[x.account.endpoint] = x.session
      BY <1>1, <1>17, <3>2, <3>5, <3>10 DEF Linked
    <3> QED BY <2>1, <3>6, <3>9, <3>11
  <2>2. CASE subs' = subs /\ refused' = refused \cup {a}
    <3>1. Subscribed' = Subscribed BY <2>2 DEF Subscribed
    <3>2. Once' BY <1>17, <2>2 DEF Apart, Once
    <3>3. \A x \in Range(subs') :
            x.session # 0 /\ session'[x.account.endpoint] = x.session
      BY <1>1, <1>17, <2>2 DEF Linked
    <3>4. a \in refused' /\ refused \ {a} \subseteq refused' BY <2>2
    <3> QED BY <3>1, <3>2, <3>3, <3>4
  <2> QED BY <1>2, <2>1, <2>2
<1>19. Pending' = todo BY <1>15 DEF RunIs
<1>20. /\ Subscribed' \cup Pending' \subseteq Subscribed \cup Pending
       /\ Subscribed' \cap Pending' = {}
  BY <1>14, <1>17, <1>18, <1>19 DEF Apart
<1>21. Apart' BY <1>15, <1>17, <1>18, <1>20 DEF Apart, OneEach, RunIs
<1>22. Linked' BY <1>1, <1>15, <1>17, <1>18 DEF Linked, RunIs
<1>23. Aimed'
  <2> SUFFICES ASSUME ~(enabled /\ Asks) PROVE Aimed'
    BY <1>1, <1>10 DEF Aimed
  <2>1. Aimed /\ Wanted' = Wanted BY <1>1, <1>13 DEF AliveInv, Wanted
  <2>2. LastAsks(waiting', Wanted') BY <1>4, <1>8, <2>1 DEF Aimed
  <2>3. ASSUME Calls(waiting') = {}
        PROVE  /\ Subscribed' \cup Pending' \subseteq Wanted'
               /\ Wanted' \ refused' \subseteq Subscribed' \cup Pending'
    <3>1. /\ Subscribed \cup Pending \subseteq Wanted
          /\ Wanted \ refused \subseteq Subscribed \cup Pending
      BY <1>4, <1>8, <2>1, <2>3 DEF Aimed
    <3>2. ASSUME NEW x \in Wanted, x \notin refused'
          PROVE  x \in Subscribed' \cup Pending'
      BY <1>14, <1>18, <1>19, <3>1, <3>2
    <3> QED BY <1>20, <2>1, <3>1, <3>2
  <2> QED BY <2>2, <2>3 DEF Aimed
<1> QED BY <1>16, <1>21, <1>22, <1>23

LEMMA AliveInvNext ==
  ASSUME AliveConstants, AliveInv, [AliveNext]_avVars PROVE AliveInv'
<1>0. AliveTypeOK' BY AliveNextTypes DEF AliveInv
<1>1. CASE UNCHANGED avVars
  <2>1. UNCHANGED subscriptions BY <1>1 DEF avVars, subscriptions
  <2>2. /\ UNCHANGED <<signedIn, listRead, refreshing, enabled, waiting>>
    BY <1>1 DEF avVars
  <2>3. /\ together' = together /\ promise' = promise /\ jobs' = jobs
        /\ refused' = refused /\ subs' = subs
        /\ Busy' = Busy /\ Subscribed' = Subscribed /\ Pending' = Pending
        /\ (Apart => Apart') /\ (Linked => Linked')
    BY <2>1, SubscriptionsStay DEF subscriptions
  <2>4. Asks' = Asks /\ Wanted' = Wanted BY <2>2 DEF Asks, Wanted
  <2>5. Kinds' /\ Unread' BY <2>2, <2>3, <2>4 DEF Kinds, Unread, AliveInv
  <2>6. ~together => Awaited' /\ Aimed'
    BY <2>2, <2>3, <2>4 DEF Awaited, Aimed, AliveInv
  <2> QED BY <1>0, <2>3, <2>5, <2>6 DEF AliveInv
<1>2. CASE LoadFromStore BY <1>0, <1>2, LoadKeepsInv
<1>3. ASSUME NEW a \in Account, SignsIn(a) \/ SignsOut(a) PROVE AliveInv'
  <2>1. /\ AtRest /\ listRead /\ Emit(signedIn', 1) /\ 1 \in Nat /\ 1 # 0
        /\ UNCHANGED <<listRead, enabled, subscriptions>>
    BY <1>3 DEF SignsIn, SignsOut, HasRoom
  <2> QED BY <1>0, <2>1, ListIsTold
<1>4. CASE EndRefreshing
  <2>1. /\ AtRest /\ Emit(signedIn', 2) /\ refreshing.at = "under way"
        /\ UNCHANGED <<listRead, enabled, subscriptions>>
    BY ONLY <1>4 DEF EndRefreshing, HasRoom
  <2>2. listRead
    <3>1. Unread BY DEF AliveInv
    <3>2. refreshing.at # "not begun" BY <2>1
    <3> QED BY <3>1, <3>2 DEF Unread
  <2>3. 2 \in Nat /\ 2 # 0 OBVIOUS
  <2> QED BY <1>0, <2>1, <2>2, <2>3, ListIsTold
<1>5. CASE BeginRefreshing
  <2>1. /\ UNCHANGED <<signedIn, listRead, enabled, waiting>> /\ listRead
        /\ UNCHANGED subscriptions
    BY <1>5 DEF BeginRefreshing
  <2>2. /\ together' = together /\ promise' = promise /\ jobs' = jobs
        /\ refused' = refused
        /\ Busy' = Busy /\ Subscribed' = Subscribed /\ Pending' = Pending
        /\ (Apart => Apart') /\ (Linked => Linked')
    BY <2>1, SubscriptionsStay
  <2>3. Asks' = Asks /\ Wanted' = Wanted BY <2>1 DEF Asks, Wanted
  <2>4. Kinds' /\ Unread' BY <2>1 DEF Kinds, Unread, AliveInv
  <2>5. ~together => Awaited' /\ Aimed'
    BY <2>1, <2>2, <2>3 DEF Awaited, Aimed, AliveInv
  <2> QED BY <1>0, <2>2, <2>4, <2>5 DEF AliveInv
<1>6. CASE SetEnabled BY <1>0, <1>6, SettingKeepsInv
<1>7. ASSUME NEW i \in DOMAIN waiting, NEW j \in Job, SubscribeToAccounts(i, j)
      PROVE  AliveInv'
  BY <1>0, <1>7, SubscribingKeepsInv
<1>8. ASSUME NEW i \in DOMAIN waiting, SubscribeToAll(i) PROVE AliveInv'
  BY <1>0, <1>8, AskingKeepsInv
<1>9. ASSUME NEW i \in DOMAIN waiting, UnsubscribeFromAll(i) PROVE AliveInv'
  BY <1>0, <1>9, LeavingKeepsInv
<1>10. ASSUME NEW j \in Job, Socket(j) PROVE AliveInv'
  BY <1>0, <1>10, SocketKeepsInv
<1>11. ASSUME NEW j \in Job, Channel(j) PROVE AliveInv'
  BY <1>0, <1>11, ChannelKeepsInv
<1> QED BY <1>1, <1>2, <1>3, <1>4, <1>5, <1>6, <1>7, <1>8, <1>9, <1>10, <1>11
    DEF AliveNext

LEMMA AimIsReached == ASSUME AliveInv PROVE SubscribedAsListed
<1> SUFFICES ASSUME ~Busy, waiting = <<>>, listRead, ~together
             PROVE  /\ Subscribed \subseteq Wanted
                    /\ Wanted \ refused \subseteq Subscribed
                    /\ \A i, k \in DOMAIN subs :
                         subs[i].account = subs[k].account => i = k
                    /\ \A s \in Range(subs) :
                         /\ s.session \in online
                         /\ session[s.account.endpoint] = s.session
  BY DEF SubscribedAsListed, Wanted
<1>1. Range(waiting) = {} BY DEF Range
<1>2. ~Asks /\ Calls(waiting) = {} BY <1>1 DEF Asks, Calls, Range
<1>3. Pending = {} BY DEF Pending, Busy
<1>4. Aimed /\ Apart /\ Linked BY DEF AliveInv
<1>5. ASSUME NEW s \in Range(subs) PROVE s.account.endpoint \in AliveEndpoint
  <2>1. subs \in Seq(Subscription) BY DEF AliveInv, AliveTypeOK
  <2>2. s \in Subscription BY <2>1 DEF Range
  <2> QED BY <2>2 DEF Subscription, Account
<1>6. \A s \in Range(subs) : /\ s.session \in online
                             /\ session[s.account.endpoint] = s.session
  BY <1>4, <1>5 DEF Linked
<1> QED BY <1>2, <1>3, <1>4, <1>6 DEF Aimed, Apart, Once

\* However the list and the setting change, and whatever GitHub refuses, once
\* all is quiet the accounts of the list are subscribed, each over the session
\* of its endpoint (alive-store.ts:118-150), unless two runs overlapped.
THEOREM ListIsSubscribed ==
  ASSUME AliveConstants PROVE AliveSpec => []SubscribedAsListed
<1>1. AliveInit => AliveInv BY AliveInvInit
<1>2. AliveInv /\ [AliveNext]_avVars => AliveInv' BY AliveInvNext
<1>3. AliveInv => SubscribedAsListed BY AimIsReached
<1> QED BY <1>1, <1>2, <1>3, PTL DEF AliveSpec
=============================================================================
