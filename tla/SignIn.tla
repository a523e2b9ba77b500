------------------------------- MODULE SignIn -------------------------------
(***************************************************************************)
(* SignInStore and AccountsStore: the steps of a sign-in, by browser or by *)
(* token, and the accounts it ends in.  A session is a caller that began a *)
(* sign-in and waits for its resultCallback to be called; the store has    *)
(* room for the state of one, and whoever begins another cancels it.       *)
(*                                                                         *)
(* What a suspended call kept of the state is `from`.  An attempt of the   *)
(* browser is known by its CSRF token, here the how-manieth it is.  Errors *)
(* shown in a step, addresses that are none, and who is signed in at an    *)
(* endpoint, make no difference here.                                      *)
(***************************************************************************)
EXTENDS Naturals

CONSTANTS Endpoint, DotCom, Nowhere,
          MaxSessions, \* bound: callers
          MaxTasks,    \* room for suspended calls
          MaxTokens    \* bound: attempts of the browser

SignInConstants ==
  /\ DotCom \in Endpoint /\ Nowhere \notin Endpoint
  /\ Endpoint \cap {"new", "waiting", "cancelled"} = {}
  /\ MaxSessions \in Nat /\ MaxTasks \in Nat /\ MaxTokens \in Nat

VARIABLES
  state,    \* of SignInStore
  answer,   \* what each caller was told first
  task,     \* the suspended calls
  tokens,   \* how many tokens there were
  accounts, \* of AccountsStore, and the copy of SignInStore
  adding,   \* the accounts on their way to the keychain
  astray,   \* history: a call wrote over a state that was not the one it left,
            \* or a caller was sent on although it was told `cancelled`
  back,     \* history: the tokens the browser came back with
  threw     \* history: the request for the user of an attempt threw

Session == 1 .. MaxSessions  \* in the order they begin
Nobody == 0
Task == 1 .. MaxTasks
siVars == <<state, answer, task, tokens, accounts, adding, astray, back,
            threw>>

Stage(kind, session, endpoint, loading, token, settled) ==
  [kind |-> kind, session |-> session, endpoint |-> endpoint,
   loading |-> loading, token |-> token, settled |-> settled]
NoState == Stage("none", Nobody, Nowhere, FALSE, 0, TRUE)
Idle == [at |-> "idle", from |-> NoState]

SignInInit ==
  /\ state = NoState /\ answer = [s \in Session |-> "new"]
  /\ task = [t \in Task |-> Idle] /\ tokens = 0
  /\ accounts \in SUBSET Endpoint /\ adding = {}
  /\ astray = FALSE /\ back = {} /\ threw = FALSE

-----------------------------------------------------------------------------
\* resultCallback, of the state there is now; only the first call of one tells
\* its caller something.
Tell(what) ==
  [s \in Session |-> IF s = state.session /\ answer[s] = "waiting"
                     THEN what ELSE answer[s]]

\* The step a session is offered for an endpoint.
Offered(s, e) ==
  IF e \in accounts THEN Stage("existing", s, e, FALSE, 0, TRUE)
  ELSE Stage("authentication", s, e, FALSE, 0, TRUE)

\* A call is suspended, in the first place there is, with what it kept.
Suspend(t, at, from) ==
  /\ task[t] = Idle /\ \A u \in Task : u < t => task[u] # Idle
  /\ task' = [task EXCEPT ![t] = [at |-> at, from |-> from]]
Only(e, token) == Stage("none", Nobody, e, FALSE, token, TRUE)
Ended(t) == [task EXCEPT ![t] = Idle]
GoesOn(t, at) == task' = [task EXCEPT ![t].at = at]
\* A suspended call writes the state, which may not be the one it left.
Strays(t) ==
  astray' = (astray \/ state # [task[t].from EXCEPT !.loading = TRUE])

\* Mutant: the caller is not told.
MutantReset ==
  /\ state # NoState /\ state' = NoState
  /\ UNCHANGED <<answer, task, tokens, accounts, adding, astray, back, threw>>
\* reset; the promise of the browser is rejected too, which nobody hears.
Reset ==
  /\ state # NoState
  /\ answer' = Tell("cancelled") /\ state' = NoState
  /\ UNCHANGED <<task, tokens, accounts, adding, astray, back, threw>>

\* beginDotComSignIn (e = DotCom) and beginEnterpriseSignIn (Nowhere).
Begin(s, e) ==
  /\ answer[s] = "new" /\ \A r \in Session : r < s => answer[r] # "new"
  /\ answer' = [Tell("cancelled") EXCEPT ![s] = "waiting"]
  /\ state' = IF e = DotCom THEN Offered(s, DotCom)
              ELSE Stage("endpoint", s, Nowhere, FALSE, 0, TRUE)
  /\ UNCHANGED <<task, tokens, accounts, adding, astray, back, threw>>

\* setEndpoint.  github.com begins another sign-in for the same caller, and
\* that cancels this one first.
SetsEndpoint(e) ==
  /\ state' = Offered(state.session, e)
  /\ answer' = IF e = DotCom THEN Tell("cancelled") ELSE answer
  /\ astray' = (astray \/ e = DotCom)

EnterEndpoint(e) ==
  /\ state.kind = "endpoint" /\ SetsEndpoint(e)
  /\ UNCHANGED <<task, tokens, accounts, adding, back, threw>>

-----------------------------------------------------------------------------
(* By browser.                                                             *)

\* The Promise of authenticateWithBrowser, for what it kept of the state.
Opens(from) ==
  /\ tokens < MaxTokens /\ tokens' = tokens + 1
  /\ state' = Stage("authentication", from.session, from.endpoint, TRUE,
                   tokens', FALSE)

TokenInFlight ==
  \E t \in Task : task[t].at = "token" /\ task[t].from.session = state.session

\* authenticateWithBrowser up to its await, or as a whole.  The form of the
\* welcome flow can be submitted again; the dialog, which also takes tokens,
\* is off while it is loading.
AuthenticateWithBrowser(t) ==
  /\ state.kind \in {"authentication", "existing"} /\ ~TokenInFlight
  /\ IF state.kind = "existing" /\ state.endpoint \in accounts
     THEN /\ Suspend(t, "remove", state)
          /\ state' = [state EXCEPT !.loading = TRUE]
          /\ UNCHANGED tokens
     ELSE Opens(state) /\ UNCHANGED task
  /\ UNCHANGED <<answer, accounts, adding, astray, back, threw>>

\* The account that was there is removed, or the keychain fails; then
\* authenticateWithBrowser goes on.
RemovedForBrowser(t) ==
  /\ task[t].at = "remove"
  /\ accounts' \in {accounts, accounts \ {task[t].from.endpoint}}
  /\ Opens(task[t].from) /\ Strays(t)
  /\ task' = Ended(t)
  /\ UNCHANGED <<answer, adding, back, threw>>

\* The dialog does it in another order: it removes the account, withdraws its
\* token, and then sets the endpoint.
ConfirmExisting(t) ==
  /\ state.kind = "existing" /\ ~state.loading
  /\ Suspend(t, "confirm", Only(state.endpoint, 0))
  /\ UNCHANGED <<state, answer, tokens, accounts, adding, astray, back, threw>>

RemovedForDialog(t) ==
  /\ task[t].at = "confirm"
  /\ accounts' \in {accounts, accounts \ {task[t].from.endpoint}}
  /\ GoesOn(t, "withdraw")
  /\ UNCHANGED <<state, answer, tokens, adding, astray, back, threw>>

\* setEndpoint is a fatalError in any other step.
Withdrawn(t) ==
  /\ task[t].at = "withdraw"
  /\ task' = Ended(t)
  /\ IF state.kind \in {"endpoint", "existing"}
     THEN SetsEndpoint(task[t].from.endpoint)
     ELSE UNCHANGED <<state, answer, astray>>
  /\ UNCHANGED <<tokens, accounts, adding, back, threw>>

\* resolveOAuthRequest up to its first await: the browser comes back, once or
\* more often, for the attempt that is on.
ComeBack(t) ==
  /\ state.kind = "authentication" /\ state.token # 0
  /\ Suspend(t, "exchange", Only(state.endpoint, state.token))
  /\ back' = back \cup {state.token}
  /\ UNCHANGED <<state, answer, tokens, accounts, adding, astray, threw>>

\* requestOAuthToken answers.
Exchanged(t) ==
  /\ task[t].at = "exchange" /\ GoesOn(t, "user")
  /\ UNCHANGED <<state, answer, tokens, accounts, adding, astray, back, threw>>

\* this.state.oauthState, whose promise is open.
Open == state.kind = "authentication" /\ state.token # 0 /\ ~state.settled

\* Mutant: the sign-in that is on is not told.
MutantExchangeFails(t) ==
  /\ task[t].at = "exchange" /\ task' = Ended(t)
  /\ UNCHANGED <<state, answer, tokens, accounts, adding, astray, back, threw>>
\* It has no token: onAuthError, of the state there is now.
ExchangeFails(t) ==
  /\ task[t].at = "exchange" /\ task' = Ended(t)
  /\ state' = IF Open THEN [state EXCEPT !.settled = TRUE, !.loading = FALSE]
              ELSE state
  /\ UNCHANGED <<answer, tokens, accounts, adding, astray, back, threw>>

\* emitAuthenticate, for an account of endpoint e.
Authenticated(e) == answer' = Tell(e) /\ adding' = adding \cup {e}

Succeeds(from) ==
  state' = Stage("success", from.session, Nowhere, FALSE, 0, TRUE)

\* fetchUser answers: onAuthCompleted, of the state there is now.
UserFetched(t) ==
  /\ task[t].at = "user" /\ task' = Ended(t)
  /\ IF Open THEN Authenticated(task[t].from.endpoint) /\ Succeeds(state)
             ELSE UNCHANGED <<state, answer, adding>>
  /\ UNCHANGED <<tokens, accounts, astray, back, threw>>

\* fetchUser throws, out of resolveOAuthRequest.
UserFails(t) ==
  /\ task[t].at = "user" /\ task' = Ended(t) /\ threw' = TRUE
  /\ UNCHANGED <<state, answer, tokens, accounts, adding, astray, back>>

-----------------------------------------------------------------------------
(* By token, and the accounts.                                             *)

AuthenticateWithToken(t) ==
  /\ state.kind = "authentication" /\ ~state.loading
  /\ Suspend(t, "token", state)
  /\ state' = [state EXCEPT !.loading = TRUE]
  /\ UNCHANGED <<answer, tokens, accounts, adding, astray, back, threw>>

TokenAnswered(t) ==
  /\ task[t].at = "token" /\ task' = Ended(t)
  /\ Authenticated(task[t].from.endpoint) /\ Strays(t)
  /\ Succeeds(task[t].from)
  /\ UNCHANGED <<tokens, accounts, back, threw>>

TokenRejected(t) ==
  /\ task[t].at = "token" /\ task' = Ended(t)
  /\ state' = task[t].from /\ Strays(t)
  /\ UNCHANGED <<answer, tokens, accounts, adding, back, threw>>

\* addAccount, when the keychain has the token, or has none.
AddAccount(e) ==
  /\ e \in adding /\ adding' = adding \ {e}
  /\ accounts' \in {accounts, accounts \cup {e}}
  /\ UNCHANGED <<state, answer, task, tokens, astray, back, threw>>

\* The user signs out, or a token is invalidated: removeAccount.
RemoveAccount(e) ==
  /\ e \in accounts /\ accounts' = accounts \ {e}
  /\ UNCHANGED <<state, answer, task, tokens, adding, astray, back, threw>>

-----------------------------------------------------------------------------
Exchange(t) == \/ Exchanged(t) \/ ExchangeFails(t)
               \/ UserFetched(t) \/ UserFails(t)
Asked(t) == TokenAnswered(t) \/ TokenRejected(t)

SignInNext ==
  \/ Reset
  \/ \E s \in Session, e \in {DotCom, Nowhere} : Begin(s, e)
  \/ \E e \in Endpoint : EnterEndpoint(e) \/ AddAccount(e) \/ RemoveAccount(e)
  \/ \E t \in Task : \/ AuthenticateWithBrowser(t) \/ RemovedForBrowser(t)
                     \/ ConfirmExisting(t) \/ RemovedForDialog(t)
                     \/ Withdrawn(t)
                     \/ ComeBack(t) \/ Exchange(t)
                     \/ AuthenticateWithToken(t) \/ Asked(t)

SignInSpec == SignInInit /\ [][SignInNext]_siVars

-----------------------------------------------------------------------------
StepKind == {"none", "endpoint", "existing", "authentication", "success"}
Stages == [kind : StepKind, session : Session \cup {Nobody},
           endpoint : Endpoint \cup {Nowhere}, loading : BOOLEAN,
           token : 0 .. MaxTokens, settled : BOOLEAN]

\* A step past the entry of an endpoint has one, and a step of a dialog has a
\* session.
Whole(step) ==
  /\ step.kind \in {"existing", "authentication"} => step.endpoint \in Endpoint
  /\ step.kind \in {"endpoint", "existing", "authentication"}
       => step.session \in Session

\* The variables have the shape the actions rely on, and a suspended call kept
\* a step that it may go on from.
SignInTypeOK ==
  /\ state \in Stages /\ Whole(state) /\ tokens \in 0 .. MaxTokens
  /\ answer \in [Session -> Endpoint \cup {"new", "waiting", "cancelled"}]
  /\ task \in [Task -> [at : {"idle", "remove", "confirm", "withdraw",
                               "exchange", "user", "token"}, from : Stages]]
  /\ \A t \in Task :
       /\ Whole(task[t].from)
       /\ task[t].at = "remove" => task[t].from.kind = "existing"
       /\ task[t].at = "token" => task[t].from.kind = "authentication"
       /\ task[t].at # "idle" => task[t].from.endpoint \in Endpoint
  /\ accounts \subseteq Endpoint /\ adding \subseteq Endpoint
  /\ astray \in BOOLEAN /\ threw \in BOOLEAN
  /\ back \subseteq 1 .. MaxTokens

On == state.kind \in {"endpoint", "existing", "authentication"}

\* Whoever waits for a sign-in has it on the screen, and is the only one who
\* does, so that cancelling or ending it answers him; unless a call wrote
\* over a state that was not the one it left.
OneWaiter ==
  astray \/ {s \in Session : answer[s] = "waiting"}
              = IF On THEN {state.session} ELSE {}

InFlight(k) == \E t \in Task : /\ task[t].at \in {"exchange", "user"}
                               /\ task[t].from.token = k

\* Once the browser came back, an attempt is not left open, and shown as
\* loading, without a request that may still end it; unless the one for the
\* user threw.
NobodyHangs == threw \/ (Open /\ state.token \in back => InFlight(state.token))

\* "Clear any in-flight sign in state": an account only comes in while a
\* sign-in for its endpoint is on.
SignsInWhatIsAsked ==
  [][\A e \in Endpoint : e \in adding' \ adding
       => state.kind = "authentication" /\ state.endpoint = e]_siVars
=============================================================================
