------------------------------ MODULE MCDialogs -----------------------------
(* What goes on while a dialog asks the user something: the network          *)
(* operations, a sign-in, and a checkout with changes that may be stashed;   *)
(* and the subscriptions that follow the accounts signed in.  The four share *)
(* no state: `turn` says which of them a behaviour is about, and the others  *)
(* stand still.                                                              *)
EXTENDS NetworkOps, SignIn, Stashing, AliveStore, TLC

ASSUME SignInConstants /\ StashingConstants /\ AliveConstants

VARIABLE turn
allVars == <<turn, vars, siVars, stVars, avVars>>

\* Two accounts of one endpoint, of which one is signed in at a time; and one
\* of each of two endpoints.
Lists == [other |-> [endpoint : {DotCom}, id : UserId],
          both  |-> [endpoint : AliveEndpoint,
                     id : {CHOOSE i \in UserId : TRUE}]]

\* The others are where they begin.
DialogsInit ==
  /\ turn \in {"operations", "sign-in", "stash"} \cup DOMAIN Lists
  /\ Init /\ SignInInit /\ StashingInit /\ AliveInit
  /\ turn # "operations" =>
       /\ kind = [o \in Op |-> "fetch"]
       /\ policy = [r \in Repo |-> [b \in Branch |-> "unset"]]
  /\ turn # "sign-in" => accounts = {}
  /\ turn # "stash" => strategy = "ask" /\ head = CHOOSE b \in Target : TRUE
  /\ IF turn \in DOMAIN Lists THEN signedIn \subseteq Lists[turn]
     ELSE signedIn = {} /\ ~enabled

Operates(X) == turn = "operations" /\ X
               /\ UNCHANGED <<turn, siVars, stVars, avVars>>
SigningIn(X) == turn = "sign-in" /\ X
                /\ UNCHANGED <<turn, vars, stVars, avVars>>
Stashes(X) == turn = "stash" /\ X
              /\ UNCHANGED <<turn, vars, siVars, avVars>>
Follows(X) == turn \in DOMAIN Lists /\ X /\ signedIn' \subseteq Lists[turn]
              /\ UNCHANGED <<turn, vars, siVars, stVars>>

DialogsNext == \/ Operates(Next) \/ SigningIn(SignInNext)
               \/ Stashes(StashingNext) \/ Follows(AliveNext)

DialogsSpec == DialogsInit /\ [][DialogsNext]_allVars

Symmetry == Permutations(Op)
=============================================================================
