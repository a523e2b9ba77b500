-------------------------- MODULE DisposableCalls ---------------------------
(***************************************************************************)
(* What a caller with a callback and a Disposable is promised: his call    *)
(* ends some time, with an answer or without, and is not answered once he  *)
(* has disposed of it.                                                     *)
(***************************************************************************)
CONSTANT Call

VARIABLES made, open, disposed, answered

callVars == <<made, open, disposed, answered>>

\* A call is made, and may be over at once.
Make(c) ==
  /\ c \notin made /\ made' = made \cup {c}
  /\ \/ open' = open \cup {c} /\ UNCHANGED answered
     \/ answered' \in {answered, answered \cup {c}} /\ UNCHANGED open
  /\ UNCHANGED disposed

\* Open calls are over, and told of an answer or not.
End(over) ==
  /\ over # {} /\ over \subseteq open /\ open' = open \ over
  /\ answered' \in {answered, answered \cup (over \ disposed)}
  /\ UNCHANGED <<made, disposed>>

DisposeOf(c) ==
  /\ c \in made \ disposed /\ disposed' = disposed \cup {c}
  /\ UNCHANGED <<made, open, answered>>

CallsInit == made = {} /\ open = {} /\ disposed = {} /\ answered = {}

CallsNext == \/ \E c \in Call : Make(c) \/ DisposeOf(c)
             \/ \E over \in SUBSET open : End(over)

DisposableSpec ==
  /\ CallsInit /\ [][CallsNext]_callVars
  /\ \A c \in Call : WF_callVars(\E over \in SUBSET open :
                                   c \in over /\ End(over))
=============================================================================
