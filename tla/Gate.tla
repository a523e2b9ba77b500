-------------------------------- MODULE Gate --------------------------------
(***************************************************************************)
(* What withPushPullFetch promises: a gate per cache entry.  A call is let *)
(* in when nobody is inside under its key, and comes out under the key it  *)
(* went in with; nobody waits.                                             *)
(***************************************************************************)
CONSTANTS Key, Op

VARIABLE inside  \* the calls inside, each with its key

Init == inside = {}

Enter(k, o) ==
  /\ \A e \in inside : e[1] # k /\ e[2] # o
  /\ inside' = inside \cup {<<k, o>>}

Exit(e) == e \in inside /\ inside' = inside \ {e}

Next == \/ \E k \in Key, o \in Op : Enter(k, o)
        \/ \E e \in inside : Exit(e)

Spec == Init /\ [][Next]_inside
=============================================================================
