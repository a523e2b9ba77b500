---------------------------- MODULE MCNetworkOps ----------------------------
(* NetworkOps on small sets, for TLC.  Calls are alike, which a liveness     *)
(* property cannot tell TLC by a symmetry; so of the calls of a behaviour    *)
(* the first is taken to be of a kind that comes first.                      *)
EXTENDS NetworkOps

Order == <<"push", "pull", "submodule", "batch", "fetch", "indicator">>
Rank(k) == CHOOSE i \in DOMAIN Order : Order[i] = k

LiveInit == /\ Init
            /\ LET first == CHOOSE o \in Op : TRUE
               IN \A o \in Op : Rank(kind[first]) <= Rank(kind[o])

LiveSpec == LiveInit /\ [][Next]_vars /\ Fairness
=============================================================================
