----------------------------- MODULE AheadBehind -----------------------------
(***************************************************************************)
(* AheadBehindStore: views ask how far two commits are apart; git works it *)
(* out for a limited number of calls at a time, once for a range, and the  *)
(* answer, or its failure, is kept.  A view that goes away disposes of its *)
(* call, which then must not be answered, and keeps its place in the       *)
(* limiter until git is done all the same.                                 *)
(***************************************************************************)
EXTENDS Naturals, FiniteSets

CONSTANTS RevRange, Call,
          NoRange,
          MaxConcurrent  \* of the limiter, 3 in the code

AheadBehindConstants == NoRange \notin RevRange /\ MaxConcurrent \in Nat \ {0}

VARIABLES
  memo,     \* the cache: "absent", "failed" (null) or "known", of each range
  worker,   \* the ranges git is working on
  call,     \* each call of getAheadBehind, and its range
  disposed, \* the calls whose Disposable was disposed
  answered  \* the calls whose callback was called

abVars == <<memo, worker, call, disposed, answered>>

At(at, range) == [at |-> at, range |-> range]
Unmade == At("unmade", NoRange)

AheadBehindInit ==
  /\ memo = [r \in RevRange |-> "absent"] /\ worker = {}
  /\ call = [c \in Call |-> Unmade] /\ disposed = {} /\ answered = {}

\* Mutant: nobody looks who has been disposed of.
MutantTell(calls, result) ==
  answered' = IF result = "known" THEN answered \cup calls ELSE answered
\* The callbacks of the calls not disposed of, if there is an answer.
Tell(calls, result) ==
  answered' = IF result = "known" THEN answered \cup (calls \ disposed)
                                  ELSE answered

\* getAheadBehind: a known range is answered at once, a failed one is not
\* tried again, and any other waits for the limiter.
GetAheadBehind(c, r) ==
  /\ call[c] = Unmade
  /\ call' = [call EXCEPT ![c] =
                At(IF memo[r] = "absent" THEN "limited" ELSE "over", r)]
  /\ Tell({c}, memo[r])
  /\ UNCHANGED <<memo, worker, disposed>>

\* Mutant: a call that is disposed of leaves the limiter.
MutantDispose(c) ==
  /\ call[c] # Unmade /\ c \notin disposed /\ disposed' = disposed \cup {c}
  /\ call' = [call EXCEPT ![c].at = "over"]
  /\ UNCHANGED <<memo, worker, answered>>
\* The Disposable.
Dispose(c) ==
  /\ call[c] # Unmade /\ c \notin disposed /\ disposed' = disposed \cup {c}
  /\ UNCHANGED <<memo, worker, call, answered>>

Waiting == {c \in Call : call[c].at = "waiting"}

\* The limiter lets a call in, which finds an answer there after all, or waits
\* for git, which may be at it already.
Enter(c) ==
  LET r == call[c].range
      wait == memo[r] = "absent" /\ c \notin disposed
  IN /\ call[c].at = "limited" /\ Cardinality(Waiting) < MaxConcurrent
     /\ call' = [call EXCEPT ![c] = At(IF wait THEN "waiting" ELSE "over", r)]
     /\ worker' = IF wait THEN worker \cup {r} ELSE worker
     /\ Tell({c}, memo[r])
     /\ UNCHANGED <<memo, disposed>>

\* git ends: the worker and every call that waits for it.
GitEnds(r) ==
  LET mine == {c \in Waiting : call[c].range = r}
  IN /\ r \in worker /\ worker' = worker \ {r}
     /\ \E result \in {"known", "failed"} :
          memo' = [memo EXCEPT ![r] = result] /\ Tell(mine, result)
     /\ call' = [c \in Call |-> IF c \in mine THEN At("over", r) ELSE call[c]]
     /\ UNCHANGED disposed

\* The LRU cache drops a range.
Forget(r) ==
  /\ memo[r] # "absent" /\ memo' = [memo EXCEPT ![r] = "absent"]
  /\ UNCHANGED <<worker, call, disposed, answered>>

AheadBehindNext ==
  \/ \E c \in Call : \/ \E r \in RevRange : GetAheadBehind(c, r)
                     \/ Dispose(c) \/ Enter(c)
  \/ \E r \in RevRange : GitEnds(r) \/ Forget(r)

AheadBehindSpec == AheadBehindInit /\ [][AheadBehindNext]_abVars

-----------------------------------------------------------------------------
(* Properties.                                                             *)

AheadBehindTypeOK ==
  /\ memo \in [RevRange -> {"absent", "failed", "known"}]
  /\ worker \subseteq RevRange
  /\ call \in [Call -> [at : {"unmade", "limited", "waiting", "over"},
                        range : RevRange \cup {NoRange}]]
  /\ disposed \subseteq Call /\ answered \subseteq Call
  /\ worker = {call[c].range : c \in Waiting}

\* Never more git processes than the limiter allows, though calls are disposed
\* of, share processes, and ask again for what the cache dropped.
BoundedGit == Cardinality(worker) =< MaxConcurrent

\* What a caller is promised: DisposableCalls.
Promise == INSTANCE DisposableCalls WITH
             made <- {c \in Call : call[c] # Unmade},
             open <- {c \in Call : call[c].at \in {"limited", "waiting"}}

\* Each call comes to an end, answered at most once, and never after it was
\* disposed of, however the calls share git and the limiter.
PromiseKept == Promise!DisposableSpec
=============================================================================
