--------------------------- MODULE Sweeps_proofs ----------------------------
(* Theorems about Sweeps, for any repositories and any number of sweeps     *)
(* under way at a time.                                                     *)
EXTENDS Sweeps, FiniteSetTheorems, TLAPS

\* What a sweep is when it is not idle.
Busy == [who : Sweeper, at : {"held", "refresh", "fetch", "paused"},
         repo : Repo \cup {Nothing}, left : SUBSET Repo]
Task == {e \in Busy : e.at \in {"refresh", "fetch"} => e.repo \in Repo}

\* The variables keep their types, and a sweep that works is about somebody.
Inv ==
  /\ enabled \in [Sweeper -> BOOLEAN] /\ focus \in BOOLEAN
  /\ starts \in [Sweeper -> 0 .. MaxStarts]
  /\ clockSet \in [Sweeper -> BOOLEAN]
  /\ \A s \in Sweeper : clockSet[s] => enabled[s]
  /\ sweep \in [Slot -> Task \cup {Idle}]
  /\ selection \in Repo \cup {Nothing} /\ list \subseteq Repo
  /\ changed \in [Repo -> Changes] /\ shown \in [Repo -> Changes]
  /\ seen \in [Repo -> Changes] /\ cooling \in BOOLEAN
  /\ unseen \subseteq Repo /\ severed \in [Sweeper -> BOOLEAN]

LEMMA IdleIsNotBusy == Idle \notin Task /\ \A e \in Task : e.who \in Sweeper
  BY DEF Idle, Task, Busy

\* Where a sweep of `who` goes: on to a repository, or to its end.
LEMMA Proceeding ==
  ASSUME Inv, NEW i \in Slot, NEW who \in Sweeper, NEW left \in SUBSET Repo,
         NEW clock, Proceed(i, who, left, clock)
  PROVE  \/ /\ enabled[who] /\ clockSet' = clock
            /\ \E e \in Task : e.who = who /\ sweep' = [sweep EXCEPT ![i] = e]
         \/ /\ sweep' = [sweep EXCEPT ![i] = Idle]
            /\ clockSet' = Scheduled(who, clock)
<1> DEFINE ahead == IF who = "indicators" THEN Swept \ left ELSE left
           rest(r) == IF who = "indicators" THEN left ELSE left \ {r}
<1>1. CASE /\ enabled[who] /\ clockSet' = clock
           /\ \E r \in ahead : Put(i, who, "refresh", r, rest(r))
  <2>1. PICK r \in ahead : Put(i, who, "refresh", r, rest(r)) BY <1>1
  <2> DEFINE e == [who |-> who, at |-> "refresh", repo |-> r, left |-> rest(r)]
  <2>2. r \in Repo BY <2>1 DEF Swept, Inv
  <2>3. e \in Task BY <2>2 DEF Task, Busy
  <2>4. sweep' = [sweep EXCEPT ![i] = e] BY <2>1 DEF Put
  <2> QED BY <1>1, <2>3, <2>4
<1>2. CASE End(i) /\ clockSet' = Scheduled(who, clock)
  BY <1>2 DEF End
<1> QED BY <1>1, <1>2 DEF Proceed

\* One step of the sweep i, of `s`: it goes on, or ends, and may leave a timer.
Moves(i, s, clock) ==
  \/ clockSet' = clock /\ \E e \in Task : e.who = s
                                           /\ sweep' = [sweep EXCEPT ![i] = e]
  \/ /\ sweep' = [sweep EXCEPT ![i] = Idle]
     /\ clockSet' = clock \/ clockSet' = Scheduled(s, clock)

LEMMA SweepMoves ==
  ASSUME Inv, NEW i \in Slot, Sweep(i) \/ Reject(i)
  PROVE  /\ sweep[i] # Idle /\ sweep[i] \in Task
         /\ Moves(i, sweep[i].who, clockSet)
<1> DEFINE s == sweep[i].who
<1>1. sweep[i].at # "idle"
  BY DEF Sweep, BeginHeld, ReadStatus, Refreshed, Polled, Resume, Reject
<1>2. sweep[i] # Idle /\ sweep[i] \in Task /\ s \in Sweeper
      /\ sweep[i].left \subseteq Repo
  BY <1>1 DEF Inv, Idle, Task, Busy
<1>3. ASSUME NEW left \in SUBSET Repo, Proceed(i, s, left, clockSet)
      PROVE  Moves(i, s, clockSet)
  BY <1>2, <1>3, Proceeding DEF Moves
<1>4. ASSUME End(i), UNCHANGED clockSet PROVE Moves(i, s, clockSet)
  BY <1>4 DEF End, Moves
<1>5. ASSUME GoOn(i), sweep[i].at = "fetch" PROVE Moves(i, s, clockSet)
  <2> DEFINE left == IF s = "indicators" THEN sweep[i].left \cup {sweep[i].repo}
                                         ELSE sweep[i].left
  <2>1. left \subseteq Repo BY <1>2, <1>5 DEF Task
  <2>2. CASE focus BY <1>3, <1>5, <2>1, <2>2 DEF GoOn
  <2>3. CASE ~focus
    <3> DEFINE e == [who |-> s, at |-> "paused", repo |-> Nothing,
                     left |-> left]
    <3>1. e \in Task BY <1>2, <2>1 DEF Task, Busy
    <3>2. sweep' = [sweep EXCEPT ![i] = e] /\ clockSet' = clockSet
      BY <1>5, <2>3 DEF GoOn, Put
    <3> QED BY <3>1, <3>2 DEF Moves
  <2> QED BY <2>2, <2>3
<1>6. CASE BeginHeld(i)
  <2>1. First(s) \subseteq Repo BY DEF First, Swept, Inv
  <2> QED BY <1>2, <1>3, <1>4, <1>6, <2>1 DEF BeginHeld
<1>7. CASE ReadStatus(i)
  <2> DEFINE e == [sweep[i] EXCEPT !.at = "fetch"]
  <2>1. e \in Task /\ e.who = s BY <1>2, <1>7 DEF ReadStatus, Task, Busy
  <2>2. sweep' = [sweep EXCEPT ![i] = e] /\ clockSet' = clockSet
    BY <1>7 DEF ReadStatus
  <2> HIDE DEF e
  <2> QED BY <1>2, <2>1, <2>2 DEF Moves
<1>8. CASE Refreshed(i) BY <1>2, <1>5, <1>8 DEF Refreshed
<1>9. CASE Polled(i) BY <1>2, <1>5, <1>9 DEF Polled
<1>10. CASE Resume(i) BY <1>2, <1>3, <1>4, <1>10 DEF Resume
<1>11. CASE Reject(i) BY <1>2, <1>4, <1>11 DEF Reject
<1> QED BY <1>2, <1>6, <1>7, <1>8, <1>9, <1>10, <1>11 DEF Sweep

\* The timer of s clears, and a slot that was idle begins a sweep of s.
LEMMA TimerMoves ==
  ASSUME Inv, NEW s \in Sweeper, TimerFires(s)
  PROVE  /\ clockSet[s]
         /\ \E i \in Slot : /\ sweep[i] = Idle
                            /\ Moves(i, s, [clockSet EXCEPT ![s] = FALSE])
<1> DEFINE cleared == [clockSet EXCEPT ![s] = FALSE]
<1>1. PICK i \in Slot :
        /\ Vacant(i)
        /\ IF focus THEN Proceed(i, s, First(s), cleared)
                    ELSE /\ Put(i, s, "held", Nothing, {})
                         /\ clockSet' = cleared
  BY DEF TimerFires
<1>2. CASE focus
  <2>1. First(s) \subseteq Repo BY DEF First, Swept, Inv
  <2> QED BY <1>1, <1>2, <2>1, Proceeding DEF TimerFires, Vacant, Moves
<1>3. CASE ~focus
  <2> DEFINE e == [who |-> s, at |-> "held", repo |-> Nothing, left |-> {}]
  <2>1. e \in Task BY DEF Task, Busy
  <2>2. sweep' = [sweep EXCEPT ![i] = e] /\ clockSet' = cleared
    BY <1>1, <1>3 DEF Put
  <2> QED BY <1>1, <2>1, <2>2 DEF TimerFires, Vacant, Moves
<1> QED BY <1>2, <1>3

-----------------------------------------------------------------------------
(* Types.                                                                   *)

LEMMA MovesTypes ==
  ASSUME Inv, NEW i \in Slot, NEW s \in Sweeper, NEW clock,
         clock \in {clockSet, [clockSet EXCEPT ![s] = FALSE]},
         Moves(i, s, clock), enabled' = enabled
  PROVE  /\ sweep' \in [Slot -> Task \cup {Idle}]
         /\ clockSet' \in [Sweeper -> BOOLEAN]
         /\ \A t \in Sweeper : clockSet'[t] => enabled'[t]
<1>1. sweep' \in [Slot -> Task \cup {Idle}] BY DEF Moves, Inv
<1>2. /\ clock \in [Sweeper -> BOOLEAN]
      /\ \A t \in Sweeper : clock[t] => enabled[t]
  BY DEF Inv
<1>3. clockSet' = clock \/ clockSet' = [clock EXCEPT ![s] = @ \/ enabled[s]]
  BY DEF Moves, Scheduled
<1> QED BY <1>1, <1>2, <1>3 DEF Inv

LEMMA InitInv == SweepsInit => Inv
<1> SUFFICES ASSUME SweepsInit PROVE Inv OBVIOUS
<1>1. 0 \in Changes BY SweepsOK DEF Changes
<1>2. starts \in [Sweeper -> 0 .. MaxStarts]
  <2>1. 0 \in 0 .. MaxStarts /\ 1 \in 0 .. MaxStarts BY SweepsOK
  <2> QED BY <2>1 DEF SweepsInit
<1>3. severed \in [Sweeper -> BOOLEAN] BY DEF SweepsInit
<1> QED BY <1>1, <1>2, <1>3 DEF SweepsInit, Inv

LEMMA StepInv ==
  ASSUME Inv, [SweepsNext]_sweepVars
  PROVE  Inv'
<1>1. ASSUME NEW s \in Sweeper, TurnOn(s) PROVE Inv'
  <2>1. starts["indicators"] + starts["autoSwitch"] < MaxStarts
        /\ starts["indicators"] \in Nat /\ starts["autoSwitch"] \in Nat
    BY <1>1 DEF TurnOn, Inv, Sweeper
  <2>2. starts[s] + 1 \in 0 .. MaxStarts
    BY <2>1, SweepsOK DEF Sweeper
  <2> QED BY <1>1, <2>2 DEF TurnOn, Inv, repos, views
<1>2. ASSUME NEW s \in Sweeper, TurnOff(s) PROVE Inv'
  BY <1>2 DEF TurnOff, Inv, repos, views
<1>3. ASSUME NEW s \in Sweeper, TimerFires(s) PROVE Inv'
  <2>1. /\ sweep' \in [Slot -> Task \cup {Idle}]
        /\ clockSet' \in [Sweeper -> BOOLEAN]
        /\ \A t \in Sweeper : clockSet'[t] => enabled'[t]
    BY <1>3, TimerMoves, MovesTypes DEF TimerFires, setting
  <2> QED BY <1>3, <2>1 DEF TimerFires, Inv, setting, repos, views
<1>4. ASSUME NEW to \in BOOLEAN, SetFocus(to) PROVE Inv'
  BY <1>4 DEF SetFocus, Inv, setting, repos, views
<1>5. ASSUME NEW i \in Slot, Sweep(i) \/ Reject(i) PROVE Inv'
  <2> DEFINE s == sweep[i].who
  <2>1. s \in Sweeper /\ sweep[i].repo \in Repo \cup {Nothing}
        /\ (sweep[i].at \in {"refresh", "fetch"} => sweep[i].repo \in Repo)
    BY <1>5, SweepMoves DEF Task, Busy
  <2>2. enabled' = enabled /\ starts' = starts /\ focus' = focus
    BY <1>5 DEF Sweep, BeginHeld, ReadStatus, Refreshed, Polled, Resume,
                Reject, setting
  <2>3. /\ sweep' \in [Slot -> Task \cup {Idle}]
        /\ clockSet' \in [Sweeper -> BOOLEAN]
        /\ \A t \in Sweeper : clockSet'[t] => enabled'[t]
    BY <1>5, <2>1, <2>2, SweepMoves, MovesTypes
  <2> HIDE DEF s
  <2>4. CASE BeginHeld(i) \/ Refreshed(i) \/ Resume(i)
    BY <2>2, <2>3, <2>4 DEF BeginHeld, Refreshed, Resume, Inv, repos, views
  <2>5. CASE ReadStatus(i)
    BY <2>1, <2>2, <2>3, <2>5 DEF ReadStatus, Inv, repos, views
  <2>6. CASE Polled(i)
    BY <2>1, <2>2, <2>3, <2>6 DEF Polled, Inv
  <2>7. CASE Reject(i)
    <3>1. sweep[i].who \in Sweeper BY <2>1 DEF s
    <3> QED BY <3>1, <2>2, <2>3, <2>7 DEF Reject, Inv, repos, views
  <2> QED BY <1>5, <2>4, <2>5, <2>6, <2>7 DEF Sweep
<1>6. ASSUME NEW r \in Repo, UserSelects(r) PROVE Inv'
  BY <1>6 DEF UserSelects, Inv, setting, views
<1>7. ASSUME NEW r \in Repo, Remove(r) PROVE Inv'
  BY <1>7 DEF Remove, Inv, setting, views
<1>8. ASSUME NEW r \in Repo, NEW n \in Changes, Work(r, n) PROVE Inv'
  BY <1>8 DEF Work, Inv, setting
<1>9. CASE RefreshSelected
  BY <1>9 DEF RefreshSelected, Inv, setting, repos
<1>10. CASE CoolDown BY <1>10 DEF CoolDown, Inv, setting, repos
<1>11. CASE UNCHANGED sweepVars
  BY <1>11 DEF sweepVars, Inv, setting, repos, views
<1> QED BY <1>1, <1>2, <1>3, <1>4, <1>5, <1>6, <1>7, <1>8, <1>9, <1>10,
           <1>11 DEF SweepsNext, sweepVars

\* The variables keep their types, and a timer is set only of a sweeper that
\* is started.
THEOREM TypeCorrect == SweepsSpec => []SweepsTypeOK
<1>1. Inv => SweepsTypeOK
  BY DEF Inv, SweepsTypeOK, Task, Busy, Idle
<1> QED BY <1>1, InitInv, StepInv, PTL DEF SweepsSpec

-----------------------------------------------------------------------------
(* The chains of timers and sweeps.                                         *)

Finite == \A s \in Sweeper : /\ IsFiniteSet(Under(s))
                             /\ Cardinality(Under(s)) \in Nat

LEMMA UnderIsFinite == Finite
<1> SUFFICES ASSUME NEW s \in Sweeper
             PROVE  IsFiniteSet(Under(s)) /\ Cardinality(Under(s)) \in Nat
  BY DEF Finite
<1>1. IsFiniteSet(Slot) BY SweepsOK, FS_Interval DEF Slot
<1>2. Under(s) \subseteq Slot BY DEF Under
<1>3. IsFiniteSet(Under(s)) BY <1>1, <1>2, FS_Subset
<1> QED BY <1>3, FS_CardinalityType

LEMMA OtherChains ==
  ASSUME Inv, NEW i \in Slot, NEW s \in Sweeper, NEW t \in Sweeper \ {s},
         sweep[i].who \in {s, "none"}, sweep'[i].who \in {s, "none"},
         \A j \in Slot \ {i} : sweep'[j] = sweep[j], clockSet'[t] = clockSet[t]
  PROVE  Chains(t)' = Chains(t)
<1>1. Under(t)' = Under(t) BY DEF Under, Sweeper
<1> QED BY <1>1 DEF Chains

\* What a step does to the slots and to the timers.
LEMMA MovedSlots ==
  ASSUME Inv, NEW i \in Slot, NEW s \in Sweeper, NEW clock, Moves(i, s, clock),
         clock \in {clockSet, [clockSet EXCEPT ![s] = FALSE]}
  PROVE  /\ \A j \in Slot \ {i} : sweep'[j] = sweep[j]
         /\ \A t \in Sweeper \ {s} : clockSet'[t] = clockSet[t]
         /\ \/ sweep'[i].who = s /\ clockSet' = clock
            \/ sweep'[i].who = "none"
<1>1. \A j \in Slot \ {i} : sweep'[j] = sweep[j]
  BY DEF Moves, Inv
<1>2. \/ sweep'[i].who = s /\ clockSet' = clock
      \/ sweep'[i].who = "none"
  BY DEF Moves, Inv, Idle
<1>3. \A t \in Sweeper \ {s} : clock[t] = clockSet[t]
  BY DEF Inv
<1>4. \A t \in Sweeper \ {s} : clockSet'[t] = clock[t]
  BY DEF Moves, Scheduled, Inv
<1> QED BY <1>1, <1>2, <1>3, <1>4

\* A sweep of s that goes on or ends makes no chain longer.
LEMMA SweepChains ==
  ASSUME Inv, NEW i \in Slot, sweep[i] \in Task,
         Moves(i, sweep[i].who, clockSet), NEW t \in Sweeper
  PROVE  Chains(t)' =< Chains(t)
<1> DEFINE s == sweep[i].who
<1>1. s \in Sweeper /\ s # "none" BY DEF Task, Busy, Sweeper
<1>2. /\ \A j \in Slot \ {i} : sweep'[j] = sweep[j]
      /\ \A u \in Sweeper \ {s} : clockSet'[u] = clockSet[u]
      /\ \/ sweep'[i].who = s /\ clockSet' = clockSet
         \/ sweep'[i].who = "none"
  BY <1>1, MovedSlots
<1>3. \A u \in Sweeper : IsFiniteSet(Under(u)) /\ Cardinality(Under(u)) \in Nat
  BY UnderIsFinite DEF Finite
<1>4. CASE t # s
  <2>1. Chains(t)' = Chains(t) BY <1>1, <1>2, <1>4, OtherChains
  <2> QED BY <1>3, <2>1 DEF Chains
<1>5. CASE t = s /\ sweep'[i].who = s /\ clockSet' = clockSet
  <2>1. Under(t)' = Under(t) BY <1>2, <1>5 DEF Under
  <2> QED BY <1>3, <1>5, <2>1 DEF Chains
<1>6. CASE t = s /\ sweep'[i].who = "none"
  <2>1. Under(t)' = Under(t) \ {i} /\ i \in Under(t)
    BY <1>1, <1>2, <1>6 DEF Under
  <2>2. Cardinality(Under(t)') = Cardinality(Under(t)) - 1
    BY <1>3, <2>1, FS_RemoveElement
  <2> QED BY <1>3, <2>2 DEF Chains
<1> QED BY <1>2, <1>4, <1>5, <1>6

\* Nor does a timer that fires.
LEMMA TimerChains ==
  ASSUME Inv, NEW i \in Slot, NEW s \in Sweeper, sweep[i] = Idle, clockSet[s],
         Moves(i, s, [clockSet EXCEPT ![s] = FALSE]), NEW t \in Sweeper
  PROVE  Chains(t)' =< Chains(t)
<1>1. sweep[i].who = "none" /\ s # "none" BY DEF Idle, Sweeper
<1>2. /\ \A j \in Slot \ {i} : sweep'[j] = sweep[j]
      /\ \A u \in Sweeper \ {s} : clockSet'[u] = clockSet[u]
      /\ \/ sweep'[i].who = s /\ clockSet' = [clockSet EXCEPT ![s] = FALSE]
         \/ sweep'[i].who = "none"
  BY MovedSlots
<1>3. \A u \in Sweeper : IsFiniteSet(Under(u)) /\ Cardinality(Under(u)) \in Nat
  BY UnderIsFinite DEF Finite
<1>4. CASE t # s
  <2>1. Chains(t)' = Chains(t) BY <1>1, <1>2, <1>4, OtherChains
  <2> QED BY <1>3, <2>1 DEF Chains
<1>5. CASE t = s /\ sweep'[i].who = s
           /\ clockSet' = [clockSet EXCEPT ![s] = FALSE]
  <2>1. Under(t)' = Under(t) \cup {i} /\ i \notin Under(t)
    BY <1>1, <1>2, <1>5 DEF Under
  <2>2. Cardinality(Under(t)') = Cardinality(Under(t)) + 1
    BY <1>3, <2>1, FS_AddElement
  <2>3. ~clockSet'[t] BY <1>5 DEF Inv
  <2> QED BY <1>3, <1>5, <2>2, <2>3 DEF Chains
<1>6. CASE t = s /\ sweep'[i].who = "none"
  <2>1. Under(t)' = Under(t) BY <1>1, <1>2, <1>6 DEF Under
  <2> QED BY <1>3, <1>6, <2>1 DEF Chains
<1> QED BY <1>2, <1>4, <1>5, <1>6

LEMMA StepChains ==
  ASSUME Inv, OneChainAStart, [SweepsNext]_sweepVars
  PROVE  OneChainAStart'
<1> SUFFICES ASSUME NEW t \in Sweeper PROVE Chains(t)' =< starts'[t]
  BY DEF OneChainAStart
<1>1. /\ Cardinality(Under(t)) \in Nat /\ starts[t] \in Nat
      /\ Chains(t) \in Nat /\ Chains(t) =< starts[t]
  BY UnderIsFinite, SweepsOK DEF Finite, Chains, OneChainAStart, Inv
<1>2. ASSUME starts' = starts, Chains(t)' =< Chains(t), Chains(t)' \in Nat
      PROVE  Chains(t)' =< starts'[t]
  BY <1>1, <1>2
<1>3. ASSUME UNCHANGED <<starts, clockSet, sweep>>
      PROVE  Chains(t)' =< starts'[t]
  BY <1>1, <1>3 DEF Chains, Under
<1>4. Chains(t)' \in Nat
  <2>1. Inv' BY StepInv
  <2>2. Finite' BY <2>1, UnderIsFinite, PTL
  <2> QED BY <2>2 DEF Finite, Chains
<1>5. ASSUME NEW s \in Sweeper, TurnOn(s) PROVE Chains(t)' =< starts'[t]
  <2>1. Under(t)' = Under(t) BY <1>5 DEF TurnOn, Under
  <2>2. CASE t = s
    <3>1. ~clockSet[s] /\ starts'[t] = starts[t] + 1
      BY <1>5, <2>2 DEF TurnOn, Inv
    <3> QED BY <1>1, <2>1, <2>2, <3>1 DEF Chains
  <2>3. CASE t # s
    <3>1. clockSet'[t] = clockSet[t] /\ starts'[t] = starts[t]
      BY <1>5, <2>3 DEF TurnOn, Inv
    <3> QED BY <1>1, <2>1, <3>1 DEF Chains
  <2> QED BY <2>2, <2>3
<1>6. ASSUME NEW s \in Sweeper, TurnOff(s) PROVE Chains(t)' =< starts'[t]
  <2>1. /\ Under(t)' = Under(t) /\ starts' = starts
        /\ clockSet'[t] => clockSet[t]
    BY <1>6 DEF TurnOff, Under, Inv
  <2> QED BY <1>1, <2>1 DEF Chains
<1>7. ASSUME NEW s \in Sweeper, TimerFires(s) PROVE Chains(t)' =< starts'[t]
  <2>1. Chains(t)' =< Chains(t) BY <1>7, TimerMoves, TimerChains
  <2> QED BY <1>2, <1>4, <1>7, <2>1 DEF TimerFires, setting
<1>8. ASSUME NEW i \in Slot, Sweep(i) \/ Reject(i)
      PROVE  Chains(t)' =< starts'[t]
  <2>1. Chains(t)' =< Chains(t) BY <1>8, SweepMoves, SweepChains
  <2>2. starts' = starts
    BY <1>8 DEF Sweep, BeginHeld, ReadStatus, Refreshed, Polled, Resume,
                Reject, setting
  <2> QED BY <1>2, <1>4, <2>1, <2>2
<1>9. ASSUME NEW to \in BOOLEAN, SetFocus(to) PROVE Chains(t)' =< starts'[t]
  BY <1>3, <1>9 DEF SetFocus, setting
<1>10. ASSUME NEW r \in Repo, NEW n \in Changes,
              UserSelects(r) \/ Remove(r) \/ Work(r, n)
       PROVE  Chains(t)' =< starts'[t]
  BY <1>3, <1>10 DEF UserSelects, Remove, Work, setting
<1>11. CASE RefreshSelected \/ CoolDown \/ UNCHANGED sweepVars
  BY <1>3, <1>11 DEF RefreshSelected, CoolDown, sweepVars, setting
<1>12. ASSUME NEW r \in Repo, UserSelects(r) \/ Remove(r)
       PROVE  Chains(t)' =< starts'[t]
  BY <1>3, <1>12 DEF UserSelects, Remove, setting
<1> QED BY <1>5, <1>6, <1>7, <1>8, <1>9, <1>10, <1>11, <1>12
        DEF SweepsNext, sweepVars

\* However the settings, the focus and the selection change during sweeps that
\* may fail, a sweeper has no more timers and sweeps than it was started.
THEOREM ChainsAreStarted == SweepsSpec => []OneChainAStart
<1>1. SweepsInit => OneChainAStart
  <2> SUFFICES ASSUME SweepsInit, NEW s \in Sweeper
               PROVE  Chains(s) =< starts[s]
    BY DEF OneChainAStart
  <2>1. Under(s) = {} BY DEF SweepsInit, Under, Idle, Sweeper
  <2>2. Cardinality(Under(s)) = 0 BY <2>1, FS_EmptySet
  <2> QED BY <2>2 DEF Chains, SweepsInit
<1> QED BY <1>1, InitInv, StepInv, StepChains, PTL DEF SweepsSpec
=============================================================================
