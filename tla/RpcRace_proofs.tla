--------------------------- MODULE RpcRace_proofs ---------------------------
(***************************************************************************)
(* What the races guarantee for any pool of endpoints, any number of       *)
(* callers and overlapping races, and any fanouts, retries and promotion.  *)
(***************************************************************************)
EXTENDS RpcRace, FiniteSetTheorems, TLAPS

\* Only the last winner has wins in a row.
EarnedInv ==
  /\ StickyEarned /\ StickyHealthy
  /\ \A e \in Endpoints : e # sticky => streak[e] = 0

\* A caller that races holds a race of its own.
SlotInv ==
  /\ \A k \in Callers :
       at[k] = "race" => slot[k] \in Slots /\ phase[slot[k]] = "race"
  /\ \A k, m \in Callers :
       at[k] = "race" /\ at[m] = "race" /\ slot[k] = slot[m] => k = m

\* The loop has taken all results but those still to come, and then its
\* drainer takes these.
Counts ==
  \A r \in Slots :
    /\ phase[r] = "race" => started[r] = taken[r] + Cardinality(Unreceived(r))
    /\ phase[r] = "drain" => due[r] = Cardinality(Unreceived(r))

IInv == TypeOK /\ EarnedInv /\ SlotInv /\ Counts

\* What a race step leaves alone of an endpoint's record.
Recorded(e) == RecordWin(e) \/ RecordFail(e) \/ UNCHANGED pool

\* A race's channel: the results still to come are counted in Nat.
LEMMA UnreceivedCount ==
  ASSUME TypeOK, NEW r \in Slots
  PROVE  /\ IsFiniteSet(Unreceived(r)) /\ Cardinality(Unreceived(r)) \in Nat
         /\ \A e \in Unreceived(r) :
              Cardinality(Unreceived(r) \ {e}) = Cardinality(Unreceived(r)) - 1
<1>1. IsFiniteSet(Unreceived(r))
  BY FS_Subset, ConfigAssumption DEF Unreceived
<1> QED
  BY <1>1, FS_CardinalityType, FS_RemoveElement

\* Taking a result takes the endpoint, and it alone, out of the channel.
LEMMA TookOne ==
  ASSUME TypeOK, NEW r \in Slots, NEW e \in Endpoints, Took(r, e),
         racers[r][e] # "none"
  PROVE  /\ racers' \in [Slots -> [Endpoints -> {"none", "run"} \cup Results]]
         /\ e \in Unreceived(r)
         /\ Unreceived(r)' = Unreceived(r) \ {e}
         /\ \A s \in Slots : s # r => Unreceived(s)' = Unreceived(s)
BY DEF Took, TypeOK, Unreceived

\* Recording keeps the record's types and what the sticky endpoint earned.
LEMMA RecordKeeps ==
  ASSUME TypeOK, EarnedInv, NEW e \in Endpoints, Recorded(e)
  PROVE  /\ wins' \in [Endpoints -> Nat] /\ streak' \in [Endpoints -> Nat]
         /\ breaker' \in [Endpoints -> {"zero", "open", "past"}]
         /\ sticky' \in Endpoints \cup {None} /\ live' \in BOOLEAN
         /\ EarnedInv'
<1>1. CASE RecordWin(e)
  BY <1>1, NoneAssumption DEF RecordWin, TypeOK, EarnedInv, StickyEarned, StickyHealthy
<1>2. CASE RecordFail(e)
  BY <1>2, NoneAssumption DEF RecordFail, TypeOK, EarnedInv, StickyEarned, StickyHealthy
<1>3. CASE UNCHANGED pool
  BY <1>3 DEF pool, TypeOK, EarnedInv, StickyEarned, StickyHealthy
<1> QED
  BY <1>1, <1>2, <1>3 DEF Recorded

\* Racers are endpoints, as many as raceOnce counts.
LEMMA PicksCount ==
  ASSUME TypeOK, NEW P \in Picks
  PROVE  P \subseteq Endpoints /\ Cardinality(P) \in Nat
<1>1. Healthy \subseteq Endpoints /\ Candidates \subseteq Endpoints
  BY DEF Candidates, Healthy
<1>2. P \subseteq Endpoints
  BY <1>1 DEF Picks, Samples
<1> QED
  BY <1>2, FS_Subset, FS_CardinalityType, ConfigAssumption

LEMMA InitInv == Init => IInv
<1> SUFFICES ASSUME Init PROVE IInv
  OBVIOUS
<1>1. TypeOK
  BY ConfigAssumption DEF Init, TypeOK
<1>2. EarnedInv /\ SlotInv /\ Counts
  BY DEF Init, EarnedInv, StickyEarned, StickyHealthy, SlotInv, Counts
<1> QED
  BY <1>1, <1>2 DEF IInv

\* The call starts, its budget ends, time passes.
LEMMA QuietSteps ==
  ASSUME IInv,
         \/ \E k \in Callers : StartCall(k) \/ BudgetEnds(k)
         \/ \E e \in Endpoints : BreakerPasses(e)
         \/ StickyExpires \/ Quiet \/ UNCHANGED vars
  PROVE  IInv'
<1>1. ASSUME NEW k \in Callers, StartCall(k) \/ BudgetEnds(k)
      PROVE  IInv'
  <2>1. UNCHANGED <<pool, race>>
    BY <1>1 DEF StartCall, BudgetEnds, race
  <2>2. EarnedInv' /\ Counts'
    BY <2>1 DEF pool, race, loop, IInv, EarnedInv, StickyEarned, StickyHealthy,
                Counts, Unreceived
  <2>3. CASE StartCall(k)
    <3>1. TypeOK'
      BY <2>1, <2>3 DEF StartCall, pool, race, loop, IInv, TypeOK
    <3>2. SlotInv'
      BY <2>1, <2>3 DEF StartCall, race, loop, IInv, TypeOK, SlotInv
    <3> QED
      BY <2>2, <3>1, <3>2 DEF IInv
  <2>4. CASE BudgetEnds(k)
    <3>1. TypeOK'
      BY <2>1, <2>4 DEF BudgetEnds, Return, pool, race, loop, IInv, TypeOK
    <3>2. SlotInv'
      BY <2>1, <2>4 DEF BudgetEnds, Return, race, loop, IInv, TypeOK, SlotInv
    <3> QED
      BY <2>2, <3>1, <3>2 DEF IInv
  <2> QED
    BY <1>1, <2>3, <2>4
<1>2. ASSUME NEW e \in Endpoints, BreakerPasses(e)
      PROVE  IInv'
  BY <1>2 DEF BreakerPasses, race, loop, callers, IInv, TypeOK, EarnedInv, StickyEarned,
              StickyHealthy, SlotInv, Counts, Unreceived
<1>3. CASE StickyExpires
  <2>1. TypeOK'
    BY <1>3 DEF StickyExpires, race, loop, callers, IInv, TypeOK
  <2>2. EarnedInv' /\ SlotInv' /\ Counts'
    BY <1>3 DEF StickyExpires, race, loop, callers, IInv, EarnedInv, StickyEarned,
                StickyHealthy, SlotInv, Counts, Unreceived
  <2> QED
    BY <2>1, <2>2 DEF IInv
<1>4. CASE Quiet \/ UNCHANGED vars
  <2>1. UNCHANGED vars
    BY <1>4 DEF Quiet
  <2>2. TypeOK'
    BY <2>1 DEF vars, IInv, TypeOK
  <2>3. EarnedInv' /\ SlotInv'
    BY <2>1 DEF vars, IInv, EarnedInv, StickyEarned, StickyHealthy, SlotInv
  <2>4. Counts'
    BY <2>1 DEF vars, IInv, Counts, Unreceived
  <2> QED
    BY <2>2, <2>3, <2>4 DEF IInv
<1> QED
  BY <1>1, <1>2, <1>3, <1>4

LEMMA StartRaceStep ==
  ASSUME IInv, NEW k \in Callers, NEW r \in Slots, StartRace(k, r)
  PROVE  IInv'
<1>1. PICK P \in Picks :
        /\ racers' = [racers EXCEPT ![r] =
                        [e \in Endpoints |-> IF e \in P THEN "run" ELSE "none"]]
        /\ started' = [started EXCEPT ![r] = Cardinality(P)]
  BY DEF StartRace
<1>2. P \subseteq Endpoints /\ Cardinality(P) \in Nat
  BY PicksCount DEF IInv
<1>3. TypeOK'
  <2>1. /\ racers' \in [Slots -> [Endpoints -> {"none", "run"} \cup Results]]
        /\ started' \in [Slots -> Nat] /\ taken' \in [Slots -> Nat]
    BY <1>1, <1>2 DEF StartRace, IInv, TypeOK
  <2> QED
    BY <2>1 DEF StartRace, pool, IInv, TypeOK
<1>4. EarnedInv'
  BY DEF StartRace, pool, IInv, EarnedInv, StickyEarned, StickyHealthy
<1>5. SlotInv'
  BY DEF StartRace, IInv, TypeOK, SlotInv
<1>6. Counts'
  <2>1. Unreceived(r)' = P
    BY <1>1, <1>2 DEF IInv, TypeOK, Unreceived
  <2>2. started'[r] = Cardinality(P) /\ taken'[r] = 0 /\ phase'[r] = "race"
    BY <1>1 DEF StartRace, IInv, TypeOK
  <2>3. \A s \in Slots : s # r =>
          /\ Unreceived(s)' = Unreceived(s) /\ phase'[s] = phase[s]
          /\ started'[s] = started[s] /\ taken'[s] = taken[s]
          /\ due'[s] = due[s]
    BY <1>1 DEF StartRace, IInv, TypeOK, Unreceived
  <2>4. started'[r] = taken'[r] + Cardinality(Unreceived(r)')
    BY <1>2, <2>1, <2>2
  <2> QED
    BY <2>2, <2>3, <2>4 DEF IInv, Counts
<1> QED
  BY <1>3, <1>4, <1>5, <1>6 DEF IInv

LEMMA RequestEndsStep ==
  ASSUME IInv, NEW r \in Slots, NEW e \in Endpoints, RequestEnds(r, e)
  PROVE  IInv'
<1>1. PICK result \in Results : racers' = [racers EXCEPT ![r][e] = result]
  BY DEF RequestEnds
<1>2. \A s \in Slots : Unreceived(s)' = Unreceived(s)
  BY <1>1 DEF RequestEnds, Unreceived, IInv, TypeOK, Results
<1> QED
  BY <1>1, <1>2 DEF RequestEnds, pool, loop, callers, IInv, TypeOK, EarnedInv,
     StickyEarned, StickyHealthy, SlotInv, Counts

\* A race that ended is nobody's, and what it held is not counted.
LEMMA OverKeeps ==
  ASSUME IInv, NEW r \in Slots, Over(r), UNCHANGED due
  PROVE  /\ phase' \in [Slots -> {"free", "race", "drain"}]
         /\ racers' \in [Slots -> [Endpoints -> {"none", "run"} \cup Results]]
         /\ due' \in [Slots -> Nat]
         /\ started' \in [Slots -> Nat] /\ taken' \in [Slots -> Nat]
         /\ Counts'
<1>1. /\ phase' \in [Slots -> {"free", "race", "drain"}]
      /\ due' \in [Slots -> Nat]
      /\ started' \in [Slots -> Nat] /\ taken' \in [Slots -> Nat]
  BY DEF Over, LoopEnds, IInv, TypeOK
<1>2. racers' \in [Slots -> [Endpoints -> {"none", "run"} \cup Results]]
  BY DEF Over, IInv, TypeOK
<1>3. \A s \in Slots : s # r =>
        /\ Unreceived(s)' = Unreceived(s) /\ phase'[s] = phase[s]
        /\ started'[s] = started[s] /\ taken'[s] = taken[s]
  BY DEF Over, LoopEnds, IInv, TypeOK, Unreceived
<1>4. phase'[r] = "free"
  BY DEF Over, IInv, TypeOK
<1>5. Counts'
  BY <1>3, <1>4 DEF IInv, Counts
<1> QED
  BY <1>1, <1>2, <1>5

\* A caller leaves its race, for its caller or for another attempt.
LEMMA CallerLeaves ==
  ASSUME IInv, NEW k \in Callers, at[k] = "race", Return(k) \/ Retry(k),
         \A r \in Slots \ {slot[k]} : phase'[r] = phase[r]
  PROVE  /\ SlotInv'
         /\ at' \in [Callers -> {"idle", "ready", "race"}]
         /\ attempt' \in [Callers -> Nat]
         /\ slot' \in [Callers -> Slots \cup {None}]
         /\ callsLeft' \in Nat
<1>1. at'[k] # "race" /\ \A m \in Callers \ {k} : at'[m] = at[m] /\ slot'[m] = slot[m]
  BY DEF Return, Retry, IInv, TypeOK
<1>2. SlotInv'
  BY <1>1 DEF IInv, SlotInv
<1>3. CASE Return(k)
  BY <1>2, <1>3 DEF Return, IInv, TypeOK
<1>4. CASE Retry(k) /\ ~Return(k)
  BY <1>2, <1>4 DEF Retry, IInv, TypeOK
<1> QED
  BY <1>3, <1>4

LEMMA WinStep ==
  ASSUME IInv, NEW k \in Callers, NEW e \in Endpoints, Win(k, e)
  PROVE  IInv'
<1>1. PICK r \in Slots : r = slot[k] /\ phase[r] = "race" /\ racers[r][e] # "none"
  BY DEF Win, IInv, SlotInv
<1>2. /\ at[k] = "race" /\ Recorded(e) /\ Took(r, e) /\ Return(k)
      /\ due' = [due EXCEPT ![r] = LeftToDrain(r)]
      /\ phase' = [phase EXCEPT ![r] = "drain"] /\ LoopEnds(r)
  BY <1>1 DEF Win, Recorded
<1>3. /\ e \in Unreceived(r) /\ Unreceived(r)' = Unreceived(r) \ {e}
      /\ \A s \in Slots : s # r => Unreceived(s)' = Unreceived(s)
      /\ racers' \in [Slots -> [Endpoints -> {"none", "run"} \cup Results]]
  BY <1>1, <1>2, TookOne DEF IInv
<1>4. /\ LeftToDrain(r) = Cardinality(Unreceived(r)')
      /\ LeftToDrain(r) \in Nat
  <2>1. /\ Cardinality(Unreceived(r) \ {e}) = Cardinality(Unreceived(r)) - 1
        /\ Cardinality(Unreceived(r) \ {e}) \in Nat
    <3>1. IsFiniteSet(Unreceived(r) \ {e})
      BY <1>1, UnreceivedCount, FS_Subset DEF IInv
    <3> QED
      BY <1>1, <1>3, <3>1, UnreceivedCount, FS_CardinalityType DEF IInv
  <2>2. /\ started[r] = taken[r] + Cardinality(Unreceived(r))
        /\ Cardinality(Unreceived(r)) \in Nat
        /\ started[r] \in Nat /\ taken[r] \in Nat
    BY <1>1, UnreceivedCount DEF IInv, Counts, TypeOK
  <2>3. LeftToDrain(r) = Cardinality(Unreceived(r)) - 1
    BY <2>2 DEF LeftToDrain
  <2> QED
    BY <2>1, <2>3, <1>3
<1>5. Counts'
  <2>1. due'[r] = Cardinality(Unreceived(r)')
    BY <1>2, <1>4 DEF IInv, TypeOK
  <2>2. \A s \in Slots : s # r =>
          /\ due'[s] = due[s] /\ phase'[s] = phase[s]
          /\ started'[s] = started[s] /\ taken'[s] = taken[s]
    BY <1>2 DEF LoopEnds, IInv, TypeOK
  <2>3. phase'[r] = "drain"
    BY <1>2 DEF IInv, TypeOK
  <2> QED
    BY <1>3, <2>1, <2>2, <2>3 DEF IInv, Counts
<1>6. SlotInv' /\ at' \in [Callers -> {"idle", "ready", "race"}]
      /\ attempt' \in [Callers -> Nat] /\ slot' \in [Callers -> Slots \cup {None}]
      /\ callsLeft' \in Nat
  BY <1>1, <1>2, CallerLeaves DEF IInv, TypeOK
<1>7. EarnedInv' /\ wins' \in [Endpoints -> Nat] /\ streak' \in [Endpoints -> Nat]
      /\ breaker' \in [Endpoints -> {"zero", "open", "past"}]
      /\ sticky' \in Endpoints \cup {None} /\ live' \in BOOLEAN
  BY <1>2, RecordKeeps DEF IInv
<1>8. TypeOK'
  BY <1>1, <1>2, <1>3, <1>4, <1>6, <1>7 DEF LoopEnds, IInv, TypeOK
<1> QED
  BY <1>5, <1>6, <1>7, <1>8 DEF IInv

LEMMA LossStep ==
  ASSUME IInv, NEW k \in Callers, NEW e \in Endpoints, Loss(k, e)
  PROVE  IInv'
<1>1. PICK r \in Slots :
        r = slot[k] /\ phase[r] = "race" /\ racers[r][e] # "none" /\ at[k] = "race"
  BY DEF Loss, IInv, SlotInv
<1>2. EarnedInv' /\ wins' \in [Endpoints -> Nat] /\ streak' \in [Endpoints -> Nat]
      /\ breaker' \in [Endpoints -> {"zero", "open", "past"}]
      /\ sticky' \in Endpoints \cup {None} /\ live' \in BOOLEAN
  BY RecordKeeps DEF Loss, Recorded, IInv
<1>3. CASE Over(r) /\ Retry(k)
  <2>1. UNCHANGED due
    BY DEF Loss
  <2>2. \A s \in Slots \ {r} : phase'[s] = phase[s]
    BY <1>1, <1>3 DEF Over, IInv, TypeOK
  <2>3. SlotInv' /\ at' \in [Callers -> {"idle", "ready", "race"}]
        /\ attempt' \in [Callers -> Nat] /\ slot' \in [Callers -> Slots \cup {None}]
        /\ callsLeft' \in Nat
    BY <1>1, <1>3, <2>2, CallerLeaves
  <2> QED
    BY <1>1, <1>2, <1>3, <2>1, <2>3, OverKeeps DEF IInv, TypeOK
<1>4. CASE /\ Took(r, e) /\ taken' = [taken EXCEPT ![r] = @ + 1]
           /\ UNCHANGED <<phase, callers, started, due>>
  <2>1. /\ e \in Unreceived(r) /\ Unreceived(r)' = Unreceived(r) \ {e}
        /\ \A s \in Slots : s # r => Unreceived(s)' = Unreceived(s)
        /\ racers' \in [Slots -> [Endpoints -> {"none", "run"} \cup Results]]
    BY <1>1, <1>4, TookOne DEF IInv
  <2>2. Counts'
    <3>1. Cardinality(Unreceived(r)') = Cardinality(Unreceived(r)) - 1
      BY <2>1, UnreceivedCount DEF IInv
    <3>2. /\ started[r] = taken[r] + Cardinality(Unreceived(r))
          /\ Cardinality(Unreceived(r)) \in Nat
          /\ started[r] \in Nat /\ taken[r] \in Nat
      BY <1>1, UnreceivedCount DEF IInv, Counts, TypeOK
    <3>3. /\ taken'[r] = taken[r] + 1
          /\ \A s \in Slots : s # r => taken'[s] = taken[s]
      BY <1>4 DEF IInv, TypeOK
    <3>4. started[r] = taken'[r] + Cardinality(Unreceived(r)')
      BY <3>1, <3>2, <3>3
    <3> QED
      BY <1>1, <1>4, <2>1, <3>3, <3>4 DEF IInv, Counts
  <2>3. SlotInv'
    BY <1>4 DEF callers, IInv, SlotInv
  <2>4. TypeOK'
    <3>1. taken' \in [Slots -> Nat] /\ started' \in [Slots -> Nat]
      BY <1>4 DEF IInv, TypeOK
    <3> QED
      BY <1>2, <1>4, <2>1, <3>1 DEF callers, IInv, TypeOK
  <2> QED
    BY <1>2, <2>2, <2>3, <2>4 DEF IInv
<1> QED
  BY <1>1, <1>3, <1>4 DEF Loss

LEMMA AttemptTimesOutStep ==
  ASSUME IInv, NEW k \in Callers, AttemptTimesOut(k)
  PROVE  IInv'
<1>1. slot[k] \in Slots /\ at[k] = "race" /\ Over(slot[k]) /\ Retry(k)
      /\ UNCHANGED <<pool, due>>
  BY DEF AttemptTimesOut, IInv, SlotInv
<1>2. \A s \in Slots \ {slot[k]} : phase'[s] = phase[s]
  BY <1>1 DEF Over, IInv, TypeOK
<1>3. SlotInv' /\ at' \in [Callers -> {"idle", "ready", "race"}]
      /\ attempt' \in [Callers -> Nat] /\ slot' \in [Callers -> Slots \cup {None}]
      /\ callsLeft' \in Nat
  BY <1>1, <1>2, CallerLeaves
<1>4. EarnedInv'
  BY <1>1 DEF pool, IInv, EarnedInv, StickyEarned, StickyHealthy
<1>5. TypeOK' /\ Counts'
  BY <1>1, <1>3, OverKeeps DEF pool, IInv, TypeOK
<1> QED
  BY <1>3, <1>4, <1>5 DEF IInv

LEMMA DrainStep ==
  ASSUME IInv, NEW r \in Slots, NEW e \in Endpoints, Drain(r, e)
  PROVE  IInv'
<1>1. EarnedInv' /\ wins' \in [Endpoints -> Nat] /\ streak' \in [Endpoints -> Nat]
      /\ breaker' \in [Endpoints -> {"zero", "open", "past"}]
      /\ sticky' \in Endpoints \cup {None} /\ live' \in BOOLEAN
  BY RecordKeeps DEF Drain, Recorded, IInv
<1>2. racers[r][e] # "none" /\ Took(r, e)
  BY DEF Drain, Results
<1>3. /\ e \in Unreceived(r) /\ Unreceived(r)' = Unreceived(r) \ {e}
      /\ \A s \in Slots : s # r => Unreceived(s)' = Unreceived(s)
      /\ racers' \in [Slots -> [Endpoints -> {"none", "run"} \cup Results]]
  BY <1>2, TookOne DEF IInv
<1>4. due' \in [Slots -> Nat]
  BY DEF Drain, IInv, TypeOK
<1>5. Counts'
  <2>1. Cardinality(Unreceived(r)') = Cardinality(Unreceived(r)) - 1
    BY <1>3, UnreceivedCount DEF IInv
  <2> QED
    BY <1>3, <2>1 DEF Drain, loop, IInv, TypeOK, Counts
<1>6. SlotInv'
  BY DEF Drain, callers, IInv, SlotInv
<1>7. TypeOK'
  BY <1>1, <1>3, <1>4 DEF Drain, loop, callers, IInv, TypeOK
<1> QED
  BY <1>1, <1>5, <1>6, <1>7 DEF IInv

LEMMA DrainerEndsStep ==
  ASSUME IInv, NEW r \in Slots, DrainerEnds(r)
  PROVE  IInv'
<1>1. phase[r] = "drain" /\ Over(r) /\ UNCHANGED <<pool, due, callers>>
  BY DEF DrainerEnds
<1>2. TypeOK' /\ Counts'
  BY <1>1, OverKeeps DEF pool, callers, IInv, TypeOK
<1>3. EarnedInv'
  BY <1>1 DEF pool, IInv, EarnedInv, StickyEarned, StickyHealthy
<1>4. SlotInv'
  BY <1>1 DEF Over, callers, IInv, TypeOK, SlotInv
<1> QED
  BY <1>2, <1>3, <1>4 DEF IInv

LEMMA NextInv == IInv /\ [Next]_vars => IInv'
BY QuietSteps, StartRaceStep, RequestEndsStep, WinStep, LossStep,
   AttemptTimesOutStep, DrainStep, DrainerEndsStep
   DEF Next, CallStep, RaceStep

\* Counting what is still in a channel keeps every count in Nat, however the
\* callers, their races and the drainers of earlier races overlap.
THEOREM TypeCorrect == Spec => []TypeOK
<1>1. IInv => TypeOK
  BY DEF IInv
<1> QED
  BY <1>1, InitInv, NextInv, PTL DEF Spec

\* recordWin's count of the sticky endpoint is a run of wins no failure and no
\* other endpoint's win has broken.
THEOREM StickyIsEarned == Spec => []StickyEarned
<1>1. IInv => StickyEarned
  BY DEF IInv, EarnedInv
<1> QED
  BY <1>1, InitInv, NextInv, PTL DEF Spec

\* The endpoint raced ahead of the others never has its breaker open, though
\* drainers record failures of races that are long over.
THEOREM StickyIsHealthy == Spec => []StickyHealthy
<1>1. IInv => StickyHealthy
  BY DEF IInv, EarnedInv
<1> QED
  BY <1>1, InitInv, NextInv, PTL DEF Spec

\* len(racers) - i - 1 is what the channel still brings: no drainer takes too
\* little or waits for a result that never comes.
THEOREM DrainersTakeAll == Spec => []DrainerCounts
<1>1. IInv => DrainerCounts
  BY DEF IInv, Counts, DrainerCounts
<1> QED
  BY <1>1, InitInv, NextInv, PTL DEF Spec

\* A step that records for d leaves e's record to e's own failure.
LEMMA RecordSpares ==
  ASSUME TypeOK, NEW d \in Endpoints, NEW e \in Endpoints,
         \/ RecordWin(d) \/ UNCHANGED pool
         \/ RecordFail(d) /\ d # e
  PROVE  Spared(e)
BY DEF RecordWin, RecordFail, pool, TypeOK, Spared

\* recordFail's short circuit and the drainer's test of context.Canceled: who
\* only lost a race is not punished, in whatever order results come in.
THEOREM OnlyFailuresCount == Spec => OnlyFailuresPunished
<1>1. ASSUME IInv, [Next]_vars, NEW e \in Endpoints, Blameless(e)
      PROVE  Spared(e)
  <2>1. CASE UNCHANGED pool
    BY <1>1, <2>1, RecordSpares DEF IInv
  <2>2. ASSUME NEW k \in Callers, NEW d \in Endpoints, Win(k, d)
        PROVE  Spared(e)
    BY <1>1, <2>2, RecordSpares DEF Win, IInv
  <2>3. ASSUME NEW k \in Callers, NEW d \in Endpoints, Loss(k, d)
        PROVE  Spared(e)
    <3>1. slot[k] \in Slots /\ racers[slot[k]][d] = "fail" /\ RecordFail(d)
      BY <1>1, <2>3 DEF Loss, IInv, SlotInv
    <3>2. racers'[slot[k]][d] = "none"
      BY <1>1, <2>3, <3>1 DEF Loss, Over, Took, IInv, TypeOK
    <3>3. d # e
      BY <1>1, <3>1, <3>2 DEF Blameless
    <3> QED
      BY <1>1, <3>1, <3>3, RecordSpares DEF IInv
  <2>4. ASSUME NEW r \in Slots, NEW d \in Endpoints, Drain(r, d), ~UNCHANGED pool
        PROVE  Spared(e)
    <3>1. racers[r][d] = "fail" /\ RecordFail(d) /\ Took(r, d)
      BY <2>4 DEF Drain
    <3>2. racers'[r][d] = "none"
      BY <1>1, <3>1 DEF Took, IInv, TypeOK
    <3>3. d # e
      BY <1>1, <3>1, <3>2 DEF Blameless
    <3> QED
      BY <1>1, <3>1, <3>3, RecordSpares DEF IInv
  <2>5. ASSUME NEW d \in Endpoints, BreakerPasses(d)
        PROVE  Spared(e)
    BY <1>1, <2>5 DEF BreakerPasses, IInv, TypeOK, Spared
  <2>6. CASE StickyExpires
    BY <1>1, <2>6 DEF StickyExpires, IInv, TypeOK, Spared
  <2>7. ASSUME NEW k \in Callers, StartCall(k) \/ AttemptTimesOut(k) \/ BudgetEnds(k)
        PROVE  Spared(e)
    BY <2>1, <2>7 DEF StartCall, AttemptTimesOut, BudgetEnds
  <2>8. ASSUME NEW k \in Callers, NEW r \in Slots, StartRace(k, r)
        PROVE  Spared(e)
    BY <2>1, <2>8 DEF StartRace
  <2>9. ASSUME NEW r \in Slots,
               DrainerEnds(r) \/ \E d \in Endpoints : RequestEnds(r, d)
        PROVE  Spared(e)
    BY <2>1, <2>9 DEF DrainerEnds, RequestEnds
  <2>10. CASE Quiet \/ UNCHANGED vars
    BY <2>1, <2>10 DEF Quiet, vars, pool
  <2> QED
    BY <1>1, <2>1, <2>2, <2>3, <2>4, <2>5, <2>6, <2>7, <2>8, <2>9, <2>10
       DEF Next, CallStep, RaceStep
<1>2. IInv /\ [Next]_vars =>
        [\A e \in Endpoints : Blameless(e) => Spared(e)]_vars
  BY <1>1
<1> QED
  BY <1>2, InitInv, NextInv, PTL DEF Spec, OnlyFailuresPunished
-----------------------------------------------------------------------------
(* CallsReturn and RacesEnd are about fairness.  What they need of safety   *)
(* is that nobody waits for nothing: a caller in a race has a result to     *)
(* come that it acts on, a race is some caller's, and a race that is over   *)
(* has left no goroutine in its books.                                      *)
NobodyWaitsForNothing ==
  /\ \A k \in Callers :
       at[k] = "race" =>
         \E e \in Endpoints : racers[slot[k]][e] \in {"run", "ok", "fail"}
  /\ \A r \in Slots :
       phase[r] = "race" => \E k \in Callers : at[k] = "race" /\ slot[k] = r
  /\ \A r \in Slots : phase[r] = "free" => Unreceived(r) = {}

\* The same of the races: a cancellation is only ever in a drainer's channel.
AwaitInv ==
  /\ \A r \in Slots :
       phase[r] = "race" => /\ Unreceived(r) # {}
                            /\ \A e \in Endpoints : racers[r][e] # "lost"
                            /\ \E k \in Callers : at[k] = "race" /\ slot[k] = r
  /\ \A r \in Slots : phase[r] = "free" => Unreceived(r) = {}

\* A race has at least one racer, even with every breaker open.
LEMMA PicksSome ==
  ASSUME NEW P \in Picks
  PROVE  P \cap Endpoints # {}
<1>1. /\ Candidates # {} /\ Candidates \subseteq Endpoints
      /\ IsFiniteSet(Candidates)
  <2>1. Candidates # {} /\ Candidates \subseteq Endpoints
    BY ConfigAssumption DEF Candidates, Healthy
  <2> QED
    BY <2>1, FS_Subset, ConfigAssumption
<1>2. Cardinality(Candidates) \in Nat /\ Cardinality(Candidates) # 0
  BY <1>1, FS_CardinalityType, FS_EmptySet
<1>3. ASSUME NEW n \in Nat \ {0}, P \in Samples(Candidates, n)
      PROVE  P \cap Endpoints # {}
  <2>1. P \subseteq Candidates /\ Cardinality(P) # 0
    BY <1>2, <1>3 DEF Samples
  <2>2. P # {}
    BY <2>1, FS_EmptySet
  <2> QED
    BY <1>1, <2>1, <2>2
<1>4. CASE Warm /\ sticky \in Healthy
  BY <1>4 DEF Picks, Healthy
<1>5. CASE ~(Warm /\ sticky \in Healthy)
  <2>1. \E n \in Nat \ {0} : P \in Samples(Candidates, n)
    BY <1>5, ConfigAssumption DEF Picks
  <2> QED
    BY <1>3, <2>1
<1> QED
  BY <1>4, <1>5

LEMMA AwaitInit == Init => AwaitInv
BY DEF Init, AwaitInv, Unreceived

\* A race that is over is in no books; the other races are not touched, and
\* nor are their callers, the one that leaves being the race's own.
LEMMA OverAwait ==
  ASSUME IInv, AwaitInv, NEW r \in Slots, Over(r),
         \/ UNCHANGED callers
         \/ \E k \in Callers : /\ at[k] = "race" /\ slot[k] = r
                               /\ Return(k) \/ Retry(k),
         phase[r] = "race" => ~UNCHANGED callers
  PROVE  AwaitInv'
<1>1. /\ phase'[r] = "free" /\ Unreceived(r)' = {}
      /\ \A s \in Slots : s # r => /\ phase'[s] = phase[s]
                                   /\ Unreceived(s)' = Unreceived(s)
                                   /\ racers'[s] = racers[s]
  BY DEF Over, IInv, TypeOK, Unreceived
<1>2. ASSUME NEW s \in Slots, s # r, NEW m \in Callers,
             at[m] = "race", slot[m] = s
      PROVE  at'[m] = "race" /\ slot'[m] = s
  BY <1>2 DEF Return, Retry, callers, IInv, TypeOK
<1> QED
  BY <1>1, <1>2 DEF AwaitInv

LEMMA AwaitStep == IInv /\ AwaitInv /\ [Next]_vars => AwaitInv'
<1> SUFFICES ASSUME IInv, AwaitInv, [Next]_vars PROVE AwaitInv'
  OBVIOUS
<1>1. CASE \/ \E k \in Callers : StartCall(k) \/ BudgetEnds(k)
           \/ \E e \in Endpoints : BreakerPasses(e)
           \/ StickyExpires \/ Quiet \/ UNCHANGED vars
  <2>1. UNCHANGED race
    BY <1>1 DEF StartCall, BudgetEnds, BreakerPasses, StickyExpires, Quiet,
                vars, race, loop
  <2>2. \A m \in Callers :
          at[m] = "race" => at'[m] = "race" /\ slot'[m] = slot[m]
    BY <1>1 DEF StartCall, BudgetEnds, Return, BreakerPasses, StickyExpires,
                Quiet, vars, callers, IInv, TypeOK
  <2> QED
    BY <2>1, <2>2 DEF race, loop, AwaitInv, Unreceived
<1>2. ASSUME NEW k \in Callers, NEW r \in Slots, StartRace(k, r)
      PROVE  AwaitInv'
  <2>1. PICK P \in Picks :
          racers' = [racers EXCEPT ![r] =
                       [e \in Endpoints |-> IF e \in P THEN "run" ELSE "none"]]
    BY <1>2 DEF StartRace
  <2>2. PICK e \in Endpoints : e \in P
    BY PicksSome
  <2>3. /\ e \in Unreceived(r)'
        /\ \A x \in Endpoints : racers'[r][x] # "lost"
        /\ \A s \in Slots : s # r => /\ racers'[s] = racers[s]
                                     /\ Unreceived(s)' = Unreceived(s)
    BY <2>1, <2>2 DEF Unreceived, IInv, TypeOK
  <2>4. /\ phase'[r] = "race" /\ at'[k] = "race" /\ slot'[k] = r
        /\ \A s \in Slots : s # r => phase'[s] = phase[s]
        /\ \A m \in Callers : at[m] = "race" => /\ at'[m] = "race"
                                                /\ slot'[m] = slot[m]
    BY <1>2 DEF StartRace, IInv, TypeOK
  <2> QED
    BY <2>3, <2>4 DEF AwaitInv
<1>3. ASSUME NEW r \in Slots, NEW e \in Endpoints, RequestEnds(r, e)
      PROVE  AwaitInv'
  <2>1. PICK result \in Results :
          /\ result = "lost" => phase[r] = "drain"
          /\ racers' = [racers EXCEPT ![r][e] = result]
    BY <1>3 DEF RequestEnds
  <2>2. /\ \A s \in Slots : Unreceived(s)' = Unreceived(s)
        /\ \A s \in Slots : phase[s] = "race" =>
             \A x \in Endpoints : racers[s][x] # "lost" =>
               racers'[s][x] # "lost"
    BY <1>3, <2>1 DEF RequestEnds, Unreceived, IInv, TypeOK, Results
  <2> QED
    BY <1>3, <2>2 DEF RequestEnds, callers, AwaitInv
<1>4. ASSUME NEW k \in Callers, NEW e \in Endpoints, Win(k, e)
      PROVE  AwaitInv'
  <2>1. PICK r \in Slots : /\ r = slot[k] /\ phase[r] = "race"
                           /\ racers[r][e] # "none" /\ at[k] = "race"
    BY <1>4 DEF Win, IInv, SlotInv
  <2>2. /\ Took(r, e) /\ Return(k)
        /\ phase' = [phase EXCEPT ![r] = "drain"]
    BY <1>4, <2>1 DEF Win
  <2>3. \A s \in Slots : s # r => /\ racers'[s] = racers[s]
                                  /\ phase'[s] = phase[s]
                                  /\ Unreceived(s)' = Unreceived(s)
    BY <2>2 DEF Took, Unreceived, IInv, TypeOK
  <2>4. \A m \in Callers : at[m] = "race" /\ slot[m] # r =>
          at'[m] = "race" /\ slot'[m] = slot[m]
    BY <2>1, <2>2 DEF Return, IInv, TypeOK
  <2>5. phase'[r] = "drain"
    BY <2>2 DEF IInv, TypeOK
  <2> QED
    BY <2>3, <2>4, <2>5 DEF AwaitInv
<1>5. ASSUME NEW k \in Callers, NEW e \in Endpoints, Loss(k, e)
      PROVE  AwaitInv'
  <2>1. PICK r \in Slots : /\ r = slot[k] /\ phase[r] = "race"
                           /\ racers[r][e] # "none" /\ at[k] = "race"
    BY <1>5 DEF Loss, IInv, SlotInv
  <2>2. CASE taken[r] + 1 = started[r]
    <3>1. Over(r) /\ Retry(k)
      BY <1>5, <2>1, <2>2 DEF Loss
    <3>2. ~UNCHANGED callers
      BY <2>1, <3>1 DEF Retry, Return, callers, IInv, TypeOK
    <3> QED
      BY <2>1, <3>1, <3>2, OverAwait
  <2>3. CASE taken[r] + 1 # started[r]
    <3>1. Took(r, e) /\ UNCHANGED <<phase, callers>>
      BY <1>5, <2>1, <2>3 DEF Loss
    <3>2. /\ e \in Unreceived(r) /\ Unreceived(r)' = Unreceived(r) \ {e}
          /\ \A s \in Slots : s # r => Unreceived(s)' = Unreceived(s)
      BY <2>1, <3>1, TookOne DEF IInv
    <3>3. \A s \in Slots, x \in Endpoints :
            racers[s][x] # "lost" => racers'[s][x] # "lost"
      BY <3>1 DEF Took, IInv, TypeOK
    <3>4. Unreceived(r)' # {}
      <4>1. /\ started[r] = taken[r] + Cardinality(Unreceived(r))
            /\ Cardinality(Unreceived(r)) \in Nat
            /\ started[r] \in Nat /\ taken[r] \in Nat
        BY <2>1, UnreceivedCount DEF IInv, Counts, TypeOK
      <4>2. Cardinality(Unreceived(r)') = Cardinality(Unreceived(r)) - 1
        BY <3>2, UnreceivedCount DEF IInv
      <4>3. Cardinality(Unreceived(r)') # 0
        BY <2>3, <4>1, <4>2
      <4> QED
        BY <4>3, FS_EmptySet
    <3> QED
      BY <3>1, <3>2, <3>3, <3>4 DEF AwaitInv, callers
  <2> QED
    BY <2>2, <2>3
<1>6. ASSUME NEW k \in Callers, AttemptTimesOut(k)
      PROVE  AwaitInv'
  <2>1. /\ slot[k] \in Slots /\ at[k] = "race"
        /\ Over(slot[k]) /\ Retry(k)
    BY <1>6 DEF AttemptTimesOut, IInv, SlotInv
  <2>2. ~UNCHANGED callers
    BY <2>1 DEF Retry, Return, callers, IInv, TypeOK
  <2> QED
    BY <2>1, <2>2, OverAwait
<1>7. ASSUME NEW r \in Slots, NEW e \in Endpoints, Drain(r, e)
      PROVE  AwaitInv'
  <2>1. /\ phase[r] = "drain" /\ Took(r, e)
        /\ UNCHANGED <<phase, callers>>
    BY <1>7 DEF Drain
  <2>2. \A s \in Slots : s # r => /\ racers'[s] = racers[s]
                                  /\ Unreceived(s)' = Unreceived(s)
    BY <2>1 DEF Took, Unreceived, IInv, TypeOK
  <2> QED
    BY <2>1, <2>2 DEF AwaitInv, callers
<1>8. ASSUME NEW r \in Slots, DrainerEnds(r)
      PROVE  AwaitInv'
  BY <1>8, OverAwait DEF DrainerEnds
<1> QED
  BY <1>1, <1>2, <1>3, <1>4, <1>5, <1>6, <1>7, <1>8
  DEF Next, CallStep, RaceStep

\* For any fanouts and however races overlap, a caller in a race has a racer
\* that runs or a result it acts on, every race has its caller, and a race
\* nobody reads any more has no goroutine in its books.
THEOREM NobodyWaits == Spec => []NobodyWaitsForNothing
<1>1. IInv /\ AwaitInv => NobodyWaitsForNothing
  <2> SUFFICES ASSUME IInv, AwaitInv, NEW k \in Callers, at[k] = "race"
               PROVE  \E e \in Endpoints :
                        racers[slot[k]][e] \in {"run", "ok", "fail"}
    BY DEF NobodyWaitsForNothing, AwaitInv
  <2>1. slot[k] \in Slots /\ phase[slot[k]] = "race"
    BY DEF IInv, SlotInv
  <2>2. PICK e \in Endpoints : racers[slot[k]][e] # "none"
    BY <2>1 DEF AwaitInv, Unreceived
  <2>3. racers[slot[k]][e] \in {"none", "run", "ok", "fail", "lost"}
    BY <2>1 DEF IInv, TypeOK, Results
  <2> QED
    BY <2>1, <2>2, <2>3 DEF AwaitInv
<1> QED
  BY <1>1, InitInv, NextInv, AwaitInit, AwaitStep, PTL DEF Spec
=============================================================================
