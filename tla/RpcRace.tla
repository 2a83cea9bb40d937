------------------------------ MODULE RpcRace ------------------------------
(***************************************************************************)
(* transport/balanced.go: how a JSON-RPC call races several endpoints.     *)
(* racePool tries up to MaxRetries races; raceOnce starts one goroutine    *)
(* per racer and takes their results from one buffered channel; after the  *)
(* first success the rest is cancelled and a drainer takes what still      *)
(* comes.  Wins and failures of all races, the late ones of a drainer too, *)
(* move the endpoints' wins and breakers and the sticky endpoint, from     *)
(* which chooseRacers picks the next racers.                               *)
(*                                                                         *)
(* Time is kept as what it decides: a breaker is open until it is past, a  *)
(* sticky endpoint is live until its TTL ends, an attempt or a call may    *)
(* time out at any moment.  A failure is kept as what it decides too: it   *)
(* opens the breaker (a rate limit, or a high error average) or does not.  *)
(* A weighted sample may be any sample of its size.                        *)
(*                                                                         *)
(* Definitions marked "Variant" are no part of the specification.          *)
(***************************************************************************)
EXTENDS Integers, FiniteSets

CONSTANTS
  Endpoints,
  Callers,     \* goroutines that call CallRaw
  None,        \* no endpoint, no race
  Slots,       \* bound: races that may be under way, drained ones included
  ColdFanout, WarmFanout, PromoteWins, MaxRetries,
  MaxCalls     \* bound: how many calls are made

ASSUME ConfigAssumption ==
  /\ IsFiniteSet(Endpoints) /\ Endpoints # {}
  /\ ColdFanout \in Nat \ {0} /\ WarmFanout \in Nat \ {0}
  /\ PromoteWins \in Nat \ {0} /\ MaxRetries \in Nat \ {0}
  /\ MaxCalls \in Nat

ASSUME NoneAssumption == None \notin Endpoints /\ None \notin Slots

\* What a racer's goroutine is at: its request runs, or its result is in the
\* channel.  "lost": context.Canceled after another racer won.
Results == {"ok", "fail", "lost"}

VARIABLES
  wins,      \* per endpoint
  breaker,   \* per endpoint: breakerUntil is zero, ahead (open) or past
  sticky,    \* stickyURL, None: empty
  live,      \* stickyExpires is ahead
  phase,     \* per race: free, race or drain
  racers,    \* per race and endpoint: its goroutine's state, "none": received
  started,   \* per race: len(racers)
  taken,     \* per race: i, how many results its loop has taken
  due,       \* per race: results its drainer still takes
  at,        \* per caller: idle, ready for an attempt, or in a race
  attempt,   \* per caller
  slot,      \* per caller: its race
  callsLeft,
  streak     \* history: an endpoint's wins in a row, without a failure

pool == <<wins, breaker, sticky, live, streak>>
loop == <<started, taken>>
race == <<phase, racers, loop, due>>
callers == <<at, attempt, slot, callsLeft>>
vars == <<wins, breaker, sticky, live, phase, racers, started, taken, due,
          at, attempt, slot, callsLeft, streak>>
-----------------------------------------------------------------------------
Init ==
  /\ wins = [e \in Endpoints |-> 0]
  /\ breaker = [e \in Endpoints |-> "zero"]
  /\ sticky = None /\ live = FALSE
  /\ phase = [r \in Slots |-> "free"]
  /\ racers = [r \in Slots |-> [e \in Endpoints |-> "none"]]
  /\ started = [r \in Slots |-> 0] /\ taken = [r \in Slots |-> 0]
  /\ due = [r \in Slots |-> 0]
  /\ at = [k \in Callers |-> "idle"]
  /\ attempt = [k \in Callers |-> 0]
  /\ slot = [k \in Callers |-> None]
  /\ callsLeft = MaxCalls
  /\ streak = [e \in Endpoints |-> 0]

\* Variant: wins are counted whoever won in between.
RecordWinTotal(e) ==
  /\ wins' = [wins EXCEPT ![e] = @ + 1]
  /\ breaker' = [breaker EXCEPT ![e] = "zero"]
  /\ sticky' = e /\ live' = TRUE
  /\ streak' = [x \in Endpoints |-> IF x = e THEN streak[e] + 1 ELSE 0]

\* recordWin
RecordWin(e) ==
  /\ wins' = [wins EXCEPT ![e] = IF sticky = e THEN @ + 1 ELSE 1]
  /\ breaker' = [breaker EXCEPT ![e] = "zero"]
  /\ sticky' = e /\ live' = TRUE
  /\ streak' = [x \in Endpoints |-> IF x = e THEN streak[e] + 1 ELSE 0]

\* Variant: the sticky endpoint stays in spite of its failure.
RecordFailSticky(e) ==
  /\ wins' = [wins EXCEPT ![e] = 0]
  /\ breaker' = [breaker EXCEPT ![e] = "open"] \/ UNCHANGED breaker
  /\ streak' = [streak EXCEPT ![e] = 0]
  /\ UNCHANGED <<sticky, live>>

\* recordFail
RecordFail(e) ==
  /\ wins' = [wins EXCEPT ![e] = 0]
  /\ breaker' = [breaker EXCEPT ![e] = "open"] \/ UNCHANGED breaker
  /\ sticky' = IF sticky = e THEN None ELSE sticky
  /\ streak' = [streak EXCEPT ![e] = 0]
  /\ UNCHANGED live

BreakerPasses(e) ==
  /\ breaker[e] = "open"
  /\ breaker' = [breaker EXCEPT ![e] = "past"]
  /\ UNCHANGED <<wins, sticky, live, streak, race, callers>>

StickyExpires ==
  /\ live
  /\ live' = FALSE
  /\ UNCHANGED <<wins, breaker, sticky, streak, race, callers>>
-----------------------------------------------------------------------------
Warm == sticky # None /\ live /\ wins[sticky] >= PromoteWins

Healthy == {e \in Endpoints : breaker[e] # "open"}

\* "all dead, race them anyway as last resort"
Candidates == IF Healthy = {} THEN Endpoints ELSE Healthy

\* weightedSample: as many as asked for, or all there are.
Samples(from, n) ==
  {P \in SUBSET from :
     Cardinality(P) = IF n < Cardinality(from) THEN n ELSE Cardinality(from)}

\* chooseRacers
Picks ==
  IF Warm /\ sticky \in Healthy
    THEN {{sticky} \cup P : P \in Samples(Candidates \ {sticky}, WarmFanout - 1)}
    ELSE Samples(Candidates, IF Warm THEN WarmFanout ELSE ColdFanout)

\* A call misses the cache.
StartCall(k) ==
  /\ at[k] = "idle"
  /\ callsLeft > 0
  /\ callsLeft' = callsLeft - 1
  /\ at' = [at EXCEPT ![k] = "ready"]
  /\ UNCHANGED <<pool, race, attempt, slot>>

\* raceOnce starts its racers.
StartRace(k, r) ==
  /\ at[k] = "ready"
  /\ phase[r] = "free"
  /\ \E P \in Picks :
       /\ racers' = [racers EXCEPT ![r] =
                       [e \in Endpoints |-> IF e \in P THEN "run" ELSE "none"]]
       /\ started' = [started EXCEPT ![r] = Cardinality(P)]
  /\ taken' = [taken EXCEPT ![r] = 0]
  /\ phase' = [phase EXCEPT ![r] = "race"]
  /\ at' = [at EXCEPT ![k] = "race"]
  /\ attempt' = [attempt EXCEPT ![k] = @ + 1]
  /\ slot' = [slot EXCEPT ![k] = r]
  /\ UNCHANGED <<pool, due, callsLeft>>

\* A racer's request ends, by an answer, an error, its timeout, or, after
\* another one's win, by the cancellation.
RequestEnds(r, e) ==
  /\ racers[r][e] = "run"
  /\ \E result \in Results :
       /\ result = "lost" => phase[r] = "drain"
       /\ racers' = [racers EXCEPT ![r][e] = result]
  /\ UNCHANGED <<pool, phase, loop, due, callers>>

Took(r, e) == racers' = [racers EXCEPT ![r][e] = "none"]

Unreceived(r) == {e \in Endpoints : racers[r][e] # "none"}

\* raceOnce returns, and its loop is gone.
LoopEnds(r) ==
  /\ started' = [started EXCEPT ![r] = 0]
  /\ taken' = [taken EXCEPT ![r] = 0]

\* Nobody reads the race's channel any more.
Over(r) ==
  /\ phase' = [phase EXCEPT ![r] = "free"]
  /\ racers' = [racers EXCEPT ![r] = [e \in Endpoints |-> "none"]]
  /\ LoopEnds(r)

Return(k) ==
  /\ at' = [at EXCEPT ![k] = "idle"]
  /\ attempt' = [attempt EXCEPT ![k] = 0]
  /\ slot' = [slot EXCEPT ![k] = None]
  /\ UNCHANGED callsLeft

\* The race failed: the next attempt, or the error of the last one.
Retry(k) ==
  IF attempt[k] < MaxRetries
    THEN /\ at' = [at EXCEPT ![k] = "ready"]
         /\ slot' = [slot EXCEPT ![k] = None]
         /\ UNCHANGED <<attempt, callsLeft>>
    ELSE Return(k)

\* Variant: the drainer waits for the winner's result too.
LeftToDrainAll(r) == started[r] - taken[r]

\* len(racers) - i - 1
LeftToDrain(r) == started[r] - taken[r] - 1

\* The first success wins: it is recorded, the others are cancelled and left
\* to a drainer, the call returns.
Win(k, e) ==
  LET r == slot[k]
  IN  /\ at[k] = "race"
      /\ racers[r][e] = "ok"
      /\ RecordWin(e)
      /\ Took(r, e)
      /\ due' = [due EXCEPT ![r] = LeftToDrain(r)]
      /\ phase' = [phase EXCEPT ![r] = "drain"]
      /\ LoopEnds(r)
      /\ Return(k)

\* Variant: the loop waits for one result more than there are racers.
LossWaiting(k, e) ==
  LET r == slot[k]
  IN  /\ at[k] = "race"
      /\ racers[r][e] = "fail"
      /\ RecordFail(e)
      /\ Took(r, e)
      /\ taken' = [taken EXCEPT ![r] = @ + 1]
      /\ UNCHANGED <<phase, callers, started, due>>

\* A failure comes first: it is recorded, and the race goes on as long as a
\* racer is left.
Loss(k, e) ==
  LET r == slot[k]
  IN  /\ at[k] = "race"
      /\ racers[r][e] = "fail"
      /\ RecordFail(e)
      /\ IF taken[r] + 1 = started[r]
           THEN Over(r) /\ Retry(k)
           ELSE /\ Took(r, e)
                /\ taken' = [taken EXCEPT ![r] = @ + 1]
                /\ UNCHANGED <<phase, callers, started>>
      /\ UNCHANGED due

\* The attempt's context ends: the results of its racers stay in the buffered
\* channel, which nobody reads again.
AttemptTimesOut(k) ==
  /\ at[k] = "race"
  /\ Over(slot[k])
  /\ Retry(k)
  /\ UNCHANGED <<pool, due>>

\* The call's budget ends between two attempts.
BudgetEnds(k) ==
  /\ at[k] = "ready" /\ attempt[k] > 0
  /\ Return(k)
  /\ UNCHANGED <<pool, race>>

\* Variant: the drainer takes a cancellation for a failure.
DrainBlaming(r, e) ==
  /\ phase[r] = "drain" /\ due[r] > 0
  /\ racers[r][e] \in Results
  /\ IF racers[r][e] = "ok" THEN UNCHANGED pool ELSE RecordFail(e)
  /\ Took(r, e)
  /\ due' = [due EXCEPT ![r] = @ - 1]
  /\ UNCHANGED <<phase, loop, callers>>

\* The drainer takes a late result: a real failure counts, a success or a
\* cancellation does not.
Drain(r, e) ==
  /\ phase[r] = "drain" /\ due[r] > 0
  /\ racers[r][e] \in Results
  /\ IF racers[r][e] = "fail" THEN RecordFail(e) ELSE UNCHANGED pool
  /\ Took(r, e)
  /\ due' = [due EXCEPT ![r] = @ - 1]
  /\ UNCHANGED <<phase, loop, callers>>

\* The drainer has all it waits for, and ends.
DrainerEnds(r) ==
  /\ phase[r] = "drain" /\ due[r] = 0
  /\ Over(r)
  /\ UNCHANGED <<pool, due, callers>>

CallStep(k) ==
  \/ \E r \in Slots : StartRace(k, r)
  \/ \E e \in Endpoints : Win(k, e) \/ Loss(k, e)

RaceStep(r) ==
  \/ \E e \in Endpoints : RequestEnds(r, e) \/ Drain(r, e)
  \/ DrainerEnds(r)

\* The last call has returned and every goroutine has ended.
Quiet ==
  /\ callsLeft = 0
  /\ \A k \in Callers : at[k] = "idle"
  /\ \A r \in Slots : phase[r] = "free"
  /\ UNCHANGED vars

Next ==
  \/ \E k \in Callers :
       StartCall(k) \/ CallStep(k) \/ AttemptTimesOut(k) \/ BudgetEnds(k)
  \/ \E r \in Slots : RaceStep(r)
  \/ \E e \in Endpoints : BreakerPasses(e)
  \/ StickyExpires
  \/ Quiet

Spec == Init /\ [][Next]_vars

\* The context of a race ends every request; goroutines run on.
FairSpec ==
  /\ Spec
  /\ \A k \in Callers : WF_vars(CallStep(k))
  /\ \A r \in Slots : WF_vars(RaceStep(r))
-----------------------------------------------------------------------------
\* The types; a drainer's count never goes below zero.
TypeOK ==
  /\ wins \in [Endpoints -> Nat] /\ streak \in [Endpoints -> Nat]
  /\ breaker \in [Endpoints -> {"zero", "open", "past"}]
  /\ sticky \in Endpoints \cup {None} /\ live \in BOOLEAN
  /\ phase \in [Slots -> {"free", "race", "drain"}]
  /\ racers \in [Slots -> [Endpoints -> {"none", "run"} \cup Results]]
  /\ started \in [Slots -> Nat] /\ taken \in [Slots -> Nat]
  /\ due \in [Slots -> Nat]
  /\ at \in [Callers -> {"idle", "ready", "race"}]
  /\ attempt \in [Callers -> Nat] /\ slot \in [Callers -> Slots \cup {None}]
  /\ callsLeft \in Nat

\* The sticky endpoint's wins are wins in a row, no failure and no other
\* endpoint's win among them, whichever races and drainers recorded them: it
\* takes PromoteWins of them to be raced ahead of the others.
StickyEarned == sticky # None => wins[sticky] = streak[sticky]

\* The sticky endpoint's breaker is closed: its last recorded result is a
\* win, however late the failures of earlier races come in.
StickyHealthy == sticky # None => breaker[sticky] = "zero"

\* The drainer's count, taken from the loop's index when the winner came, is
\* exactly that of the racers whose results are still to come.
DrainerCounts ==
  \A r \in Slots : phase[r] = "drain" => due[r] = Cardinality(Unreceived(r))

\* "Don't penalize for 'we cancelled you because someone else won'": an
\* endpoint loses its wins, or gets its breaker opened, only in a step that
\* takes a failure of its own request out of a channel.
Blameless(e) ==
  ~\E r \in Slots : racers[r][e] = "fail" /\ racers'[r][e] = "none"
Spared(e) ==
  /\ wins'[e] >= wins[e] \/ wins'[e] = 1
  /\ breaker'[e] = "open" => breaker[e] = "open"
OnlyFailuresPunished ==
  [][\A e \in Endpoints : Blameless(e) => Spared(e)]_vars

\* Every call returns, with an answer or an error, even when all breakers
\* are open.
CallsReturn == \A k \in Callers : at[k] # "idle" ~> at[k] = "idle"

\* No goroutine of a race is left behind: racers and drainer all end.
RacesEnd == \A r \in Slots : phase[r] # "free" ~> phase[r] = "free"
=============================================================================
