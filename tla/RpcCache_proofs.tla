-------------------------- MODULE RpcCache_proofs --------------------------
(***************************************************************************)
(* What RpcCache guarantees for any callers, keys, time limits and size of *)
(* the cache.                                                              *)
(***************************************************************************)
EXTENDS RpcCache, FiniteSetTheorems, TLAPS

ClockOK ==
  /\ now \in Nat /\ head \in Nat
  /\ FirstHead <= head /\ head <= FirstHead + now
  /\ lastBlock \in 0 .. head /\ lastBlockAt \in 0 .. now
  /\ purges \in Nat /\ callsLeft \in Nat

CacheOK ==
  /\ DOMAIN cache \subseteq Keys
  /\ cache \in [DOMAIN cache -> Entry]
  /\ \A k \in DOMAIN cache : cache[k].block <= head

FlightsOK ==
  /\ DOMAIN flights \subseteq Keys
  /\ flights \in [DOMAIN flights -> Flight]
  /\ \A k \in DOMAIN flights : flights[k].block <= head

CallersOK == callers \in [Callers -> Caller]

TypeInv == ClockOK /\ CacheOK /\ FlightsOK /\ CallersOK

LEMMA TypeInit == Init => TypeInv
<1> SUFFICES ASSUME Init PROVE TypeInv
  OBVIOUS
<1>1. ClockOK
  BY CacheAssumption DEF Init, ClockOK
<1>2. CacheOK /\ FlightsOK
  BY DEF Init, CacheOK, FlightsOK
<1>3. CallersOK
  BY CacheAssumption DEF Init, CallersOK, Caller
<1> QED
  BY <1>1, <1>2, <1>3 DEF TypeInv

\* What setting a flight does to the table of flights.
LEMMA SetFlightFacts ==
  ASSUME FlightsOK, NEW k \in Keys, NEW f \in Flight, f.block <= head,
         SetFlight(k, f), head' = head
  PROVE  /\ FlightsOK'
         /\ DOMAIN flights' = DOMAIN flights \cup {k}
         /\ flights'[k] = f
         /\ \A j \in DOMAIN flights \ {k} : flights'[j] = flights[j]
<1>1. DOMAIN flights' = DOMAIN flights \cup {k}
  BY DEF SetFlight
<1>2. flights'[k] = f /\ \A j \in DOMAIN flights \ {k} : flights'[j] = flights[j]
  BY DEF SetFlight
<1>3. flights' = [j \in DOMAIN flights' |-> flights'[j]]
  BY DEF SetFlight
<1>4. \A j \in DOMAIN flights' : flights'[j] \in Flight /\ flights'[j].block <= head
  BY <1>1, <1>2 DEF FlightsOK
<1> QED
  BY <1>1, <1>2, <1>3, <1>4 DEF FlightsOK

\* What the end of a flight does.
LEMMA LandFacts ==
  ASSUME FlightsOK, CallersOK, NEW k, NEW results, Land(k, results),
         \A c \in Callers : results[c] \in Caller, head' = head
  PROVE  /\ FlightsOK' /\ CallersOK'
         /\ DOMAIN flights' = DOMAIN flights \ {k}
         /\ \A j \in DOMAIN flights' : flights'[j] = flights[j]
<1>1. /\ DOMAIN flights' = DOMAIN flights \ {k}
      /\ \A j \in DOMAIN flights' : flights'[j] = flights[j]
      /\ flights' = [j \in DOMAIN flights' |-> flights'[j]]
  BY DEF Land
<1>2. FlightsOK'
  BY <1>1 DEF FlightsOK
<1>3. CallersOK'
  BY DEF Land, CallersOK
<1> QED
  BY <1>1, <1>2, <1>3

LEMMA AnsweredType ==
  ASSUME ClockOK, CallersOK, NEW k \in Keys, NEW block \in Nat,
         NEW stored \in Nat
  PROVE  \A c \in Callers :
           /\ Answered(k, block, stored)[c] \in Caller
           /\ Answered(k, block, stored)[c].key = k
           /\ Answered(k, block, stored)[c].since = callers[c].since
           /\ Answered(k, block, stored)[c].stored = stored
           /\ Answered(k, block, stored)[c].behind = head - block
BY DEF Answered, Caller, CallersOK, ClockOK

LEMMA FailedType ==
  ASSUME CallersOK
  PROVE  \A c \in Callers :
           [i \in Callers |-> [callers[i] EXCEPT !.pc = "failed"]][c] \in Caller
BY DEF CallersOK, Caller

LEMMA DropPositive ==
  MaxEntries \div DropPart \in Nat \ {0}
BY DropAssumption

\* Dropping part of a finite set leaves the rest of its elements.
LEMMA DropCount ==
  ASSUME NEW S, IsFiniteSet(S), NEW T, T \subseteq S
  PROVE  /\ IsFiniteSet(S \ T)
         /\ Cardinality(S \ T) = Cardinality(S) - Cardinality(T)
<1>1. S \cap T = T
  OBVIOUS
<1>2. /\ IsFiniteSet(S \ T)
      /\ Cardinality(S \ T) = Cardinality(S) - Cardinality(S \cap T)
  BY FS_Difference, Zenon
<1> QED
  BY <1>1, <1>2

\* What putCache keeps is of the cache, and leaves room for one.
LEMMA KeptFacts ==
  ASSUME CacheOK, NEW kept \in Kept, Cardinality(DOMAIN cache) <= MaxEntries
  PROVE  /\ kept \subseteq DOMAIN cache
         /\ IsFiniteSet(kept) /\ Cardinality(kept) < MaxEntries
<1> DEFINE live == {k \in DOMAIN cache : Fresh(k)}
<1>1. IsFiniteSet(DOMAIN cache) /\ Cardinality(DOMAIN cache) \in Nat
  BY CacheAssumption, FS_Subset, FS_CardinalityType DEF CacheOK
<1>2. /\ IsFiniteSet(live) /\ Cardinality(live) \in Nat
      /\ Cardinality(live) <= Cardinality(DOMAIN cache)
  BY <1>1, FS_Subset, FS_CardinalityType
<1>3. CASE ~Full(DOMAIN cache)
  BY <1>1, <1>3, DropAssumption DEF Kept, Full
<1>4. CASE Full(DOMAIN cache) /\ ~Full(live)
  <2>1. kept = live
    BY <1>4 DEF Kept
  <2> QED
    BY <1>2, <1>4, <2>1, DropAssumption DEF Full
<1>5. CASE Full(DOMAIN cache) /\ Full(live)
  <2>1. PICK drop \in kSubset(MaxEntries \div DropPart, live) : kept = live \ drop
    BY <1>5 DEF Kept
  <2>2. drop \subseteq live /\ Cardinality(drop) = MaxEntries \div DropPart
    BY <2>1 DEF kSubset
  <2>3. /\ IsFiniteSet(live \ drop)
        /\ Cardinality(live \ drop) = Cardinality(live) - Cardinality(drop)
    <3> HIDE DEF live
    <3> QED
      BY <1>2, <2>2, DropCount, Zenon
  <2>4. /\ IsFiniteSet(kept)
        /\ Cardinality(kept) = Cardinality(live) - Cardinality(drop)
    BY <2>1, <2>3, Zenon
  <2>5. Cardinality(kept) < MaxEntries
    BY <1>1, <1>2, <2>2, <2>4, DropPositive, DropAssumption
  <2> QED
    BY <2>1, <2>4, <2>5
<1> QED
  BY <1>3, <1>4, <1>5
-----------------------------------------------------------------------------
\* Calls, type by type.
LEMMA CallType ==
  ASSUME TypeInv, NEW c \in Callers, NEW k \in Keys,
         BlockNumberSeen(c) \/ Call(c, k)
  PROVE  /\ CallersOK' /\ callsLeft' \in Nat
         /\ UNCHANGED <<now, head, cache, lastBlock, lastBlockAt, flights,
                        purges>>
<1>1. callsLeft' \in Nat
  BY DEF BlockNumberSeen, Call, BeginCall, TypeInv, ClockOK
<1>2. UNCHANGED <<now, head, cache, lastBlock, lastBlockAt, flights, purges>>
  BY DEF BlockNumberSeen, Call
<1>3. /\ HeadKey \in Keys /\ purges \in Nat /\ head \in Nat /\ lastBlock \in Nat
      /\ callers \in [Callers -> Caller]
  BY CacheAssumption DEF TypeInv, ClockOK, CallersOK
<1>4. CASE BlockNumberSeen(c)
  <2>1. [pc |-> "done", key |-> HeadKey, since |-> purges, stored |-> purges,
         behind |-> head - lastBlock] \in Caller
    BY <1>3 DEF Caller
  <2> QED
    BY <1>1, <1>2, <1>3, <1>4, <2>1 DEF BlockNumberSeen, CallersOK
<1>5. CASE Call(c, k)
  <2>1. Fresh(k) => cache[k].block \in Nat /\ cache[k].stored \in Nat
    BY DEF Fresh, TypeInv, CacheOK, Entry
  <2>2. Fresh(k) => [pc |-> "done", key |-> k, since |-> purges,
                     stored |-> cache[k].stored,
                     behind |-> head - cache[k].block] \in Caller
    BY <1>3, <2>1 DEF Caller
  <2>3. [pc |-> "missed", key |-> k, since |-> purges, stored |-> 0,
         behind |-> 0] \in Caller
    BY <1>3 DEF Caller
  <2>4. CallersOK'
    BY <1>3, <1>5, <2>2, <2>3 DEF Call, CallersOK
  <2> QED
    BY <1>1, <1>2, <2>4
<1> QED
  BY <1>4, <1>5

LEMMA DoType ==
  ASSUME TypeInv, NEW c \in Callers, Do(c)
  PROVE  TypeInv' /\ UNCHANGED <<now, head, cache, lastBlock, lastBlockAt, purges>>
<1>1. UNCHANGED <<now, head, cache, lastBlock, lastBlockAt, purges, callsLeft>>
  BY DEF Do
<1>2. callers[c] \in Caller /\ callers[c].key \in Keys
  BY DEF TypeInv, CallersOK, Caller
<1>3. CallersOK'
  <2>1. [callers[c] EXCEPT !.pc = "waiting"] \in Caller
    BY <1>2 DEF Caller
  <2> QED
    BY <2>1 DEF Do, TypeInv, CallersOK
<1>4. FlightsOK'
  <2>1. CASE UNCHANGED flights
    BY <1>1, <2>1 DEF TypeInv, FlightsOK
  <2>2. CASE SetFlight(callers[c].key, [phase |-> "recheck", block |-> 0])
    <3>1. [phase |-> "recheck", block |-> 0] \in Flight
      BY DEF Flight, Phases
    <3>2. [phase |-> "recheck", block |-> 0].block <= head
      BY DEF TypeInv, ClockOK
    <3> QED
      BY <1>1, <1>2, <2>2, <3>1, <3>2, SetFlightFacts DEF TypeInv
  <2> QED
    BY <2>1, <2>2 DEF Do
<1> QED
  BY <1>1, <1>3, <1>4 DEF TypeInv, ClockOK, CacheOK

\* The steps of a flight before it lands.
LEMMA RaceType ==
  ASSUME TypeInv, NEW k \in Keys, RecheckMiss(k) \/ Answer(k)
  PROVE  /\ TypeInv'
         /\ UNCHANGED <<now, head, cache, lastBlock, lastBlockAt, callers, purges>>
         /\ \E f \in Flight : /\ SetFlight(k, f)
                              /\ f.phase = "race" \/ f.block + Lag >= head
<1>1. UNCHANGED <<now, head, cache, lastBlock, lastBlockAt, callers, purges,
                  callsLeft>>
  BY DEF RecheckMiss, Answer
<1>2. head \in Nat /\ head >= FirstHead
  BY DEF TypeInv, ClockOK
<1>3. \E f \in Flight : /\ SetFlight(k, f) /\ f.block <= head
                        /\ f.phase = "race" \/ f.block + Lag >= head
  <2>1. CASE RecheckMiss(k)
    <3>1. [phase |-> "race", block |-> 0] \in Flight
      BY DEF Flight, Phases
    <3> QED
      BY <1>2, <2>1, <3>1 DEF RecheckMiss
  <2>2. CASE Answer(k)
    <3>1. PICK b \in (head - Lag) .. head :
            SetFlight(k, [phase |-> IF k = HeadKey THEN "record" ELSE "put",
                          block |-> b])
      BY <2>2 DEF Answer
    <3>2. b \in Nat /\ b <= head /\ b + Lag >= head
      BY <1>2, CacheAssumption
    <3>3. [phase |-> IF k = HeadKey THEN "record" ELSE "put", block |-> b]
            \in Flight
      BY <3>2 DEF Flight, Phases
    <3> QED
      BY <3>1, <3>2, <3>3
  <2> QED
    BY <2>1, <2>2
<1>4. FlightsOK'
  BY <1>1, <1>3, SetFlightFacts DEF TypeInv
<1> QED
  BY <1>1, <1>3, <1>4 DEF TypeInv, ClockOK, CacheOK, CallersOK

LEMMA LandType ==
  ASSUME TypeInv, NEW k \in Keys, RecheckHit(k) \/ RaceFails(k)
  PROVE  TypeInv' /\ UNCHANGED <<now, head, cache, lastBlock, lastBlockAt, purges>>
<1>1. UNCHANGED <<now, head, cache, lastBlock, lastBlockAt, purges, callsLeft>>
  BY DEF RecheckHit, RaceFails
<1>2. FlightsOK' /\ CallersOK'
  <2>1. CASE RecheckHit(k)
    <3>1. cache[k].block \in Nat /\ cache[k].stored \in Nat
      BY <2>1 DEF RecheckHit, Fresh, TypeInv, CacheOK, Entry
    <3>2. \A c \in Callers :
            Answered(k, cache[k].block, cache[k].stored)[c] \in Caller
      BY <3>1, AnsweredType DEF TypeInv
    <3> QED
      BY <1>1, <2>1, <3>2, LandFacts DEF RecheckHit, TypeInv
  <2>2. CASE RaceFails(k)
    <3>1. \A c \in Callers :
            [i \in Callers |-> [callers[i] EXCEPT !.pc = "failed"]][c] \in Caller
      BY FailedType DEF TypeInv
    <3> QED
      BY <1>1, <2>2, <3>1, LandFacts DEF RaceFails, TypeInv
  <2> QED
    BY <2>1, <2>2
<1> QED
  BY <1>1, <1>2 DEF TypeInv, ClockOK, CacheOK

\* The cache after putCache.
LEMMA PutFacts ==
  ASSUME TypeInv, Cardinality(DOMAIN cache) <= MaxEntries,
         NEW k \in Keys, Put(k)
  PROVE  /\ TypeInv'
         /\ Cardinality(DOMAIN cache') <= MaxEntries
         /\ k \in DOMAIN cache' /\ DOMAIN cache' \subseteq DOMAIN cache \cup {k}
         /\ cache'[k] = [block |-> flights[k].block, expires |-> now + TTL,
                         stored |-> purges]
         /\ \A j \in DOMAIN cache' \ {k} : cache'[j] = cache[j]
         /\ flights[k].phase = "put" /\ k \in DOMAIN flights
         /\ UNCHANGED <<now, head, lastBlock, lastBlockAt, purges>>
<1> DEFINE entry == [block |-> flights[k].block, expires |-> now + TTL,
                     stored |-> purges]
<1>1. PICK kept \in Kept :
        cache' = [j \in kept \cup {k} |-> IF j = k THEN entry ELSE cache[j]]
  BY DEF Put
<1>2. /\ kept \subseteq DOMAIN cache
      /\ IsFiniteSet(kept) /\ Cardinality(kept) < MaxEntries
  BY <1>1, KeptFacts DEF TypeInv
<1>3. Cardinality(kept) \in Nat
  BY <1>2, FS_CardinalityType
<1>4. Cardinality(kept \cup {k}) <= MaxEntries
  <2>1. \/ Cardinality(kept \cup {k}) = Cardinality(kept)
        \/ Cardinality(kept \cup {k}) = Cardinality(kept) + 1
    BY <1>2, FS_AddElement
  <2> QED
    BY <1>2, <1>3, <2>1, DropAssumption
<1>5. UNCHANGED <<now, head, lastBlock, lastBlockAt, purges, callsLeft>>
  BY DEF Put
<1>6. k \in DOMAIN flights /\ flights[k].phase = "put"
  BY DEF Put
<1>7. flights[k].block \in Nat /\ flights[k].block <= head
  BY <1>6 DEF TypeInv, FlightsOK, Flight
<1>8. entry \in Entry /\ entry.block <= head
  BY <1>7, CacheAssumption DEF Entry, TypeInv, ClockOK
<1>9. DOMAIN cache' = kept \cup {k} /\ cache'[k] = entry
      /\ \A j \in DOMAIN cache' \ {k} : cache'[j] = cache[j]
  BY <1>1
<1>10. CacheOK'
  <2>1. \A j \in DOMAIN cache' : cache'[j] \in Entry /\ cache'[j].block <= head
    BY <1>2, <1>8, <1>9 DEF TypeInv, CacheOK
  <2>2. cache' = [j \in DOMAIN cache' |-> cache'[j]]
    BY <1>1
  <2>3. DOMAIN cache' \subseteq Keys
    BY <1>2, <1>9 DEF TypeInv, CacheOK
  <2> QED
    BY <1>5, <2>1, <2>2, <2>3 DEF CacheOK
<1>11. FlightsOK' /\ CallersOK'
  <2>1. \A c \in Callers : Answered(k, flights[k].block, purges)[c] \in Caller
    BY <1>7, AnsweredType DEF TypeInv, ClockOK
  <2> QED
    BY <1>5, <2>1, LandFacts DEF Put, TypeInv
<1>12. TypeInv'
  BY <1>5, <1>10, <1>11 DEF TypeInv, ClockOK
<1> QED
  BY <1>2, <1>4, <1>5, <1>6, <1>9, <1>12

LEMMA RecordFacts ==
  ASSUME TypeInv, Record
  PROVE  /\ TypeInv'
         /\ HeadKey \in DOMAIN flights /\ flights[HeadKey].phase = "record"
         /\ UNCHANGED <<now, head, cache, callers, purges>>
         /\ DOMAIN flights' = DOMAIN flights
         /\ flights'[HeadKey].block = flights[HeadKey].block
         /\ \A j \in DOMAIN flights \ {HeadKey} : flights'[j] = flights[j]
         /\ IF flights[HeadKey].block > lastBlock
            THEN lastBlock' = flights[HeadKey].block /\ lastBlockAt' = now
            ELSE UNCHANGED <<lastBlock, lastBlockAt>>
<1> DEFINE n == flights[HeadKey].block
           f == [phase |-> IF n # lastBlock THEN "purge" ELSE "put", block |-> n]
<1>1. HeadKey \in DOMAIN flights /\ flights[HeadKey].phase = "record"
  BY DEF Record
<1>2. n \in Nat /\ n <= head /\ HeadKey \in Keys
  BY <1>1, CacheAssumption DEF TypeInv, FlightsOK, Flight
<1>3. f \in Flight /\ f.block = n
  BY <1>2 DEF Flight, Phases
<1>4. SetFlight(HeadKey, f)
  BY DEF Record
<1>5. UNCHANGED <<now, head, cache, callers, purges, callsLeft>>
  BY DEF Record
<1>6. /\ FlightsOK'
      /\ DOMAIN flights' = DOMAIN flights \cup {HeadKey}
      /\ flights'[HeadKey] = f
      /\ \A j \in DOMAIN flights \ {HeadKey} : flights'[j] = flights[j]
  BY <1>2, <1>3, <1>4, <1>5, SetFlightFacts DEF TypeInv
<1>7. IF n > lastBlock THEN lastBlock' = n /\ lastBlockAt' = now
      ELSE UNCHANGED <<lastBlock, lastBlockAt>>
  BY DEF Record
<1>8. ClockOK'
  BY <1>2, <1>5, <1>7 DEF ClockOK, TypeInv
<1>9. TypeInv'
  BY <1>5, <1>6, <1>8 DEF TypeInv, CacheOK, CallersOK
<1> QED
  BY <1>1, <1>3, <1>5, <1>6, <1>7, <1>9

LEMMA PurgeFacts ==
  ASSUME TypeInv, Purge
  PROVE  /\ TypeInv'
         /\ HeadKey \in DOMAIN flights /\ flights[HeadKey].phase = "purge"
         /\ UNCHANGED <<now, head, lastBlock, lastBlockAt, callers>>
         /\ purges' = purges + 1
         /\ DOMAIN cache' = DOMAIN cache \cap Stable
         /\ \A k \in DOMAIN cache' : cache'[k] = cache[k]
         /\ DOMAIN flights' = DOMAIN flights
         /\ flights'[HeadKey].block = flights[HeadKey].block
         /\ \A j \in DOMAIN flights \ {HeadKey} : flights'[j] = flights[j]
<1> DEFINE f == [flights[HeadKey] EXCEPT !.phase = "put"]
<1>1. HeadKey \in DOMAIN flights /\ flights[HeadKey].phase = "purge"
  BY DEF Purge
<1>2. flights[HeadKey] \in Flight /\ flights[HeadKey].block <= head
      /\ HeadKey \in Keys
  BY <1>1, CacheAssumption DEF TypeInv, FlightsOK
<1>3. f \in Flight /\ f.block = flights[HeadKey].block
  BY <1>2 DEF Flight, Phases
<1>4. SetFlight(HeadKey, f)
  BY DEF Purge
<1>5. /\ UNCHANGED <<now, head, lastBlock, lastBlockAt, callers, callsLeft>>
      /\ purges' = purges + 1
      /\ cache' = [k \in DOMAIN cache \cap Stable |-> cache[k]]
  BY DEF Purge
<1>6. /\ FlightsOK'
      /\ DOMAIN flights' = DOMAIN flights \cup {HeadKey}
      /\ flights'[HeadKey] = f
      /\ \A j \in DOMAIN flights \ {HeadKey} : flights'[j] = flights[j]
  BY <1>2, <1>3, <1>4, <1>5, SetFlightFacts DEF TypeInv
<1>7. CacheOK'
  BY <1>5 DEF TypeInv, CacheOK
<1>8. TypeInv'
  BY <1>5, <1>6, <1>7 DEF TypeInv, ClockOK, CallersOK
<1> QED
  BY <1>1, <1>3, <1>5, <1>6, <1>8
-----------------------------------------------------------------------------
\* Where the cache holds no more than it may, so does the next one.
Bounded == TypeInv /\ EntriesBounded

LEMMA BoundedInit == Init => Bounded
<1> SUFFICES ASSUME Init PROVE Bounded
  OBVIOUS
<1>1. DOMAIN cache = {}
  BY DEF Init
<1>2. Cardinality({}) = 0
  BY FS_EmptySet
<1> QED
  BY <1>1, <1>2, TypeInit, DropAssumption DEF Bounded, EntriesBounded

LEMMA PassType ==
  ASSUME TypeInv, Pass
  PROVE  TypeInv'
<1>1. /\ now' = now + 1 /\ head' \in {head, head + 1}
      /\ UNCHANGED <<cache, lastBlock, lastBlockAt, flights, callers, purges,
                     callsLeft>>
  BY DEF Pass
<1>2. ClockOK'
  <2>1. CASE head' = head
    BY <1>1, <2>1, CacheAssumption DEF TypeInv, ClockOK
  <2>2. CASE head' = head + 1
    BY <1>1, <2>2, CacheAssumption DEF TypeInv, ClockOK
  <2> QED
    BY <1>1, <2>1, <2>2
<1>3. head \in Nat /\ head <= head' /\ head' \in Nat
  BY <1>1 DEF TypeInv, ClockOK
<1>4. CacheOK'
  <2>1. \A k \in DOMAIN cache : cache[k].block \in Nat /\ cache[k].block <= head
    BY DEF TypeInv, CacheOK, Entry
  <2>2. \A k \in DOMAIN cache : cache[k].block <= head'
    BY <1>3, <2>1
  <2> QED
    BY <1>1, <2>2 DEF TypeInv, CacheOK
<1>5. FlightsOK'
  <2>1. \A k \in DOMAIN flights :
          flights[k].block \in Nat /\ flights[k].block <= head
    BY DEF TypeInv, FlightsOK, Flight
  <2>2. \A k \in DOMAIN flights : flights[k].block <= head'
    BY <1>3, <2>1
  <2> QED
    BY <1>1, <2>2 DEF TypeInv, FlightsOK
<1> QED
  BY <1>1, <1>2, <1>4, <1>5 DEF TypeInv, CallersOK

LEMMA BoundedStep == Bounded /\ [Next]_vars => Bounded'
<1> SUFFICES ASSUME Bounded, [Next]_vars PROVE Bounded'
  OBVIOUS
<1>0. TypeInv /\ Cardinality(DOMAIN cache) <= MaxEntries
  BY DEF Bounded, EntriesBounded
<1>1. CASE Pass
  BY <1>0, <1>1, PassType DEF Bounded, EntriesBounded, Pass
<1>2. CASE Record
  BY <1>0, <1>2, RecordFacts DEF Bounded, EntriesBounded
<1>3. CASE Purge
  <2>1. TypeInv' /\ DOMAIN cache' \subseteq DOMAIN cache
    BY <1>0, <1>3, PurgeFacts
  <2>2. IsFiniteSet(DOMAIN cache)
    BY <1>0, CacheAssumption, FS_Subset DEF TypeInv, CacheOK
  <2>3. /\ Cardinality(DOMAIN cache') <= Cardinality(DOMAIN cache)
        /\ Cardinality(DOMAIN cache') \in Nat /\ Cardinality(DOMAIN cache) \in Nat
    BY <2>1, <2>2, FS_Subset, FS_CardinalityType
  <2> QED
    BY <1>0, <2>1, <2>3, DropAssumption DEF Bounded, EntriesBounded
<1>4. ASSUME NEW c \in Callers, NEW k \in Keys, BlockNumberSeen(c) \/ Call(c, k)
      PROVE  Bounded'
  <2>1. /\ CallersOK' /\ callsLeft' \in Nat
        /\ UNCHANGED <<now, head, cache, lastBlock, lastBlockAt, flights, purges>>
    BY <1>0, <1>4, CallType
  <2> QED
    BY <1>0, <2>1
    DEF Bounded, EntriesBounded, TypeInv, ClockOK, CacheOK, FlightsOK
<1>5. ASSUME NEW c \in Callers, Do(c)
      PROVE  Bounded'
  BY <1>0, <1>5, DoType DEF Bounded, EntriesBounded
<1>6. ASSUME NEW k \in Keys, FlightStep(k)
      PROVE  Bounded'
  <2>1. CASE RecheckMiss(k) \/ Answer(k)
    BY <1>0, <2>1, RaceType DEF Bounded, EntriesBounded
  <2>2. CASE RecheckHit(k) \/ RaceFails(k)
    BY <1>0, <2>2, LandType DEF Bounded, EntriesBounded
  <2>3. CASE Put(k)
    BY <1>0, <2>3, PutFacts DEF Bounded, EntriesBounded
  <2> QED
    BY <1>6, <2>1, <2>2, <2>3 DEF FlightStep
<1>7. CASE UNCHANGED vars
  BY <1>0, <1>7 DEF vars, Bounded, EntriesBounded, TypeInv, ClockOK, CacheOK,
                    FlightsOK, CallersOK
<1> QED
  BY <1>1, <1>2, <1>3, <1>4, <1>5, <1>6, <1>7, CacheAssumption
  DEF Next, Begin, Quiet

LEMMA BoundedAlways == Spec => []Bounded
BY BoundedInit, BoundedStep, PTL DEF Spec

ServedOK == served \subseteq Callers

LEMMA ServedStep == ServedOK /\ [Next]_vars => ServedOK'
BY DEF ServedOK, Next, vars, Pass, Record, Purge, Quiet, Begin, BlockNumberSeen,
       Call, Do, FlightStep, RecheckHit, RecheckMiss, Answer, RaceFails, Put,
       StillServed

LEMMA ServedAlways == Spec => []ServedOK
<1>1. Init => ServedOK
  BY DEF Init, ServedOK
<1> QED
  BY <1>1, ServedStep, PTL DEF Spec

LEMMA BoundedIsTyped == Bounded /\ ServedOK => TypeOK
BY CacheAssumption DEF Bounded, TypeInv, TypeOK, ClockOK, CacheOK, FlightsOK,
                       CallersOK, ServedOK

\* Every value keeps its type; the chain's head is never behind the last block
\* that recordBlockResp kept.
THEOREM TypeCorrect == Spec => []TypeOK
BY BoundedAlways, ServedAlways, BoundedIsTyped, PTL

\* putCache keeps the cache within MaxCacheEntries, whichever entries it drops.
THEOREM CacheBounded == Spec => []EntriesBounded
<1>1. Bounded => EntriesBounded
  BY DEF Bounded
<1> QED
  BY <1>1, BoundedAlways, PTL
-----------------------------------------------------------------------------
\* What RaceOnce needs: a caller that is to find an answer finds a good one,
\* and until then no flight of its key gets beyond the second look; no flight
\* is beyond it while the cache has a good answer.
OnceInv ==
  /\ \A c \in served :
       /\ callers[c].pc \in {"missed", "waiting"} => Fresh(callers[c].key)
       /\ callers[c].pc = "waiting" =>
            /\ callers[c].key \in DOMAIN flights
            /\ flights[callers[c].key].phase = "recheck"
  /\ \A k \in DOMAIN flights : flights[k].phase # "recheck" => ~Fresh(k)

LEMMA OnceInit == Init => OnceInv
BY DEF Init, OnceInv

\* A flight that is beyond the second look has nobody who was served.
LEMMA OnceGoesOn ==
  ASSUME OnceInv, NEW k \in DOMAIN flights, NEW f, SetFlight(k, f), ~Fresh(k),
         UNCHANGED <<now, cache, callers, served>>
  PROVE  OnceInv'
<1>1. /\ DOMAIN flights' = DOMAIN flights /\ flights'[k] = f
      /\ \A j \in DOMAIN flights : j # k => flights'[j] = flights[j]
  BY DEF SetFlight
<1>2. \A j : Fresh(j)' <=> Fresh(j)
  BY DEF Fresh
<1>3. \A c \in served : callers[c].pc = "waiting" => callers[c].key # k
  BY DEF OnceInv
<1> QED
  BY <1>1, <1>2, <1>3 DEF OnceInv

LEMMA OnceLands ==
  ASSUME OnceInv, NEW k \in DOMAIN flights, NEW results, Land(k, results),
         \A c \in Callers : results[c].pc \notin {"missed", "waiting"},
         UNCHANGED <<now, cache, served>>, ServedOK
  PROVE  OnceInv'
<1>1. /\ DOMAIN flights' = DOMAIN flights \ {k}
      /\ \A j \in DOMAIN flights' : flights'[j] = flights[j]
  BY DEF Land
<1>2. \A c \in Callers :
        callers'[c] = IF callers[c].pc = "waiting" /\ callers[c].key = k
                      THEN results[c] ELSE callers[c]
  BY DEF Land
<1>3. \A j : Fresh(j)' <=> Fresh(j)
  BY DEF Fresh
<1>4. \A c \in served :
        callers'[c].pc \in {"missed", "waiting"} =>
          /\ callers'[c] = callers[c]
          /\ callers[c].pc = "waiting" => callers[c].key # k
  BY <1>2 DEF ServedOK
<1> QED
  BY <1>1, <1>3, <1>4 DEF OnceInv

LEMMA OnceStep ==
  Bounded /\ ServedOK /\ OnceInv /\ [Next]_vars => OnceInv'
<1> SUFFICES ASSUME Bounded, ServedOK, OnceInv, [Next]_vars PROVE OnceInv'
  OBVIOUS
<1>0. /\ TypeInv /\ Cardinality(DOMAIN cache) <= MaxEntries /\ now \in Nat
      /\ callers \in [Callers -> Caller]
  BY DEF Bounded, EntriesBounded, TypeInv, ClockOK, CallersOK
<1>1. CASE Pass
  <2>1. \A c \in served : callers[c].pc \notin {"missed", "waiting"}
    BY <1>1 DEF Pass, OnceInv, ServedOK
  <2>2. \A k \in DOMAIN cache : cache[k].expires \in Nat
    BY <1>0 DEF TypeInv, CacheOK, Entry
  <2>3. now' = now + 1 /\ UNCHANGED <<cache, flights, callers, served>>
    BY <1>1 DEF Pass
  <2>4. \A k : ~Fresh(k) => ~Fresh(k)'
    BY <1>0, <2>2, <2>3 DEF Fresh
  <2> QED
    BY <2>1, <2>3, <2>4 DEF OnceInv
<1>2. CASE Record
  <2>1. /\ HeadKey \in DOMAIN flights /\ ~Fresh(HeadKey)
        /\ UNCHANGED <<now, cache, callers, served>>
    BY <1>2 DEF Record, OnceInv
  <2> QED
    BY <1>2, <2>1, OnceGoesOn DEF Record
<1>3. CASE Purge
  <2>1. /\ HeadKey \in DOMAIN flights /\ ~Fresh(HeadKey)
        /\ UNCHANGED <<now, callers>> /\ served' = StillServed(served)
        /\ cache' = [k \in DOMAIN cache \cap Stable |-> cache[k]]
        /\ SetFlight(HeadKey, [flights[HeadKey] EXCEPT !.phase = "put"])
    BY <1>3 DEF Purge, OnceInv
  <2>2. \A k \in DOMAIN cache' : Fresh(k)' <=> Fresh(k)
    BY <2>1 DEF Fresh
  <2>3. \A k : Fresh(k)' => Fresh(k)
    BY <2>1 DEF Fresh
  <2>4. /\ DOMAIN flights' = DOMAIN flights
        /\ \A j \in DOMAIN flights : j # HeadKey => flights'[j] = flights[j]
    BY <2>1 DEF SetFlight
  <2>5. \A c \in served' : c \in served /\ callers[c].key \in DOMAIN cache'
    BY <2>1 DEF StillServed
  <2>6. \A c \in served : callers[c].pc = "waiting" => callers[c].key # HeadKey
    BY <2>1 DEF OnceInv
  <2> QED
    BY <2>1, <2>2, <2>3, <2>4, <2>5, <2>6 DEF OnceInv
<1>4. ASSUME NEW c \in Callers, NEW k \in Keys, BlockNumberSeen(c) \/ Call(c, k)
      PROVE  OnceInv'
  <2>1. /\ UNCHANGED <<now, cache, flights>>
        /\ served' \subseteq served
        /\ \A d \in Callers \ {c} : callers'[d] = callers[d]
        /\ c \in served' => callers'[c].pc = "done"
    <3>1. CASE BlockNumberSeen(c)
      BY <1>0, <3>1 DEF BlockNumberSeen
    <3>2. CASE Call(c, k)
      BY <1>0, <3>2 DEF Call
    <3> QED
      BY <1>4, <3>1, <3>2
  <2>2. \A j : Fresh(j)' <=> Fresh(j)
    BY <2>1 DEF Fresh
  <2> QED
    BY <2>1, <2>2 DEF OnceInv, ServedOK
<1>5. ASSUME NEW c \in Callers, Do(c)
      PROVE  OnceInv'
  <2> DEFINE k == callers[c].key
  <2>1. /\ callers[c].pc = "missed" /\ k \in Keys
        /\ UNCHANGED <<now, cache, served>>
        /\ callers'[c].pc = "waiting" /\ callers'[c].key = k
        /\ \A d \in Callers \ {c} : callers'[d] = callers[d]
    BY <1>0, <1>5 DEF Do, Caller
  <2>2. \A j : Fresh(j)' <=> Fresh(j)
    BY <2>1 DEF Fresh
  <2>3. c \in served => Fresh(k)
    BY <2>1 DEF OnceInv
  <2>4. /\ DOMAIN flights' = DOMAIN flights \cup {k}
        /\ \A j \in DOMAIN flights : flights'[j] = flights[j]
        /\ k \notin DOMAIN flights => flights'[k].phase = "recheck"
    <3>1. CASE k \in DOMAIN flights
      BY <1>5, <3>1 DEF Do
    <3>2. CASE k \notin DOMAIN flights
      BY <1>5, <3>2 DEF Do, SetFlight
    <3> QED
      BY <3>1, <3>2
  <2>5. c \in served => flights'[k].phase = "recheck"
    BY <2>3, <2>4 DEF OnceInv
  <2>6. \A j \in DOMAIN flights' : flights'[j].phase # "recheck" => ~Fresh(j)'
    BY <2>2, <2>4 DEF OnceInv
  <2>7. ASSUME NEW d \in served'
        PROVE  /\ callers'[d].pc \in {"missed", "waiting"} => Fresh(callers'[d].key)
               /\ callers'[d].pc = "waiting" =>
                    /\ callers'[d].key \in DOMAIN flights'
                    /\ flights'[callers'[d].key].phase = "recheck"
    <3>1. d \in served /\ d \in Callers
      BY <2>1 DEF ServedOK
    <3>2. CASE d = c
      BY <2>1, <2>3, <2>4, <2>5, <3>1, <3>2
    <3>3. CASE d # c
      BY <2>1, <2>4, <3>1, <3>3 DEF OnceInv
    <3> QED
      BY <3>2, <3>3
  <2> QED
    BY <2>2, <2>6, <2>7 DEF OnceInv
<1>6. ASSUME NEW k \in Keys, RecheckMiss(k) \/ Answer(k)
      PROVE  OnceInv'
  <2>1. /\ k \in DOMAIN flights /\ ~Fresh(k)
        /\ UNCHANGED <<now, cache, callers, served>>
    BY <1>6 DEF RecheckMiss, Answer, OnceInv
  <2>2. PICK f : SetFlight(k, f)
    BY <1>6 DEF RecheckMiss, Answer
  <2> QED
    BY <2>1, <2>2, OnceGoesOn
<1>7. ASSUME NEW k \in Keys, RecheckHit(k) \/ RaceFails(k)
      PROVE  OnceInv'
  <2>1. k \in DOMAIN flights /\ UNCHANGED <<now, cache, served>>
    BY <1>7 DEF RecheckHit, RaceFails
  <2>2. CASE RecheckHit(k)
    <3>1. \A c \in Callers :
            Answered(k, cache[k].block, cache[k].stored)[c].pc = "done"
      BY DEF Answered
    <3> QED
      BY <2>1, <2>2, <3>1, OnceLands DEF RecheckHit
  <2>3. CASE RaceFails(k)
    <3> DEFINE failed == [c \in Callers |-> [callers[c] EXCEPT !.pc = "failed"]]
    <3>1. \A c \in Callers : failed[c].pc = "failed"
      BY <1>0 DEF Caller
    <3>2. Land(k, failed)
      BY <2>3 DEF RaceFails
    <3> HIDE DEF failed
    <3> QED
      BY <2>1, <3>1, <3>2, OnceLands
  <2> QED
    BY <1>7, <2>2, <2>3
<1>8. ASSUME NEW k \in Keys, Put(k)
      PROVE  OnceInv'
  <2> DEFINE late == {c \in Callers : callers[c].pc = "missed" /\ callers[c].key = k}
  <2>1. /\ now' = now
        /\ k \in DOMAIN flights /\ flights[k].phase = "put"
        /\ cache'[k] = [block |-> flights[k].block, expires |-> now + TTL,
                        stored |-> purges]
        /\ DOMAIN cache' \subseteq DOMAIN cache \cup {k}
        /\ \A j \in DOMAIN cache' \ {k} : cache'[j] = cache[j]
    BY <1>0, <1>8, PutFacts
  <2>2. served' = StillServed(served \cup late)
    BY <1>8 DEF Put
  <2>3. Land(k, Answered(k, flights[k].block, purges))
    BY <1>8 DEF Put
  <2>4. \A c \in Callers : \/ callers'[c] = callers[c]
                              /\ ~(callers[c].pc = "waiting" /\ callers[c].key = k)
                           \/ callers'[c].pc = "done"
    BY <2>3 DEF Land, Answered
  <2>5. /\ DOMAIN flights' = DOMAIN flights \ {k}
        /\ \A j \in DOMAIN flights' : flights'[j] = flights[j]
    BY <2>3 DEF Land
  <2>6. cache'[k].expires >= now
    <3>1. cache'[k].expires = now + TTL
      BY <2>1
    <3> QED
      BY <1>0, <3>1, CacheAssumption
  <2>7. \A j \in DOMAIN cache' \ {k} : Fresh(j)' => Fresh(j)
    BY <2>1 DEF Fresh
  <2>9. \A j \in DOMAIN flights' : flights'[j].phase # "recheck" => ~Fresh(j)'
    BY <2>1, <2>5, <2>7 DEF OnceInv, Fresh
  <2>10. ASSUME NEW c \in served'
         PROVE  /\ (callers[c].pc \in {"missed", "waiting"}
                       => Fresh(callers[c].key))'
                /\ callers'[c].pc = "waiting" =>
                     /\ callers'[c].key \in DOMAIN flights'
                     /\ flights'[callers'[c].key].phase = "recheck"
    <3>1. /\ c \in Callers /\ c \in served \cup late
          /\ callers[c].key \in DOMAIN cache'
      BY <2>2 DEF StillServed, ServedOK
    <3>2. CASE callers'[c].pc = "done"
      BY <3>2
    <3>3. CASE /\ callers'[c] = callers[c]
               /\ ~(callers[c].pc = "waiting" /\ callers[c].key = k)
      <4> DEFINE j == callers[c].key
      <4>1. callers[c].pc \in {"missed", "waiting"} =>
              j \in DOMAIN cache' /\ now' <= cache'[j].expires
        <5>1. CASE j = k
          BY <2>1, <2>6, <3>1, <5>1 DEF Fresh
        <5>2. CASE j # k
          <6>1. c \in served
            BY <3>1, <5>2
          <6>2. /\ callers[c].pc \in {"missed", "waiting"} => Fresh(j)
                /\ j \in DOMAIN cache' /\ cache'[j] = cache[j]
            BY <2>1, <3>1, <5>2, <6>1 DEF OnceInv
          <6> QED
            BY <2>1, <6>2 DEF Fresh
        <5> QED
          BY <5>1, <5>2
      <4>2. callers[c].pc = "waiting" =>
              /\ j \in DOMAIN flights' /\ flights'[j].phase = "recheck"
        BY <2>5, <3>1, <3>3 DEF OnceInv
      <4>3. j = callers'[c].key
        BY <3>3
      <4> QED
        BY <3>3, <4>1, <4>2, <4>3 DEF Fresh
    <3> QED
      BY <2>4, <3>1, <3>2, <3>3
  <2> QED
    BY <2>9, <2>10 DEF OnceInv
<1>9. CASE Quiet \/ UNCHANGED vars
  <2>1. UNCHANGED <<now, cache, flights, callers, served>>
    BY <1>9 DEF Quiet, vars
  <2> QED
    BY <2>1 DEF OnceInv, Fresh
<1> QED
  BY <1>1, <1>2, <1>3, <1>4, <1>5, <1>6, <1>7, <1>8, <1>9, CacheAssumption
  DEF Next, Begin, FlightStep

\* Callers that miss together share one race, though they look before they
\* join and a flight may land in between: singleflight's own table forgets it
\* then, and only the second look of CallRaw keeps a late one from racing.
THEOREM RacesOnce == Spec => []RaceOnce
<1>1. Bounded /\ ServedOK /\ OnceInv /\ [Next]_vars => OnceInv'
  BY OnceStep
<1>2. OnceInv => RaceOnce
  BY DEF OnceInv, RaceOnce
<1> QED
  BY <1>1, <1>2, OnceInit, BoundedAlways, ServedAlways, PTL DEF Spec
-----------------------------------------------------------------------------
\* What a purge may take was put into the cache after the last one, and no call
\* began after purges that have not been.
ServeInv ==
  /\ \A k \in DOMAIN cache \ Stable : cache[k].stored = purges
  /\ \A c \in Callers : callers[c].since <= purges
  /\ ServedSincePurge

\* A flight that lands with an answer of now serves ServeInv.
LEMMA LandServes ==
  ASSUME TypeInv, ServeInv, NEW k \in Keys, NEW block \in Nat, NEW stored \in Nat,
         k \notin Stable => stored = purges,
         Land(k, Answered(k, block, stored)), purges' = purges
  PROVE  (\A c \in Callers : callers[c].since <= purges)' /\ ServedSincePurge'
<1>1. \A c \in Callers :
        /\ Answered(k, block, stored)[c].key = k
        /\ Answered(k, block, stored)[c].since = callers[c].since
        /\ Answered(k, block, stored)[c].stored = stored
  BY AnsweredType DEF TypeInv
<1> SUFFICES ASSUME NEW c \in Callers
             PROVE  /\ callers'[c].since <= purges
                    /\ callers'[c].pc = "done" /\ callers'[c].key \notin Stable
                         => callers'[c].stored >= callers'[c].since
  BY DEF ServedSincePurge
<1>2. callers[c].since <= purges /\ callers[c].since \in Nat /\ purges \in Nat
  BY DEF ServeInv, TypeInv, ClockOK, CallersOK, Caller
<1>3. CASE callers'[c] = callers[c]
  BY <1>2, <1>3 DEF ServeInv, ServedSincePurge
<1>4. CASE callers'[c] = Answered(k, block, stored)[c]
  BY <1>1, <1>2, <1>4
<1> QED
  BY <1>3, <1>4 DEF Land

LEMMA ServeStep == Bounded /\ ServeInv /\ [Next]_vars => ServeInv'
<1> SUFFICES ASSUME Bounded, ServeInv, [Next]_vars PROVE ServeInv'
  OBVIOUS
<1> USE DEF Bounded
<1>0. /\ TypeInv /\ Cardinality(DOMAIN cache) <= MaxEntries
      /\ purges \in Nat /\ callers \in [Callers -> Caller]
  BY DEF TypeInv, ClockOK, CallersOK, EntriesBounded
<1>1. CASE UNCHANGED <<cache, callers, purges>>
  BY <1>1 DEF ServeInv, ServedSincePurge
<1>2. CASE Purge
  <2>1. /\ purges' = purges + 1 /\ UNCHANGED callers
        /\ DOMAIN cache' = DOMAIN cache \cap Stable
    BY <1>2, PurgeFacts
  <2>2. \A c \in Callers : callers[c].since <= purges'
    BY <1>0, <2>1 DEF ServeInv, Caller
  <2> QED
    BY <2>1, <2>2 DEF ServeInv, ServedSincePurge
<1>3. ASSUME NEW c \in Callers, NEW k \in Keys, BlockNumberSeen(c) \/ Call(c, k)
      PROVE  ServeInv'
  <2>1. UNCHANGED <<cache, purges>>
    BY <1>3 DEF BlockNumberSeen, Call
  <2>2. \A d \in Callers \ {c} : callers'[d] = callers[d]
    <3>1. CASE BlockNumberSeen(c)
      BY <1>0, <3>1 DEF BlockNumberSeen
    <3>2. CASE Call(c, k)
      BY <1>0, <3>2 DEF Call
    <3> QED
      BY <1>3, <3>1, <3>2
  <2>3. /\ callers'[c].since = purges
        /\ callers'[c].pc = "done" /\ callers'[c].key \notin Stable
             => callers'[c].stored = purges
    <3>1. CASE BlockNumberSeen(c)
      BY <1>0, <3>1 DEF BlockNumberSeen
    <3>2. CASE Call(c, k) /\ Fresh(k)
      <4>1. k \notin Stable => cache[k].stored = purges
        BY <3>2 DEF Fresh, ServeInv
      <4> QED
        BY <1>0, <3>2, <4>1 DEF Call
    <3>3. CASE Call(c, k) /\ ~Fresh(k)
      BY <1>0, <3>3 DEF Call
    <3> QED
      BY <1>3, <3>1, <3>2, <3>3
  <2>4. ServedSincePurge'
    BY <1>0, <2>2, <2>3 DEF ServeInv, ServedSincePurge
  <2> QED
    BY <1>0, <2>1, <2>2, <2>3, <2>4 DEF ServeInv
<1>4. ASSUME NEW c \in Callers, Do(c)
      PROVE  ServeInv'
  <2>1. /\ UNCHANGED <<cache, purges>>
        /\ \A d \in Callers \ {c} : callers'[d] = callers[d]
        /\ callers'[c].since = callers[c].since /\ callers'[c].pc = "waiting"
    BY <1>0, <1>4 DEF Do, Caller
  <2> QED
    BY <2>1 DEF ServeInv, ServedSincePurge
<1>5. ASSUME NEW k \in Keys, RecheckHit(k)
      PROVE  ServeInv'
  <2>1. /\ cache[k].block \in Nat /\ cache[k].stored \in Nat
        /\ k \notin Stable => cache[k].stored = purges
    BY <1>5 DEF RecheckHit, Fresh, TypeInv, CacheOK, Entry, ServeInv
  <2>2. UNCHANGED <<cache, purges>>
    BY <1>5 DEF RecheckHit
  <2>3. Land(k, Answered(k, cache[k].block, cache[k].stored))
    BY <1>5 DEF RecheckHit
  <2> QED
    BY <2>1, <2>2, <2>3, LandServes DEF ServeInv
<1>6. ASSUME NEW k \in Keys, RaceFails(k)
      PROVE  ServeInv'
  <2>1. UNCHANGED <<cache, purges>>
    BY <1>6 DEF RaceFails
  <2>2. \A c \in Callers : [callers[c] EXCEPT !.pc = "failed"].since
                             = callers[c].since
    BY <1>0 DEF Caller
  <2>3. \A c \in Callers : [callers[c] EXCEPT !.pc = "failed"].pc = "failed"
    BY <1>0 DEF Caller
  <2>4. \A c \in Callers : \/ callers'[c] = callers[c]
                           \/ callers'[c] = [callers[c] EXCEPT !.pc = "failed"]
    BY <1>6 DEF RaceFails, Land
  <2>5. \A c \in Callers : callers'[c].since = callers[c].since
    BY <2>2, <2>4
  <2>6. \A c \in Callers : callers'[c] = callers[c] \/ callers'[c].pc = "failed"
    BY <2>3, <2>4
  <2>7. ServedSincePurge'
    BY <2>6 DEF ServeInv, ServedSincePurge
  <2> QED
    BY <2>1, <2>5, <2>7 DEF ServeInv
<1>7. ASSUME NEW k \in Keys, Put(k)
      PROVE  ServeInv'
  <2>1. /\ UNCHANGED purges
        /\ k \in DOMAIN flights
        /\ cache'[k] = [block |-> flights[k].block, expires |-> now + TTL,
                        stored |-> purges]
        /\ DOMAIN cache' \subseteq DOMAIN cache \cup {k}
        /\ \A j \in DOMAIN cache' \ {k} : cache'[j] = cache[j]
    <3> HIDE DEF Bounded
    <3> QED
      BY <1>0, <1>7, PutFacts
  <2>2. flights[k].block \in Nat
    BY <2>1 DEF TypeInv, FlightsOK, Flight
  <2>3. Land(k, Answered(k, flights[k].block, purges))
    BY <1>7 DEF Put
  <2>4. (\A c \in Callers : callers[c].since <= purges)' /\ ServedSincePurge'
    BY <1>0, <2>1, <2>2, <2>3, LandServes
  <2>5. \A j \in DOMAIN cache' \ Stable : cache'[j].stored = purges
    BY <2>1 DEF ServeInv
  <2> QED
    BY <2>1, <2>4, <2>5 DEF ServeInv
<1>8. CASE Record
  BY <1>1, <1>8 DEF Record
<1>9. CASE Pass \/ Quiet
  BY <1>1, <1>9 DEF Pass, Quiet, vars
<1>10. ASSUME NEW k \in Keys, RecheckMiss(k) \/ Answer(k)
       PROVE  ServeInv'
  BY <1>1, <1>10 DEF RecheckMiss, Answer
<1>11. CASE UNCHANGED vars
  BY <1>1, <1>11 DEF vars
<1> QED
  BY <1>2, <1>3, <1>4, <1>5, <1>6, <1>7, <1>8, <1>9, <1>10, <1>11,
     CacheAssumption
  DEF Next, Begin, FlightStep

\* CallRaw takes no answer from before a purge that the call came after, if the
\* answer is one that a block may change.
THEOREM ServesSincePurge == Spec => []ServedSincePurge
<1>1. Init => ServeInv
  BY DEF Init, ServeInv, ServedSincePurge
<1>2. ServeInv => ServedSincePurge
  BY DEF ServeInv
<1> QED
  BY <1>1, <1>2, ServeStep, BoundedAlways, PTL DEF Spec
-----------------------------------------------------------------------------
\* How far the head may be ahead of a block, by where the block is kept.
LastNear == lastBlock > 0 => head <= lastBlock + Lag + (now - lastBlockAt)

CachedNear ==
  HeadKey \in DOMAIN cache =>
    /\ cache[HeadKey].expires <= now + TTL
    /\ head <= cache[HeadKey].block + Lag + (now + TTL - cache[HeadKey].expires)

FlownNear ==
  HeadKey \in DOMAIN flights /\ flights[HeadKey].phase \in {"record", "purge", "put"}
    => head <= flights[HeadKey].block + Lag

NearInv == LastNear /\ CachedNear /\ FlownNear /\ HeadNear

LEMMA NearStays ==
  ASSUME NearInv, UNCHANGED <<now, head, cache, lastBlock, lastBlockAt, flights,
                              callers>>
  PROVE  NearInv'
BY DEF NearInv, LastNear, CachedNear, FlownNear, HeadNear

\* A cached block that has not expired is near enough.
LEMMA FreshNear ==
  ASSUME TypeInv, NearInv, Fresh(HeadKey)
  PROVE  head - cache[HeadKey].block \in 0 .. (Lag + HeadMaxAge)
<1>1. /\ cache[HeadKey].block \in Nat /\ cache[HeadKey].expires \in Nat
      /\ cache[HeadKey].block <= head /\ now <= cache[HeadKey].expires
      /\ head \in Nat /\ now \in Nat
  BY DEF Fresh, TypeInv, CacheOK, ClockOK, Entry
<1>2. head <= cache[HeadKey].block + Lag + (now + TTL - cache[HeadKey].expires)
  BY DEF NearInv, CachedNear, Fresh
<1> QED
  BY <1>1, <1>2, CacheAssumption

LEMMA LandNear ==
  ASSUME TypeInv, NearInv, NEW k \in Keys, NEW block \in Nat, NEW stored \in Nat,
         Land(k, Answered(k, block, stored)),
         k = HeadKey => head - block \in 0 .. (Lag + HeadMaxAge)
  PROVE  HeadNear'
<1>1. \A c \in Callers :
        /\ Answered(k, block, stored)[c].key = k
        /\ Answered(k, block, stored)[c].behind = head - block
  BY AnsweredType DEF TypeInv
<1>2. \A c \in Callers : \/ callers'[c] = callers[c]
                         \/ callers'[c] = Answered(k, block, stored)[c]
  BY DEF Land
<1> QED
  BY <1>1, <1>2 DEF NearInv, HeadNear

LEMMA NearStep == Bounded /\ NearInv /\ [Next]_vars => NearInv'
<1> SUFFICES ASSUME Bounded, NearInv, [Next]_vars PROVE NearInv'
  OBVIOUS
<1>0. /\ TypeInv /\ Cardinality(DOMAIN cache) <= MaxEntries
      /\ head \in Nat /\ now \in Nat /\ lastBlock \in 0 .. head
      /\ lastBlockAt \in 0 .. now /\ callers \in [Callers -> Caller]
  BY DEF Bounded, EntriesBounded, TypeInv, ClockOK, CallersOK
<1>1. CASE Pass
  <2>1. /\ now' = now + 1 /\ head' <= head + 1 /\ head' \in Nat
        /\ UNCHANGED <<cache, lastBlock, lastBlockAt, flights, callers>>
    BY <1>0, <1>1 DEF Pass
  <2>2. LastNear'
    BY <1>0, <2>1, CacheAssumption DEF NearInv, LastNear
  <2>3. CachedNear'
    <3>1. SUFFICES ASSUME HeadKey \in DOMAIN cache
                   PROVE  /\ cache[HeadKey].expires <= now' + TTL
                          /\ head' <= cache[HeadKey].block + Lag
                                        + (now' + TTL - cache[HeadKey].expires)
      BY <2>1 DEF CachedNear
    <3>2. cache[HeadKey].block \in Nat /\ cache[HeadKey].expires \in Nat
      BY <1>0, <3>1 DEF TypeInv, CacheOK, Entry
    <3>3. /\ cache[HeadKey].expires <= now + TTL
          /\ head <= cache[HeadKey].block + Lag + (now + TTL - cache[HeadKey].expires)
      BY <3>1 DEF NearInv, CachedNear
    <3> QED
      BY <1>0, <2>1, <3>2, <3>3, CacheAssumption
  <2>4. FlownNear'
    BY <1>1, <2>1 DEF Pass, FlownNear
  <2> QED
    BY <2>1, <2>2, <2>3, <2>4 DEF NearInv, HeadNear
<1>2. CASE Record
  <2>1. /\ HeadKey \in DOMAIN flights /\ flights[HeadKey].phase = "record"
        /\ UNCHANGED <<now, head, cache, callers>>
        /\ flights'[HeadKey].block = flights[HeadKey].block
        /\ IF flights[HeadKey].block > lastBlock
           THEN lastBlock' = flights[HeadKey].block /\ lastBlockAt' = now
           ELSE UNCHANGED <<lastBlock, lastBlockAt>>
    BY <1>0, <1>2, RecordFacts
  <2>2. head <= flights[HeadKey].block + Lag /\ flights[HeadKey].block \in Nat
    BY <1>0, <2>1 DEF NearInv, FlownNear, TypeInv, FlightsOK, Flight
  <2>3. LastNear'
    BY <1>0, <2>1, <2>2, CacheAssumption DEF NearInv, LastNear
  <2> QED
    BY <2>1, <2>2, <2>3 DEF NearInv, CachedNear, FlownNear, HeadNear
<1>3. CASE Purge
  <2>1. /\ HeadKey \in DOMAIN flights /\ flights[HeadKey].phase = "purge"
        /\ UNCHANGED <<now, head, lastBlock, lastBlockAt, callers>>
        /\ DOMAIN cache' = DOMAIN cache \cap Stable
        /\ flights'[HeadKey].block = flights[HeadKey].block
    BY <1>0, <1>3, PurgeFacts
  <2>2. HeadKey \notin DOMAIN cache'
    BY <2>1, CacheAssumption
  <2>3. head <= flights[HeadKey].block + Lag
    BY <2>1 DEF NearInv, FlownNear
  <2> QED
    BY <2>1, <2>2, <2>3 DEF NearInv, LastNear, CachedNear, FlownNear, HeadNear
<1>4. ASSUME NEW c \in Callers, NEW k \in Keys, BlockNumberSeen(c) \/ Call(c, k)
      PROVE  NearInv'
  <2>1. /\ UNCHANGED <<now, head, cache, lastBlock, lastBlockAt, flights>>
        /\ \A d \in Callers \ {c} : callers'[d] = callers[d]
    <3>1. CASE BlockNumberSeen(c)
      BY <1>0, <3>1 DEF BlockNumberSeen
    <3>2. CASE Call(c, k)
      BY <1>0, <3>2 DEF Call
    <3> QED
      BY <1>4, <3>1, <3>2
  <2>2. callers'[c].pc = "done" /\ callers'[c].key = HeadKey
          => callers'[c].behind \in 0 .. (Lag + HeadMaxAge)
    <3>1. CASE BlockNumberSeen(c)
      <4>1. callers'[c].behind = head - lastBlock
        BY <1>0, <3>1 DEF BlockNumberSeen
      <4>2. lastBlock > 0 /\ now - lastBlockAt < HeadMaxAge
        BY <3>1 DEF BlockNumberSeen, SeenRecently
      <4>3. head <= lastBlock + Lag + (now - lastBlockAt)
        BY <4>2 DEF NearInv, LastNear
      <4> QED
        BY <1>0, <4>1, <4>2, <4>3, CacheAssumption
    <3>2. CASE Call(c, k) /\ Fresh(k)
      <4>1. callers'[c].key = k /\ callers'[c].behind = head - cache[k].block
        BY <1>0, <3>2 DEF Call
      <4> QED
        BY <1>0, <3>2, <4>1, FreshNear
    <3>3. CASE Call(c, k) /\ ~Fresh(k)
      <4>1. callers'[c].pc = "missed"
        BY <1>0, <3>3 DEF Call
      <4> QED
        BY <4>1
    <3> QED
      BY <1>4, <3>1, <3>2, <3>3
  <2>3. HeadNear'
    BY <2>1, <2>2 DEF NearInv, HeadNear
  <2> QED
    BY <2>1, <2>3 DEF NearInv, LastNear, CachedNear, FlownNear
<1>5. ASSUME NEW c \in Callers, Do(c)
      PROVE  NearInv'
  <2>1. /\ UNCHANGED <<now, head, cache, lastBlock, lastBlockAt>>
        /\ \A d \in Callers \ {c} : callers'[d] = callers[d]
        /\ callers'[c].pc = "waiting"
    BY <1>0, <1>5 DEF Do, Caller
  <2>2. HeadKey \in DOMAIN flights'
          => \/ HeadKey \in DOMAIN flights /\ flights'[HeadKey] = flights[HeadKey]
             \/ flights'[HeadKey].phase = "recheck"
    BY <1>5 DEF Do, SetFlight
  <2>3. FlownNear'
    BY <2>1, <2>2 DEF NearInv, FlownNear
  <2> QED
    BY <2>1, <2>3 DEF NearInv, LastNear, CachedNear, HeadNear
<1>6. ASSUME NEW k \in Keys, RecheckMiss(k) \/ Answer(k)
      PROVE  NearInv'
  <2>1. /\ UNCHANGED <<now, head, cache, lastBlock, lastBlockAt, callers>>
        /\ k \in DOMAIN flights
    BY <1>6 DEF RecheckMiss, Answer
  <2>2. PICK f \in Flight : /\ SetFlight(k, f)
                            /\ f.phase = "race" \/ f.block + Lag >= head
    BY <1>0, <1>6, RaceType
  <2>3. flights'[k] = f /\ \A j \in DOMAIN flights' \ {k} :
                             j \in DOMAIN flights /\ flights'[j] = flights[j]
    BY <2>2 DEF SetFlight
  <2>4. f.block \in Nat
    BY DEF Flight
  <2>5. FlownNear'
    BY <1>0, <2>1, <2>2, <2>3, <2>4, CacheAssumption DEF NearInv, FlownNear
  <2> QED
    BY <2>1, <2>5 DEF NearInv, LastNear, CachedNear, HeadNear
<1>7. ASSUME NEW k \in Keys, RecheckHit(k)
      PROVE  NearInv'
  <2>1. /\ UNCHANGED <<now, head, cache, lastBlock, lastBlockAt>>
        /\ Land(k, Answered(k, cache[k].block, cache[k].stored)) /\ Fresh(k)
    BY <1>7 DEF RecheckHit
  <2>2. cache[k].block \in Nat /\ cache[k].stored \in Nat
    BY <1>0, <2>1 DEF Fresh, TypeInv, CacheOK, Entry
  <2>3. HeadNear'
    BY <1>0, <2>1, <2>2, FreshNear, LandNear
  <2>4. FlownNear'
    BY <2>1 DEF NearInv, FlownNear, Land
  <2> QED
    BY <2>1, <2>3, <2>4 DEF NearInv, LastNear, CachedNear
<1>8. ASSUME NEW k \in Keys, RaceFails(k)
      PROVE  NearInv'
  <2>1. UNCHANGED <<now, head, cache, lastBlock, lastBlockAt>>
    BY <1>8 DEF RaceFails
  <2>2. \A c \in Callers : [callers[c] EXCEPT !.pc = "failed"].pc = "failed"
    BY <1>0 DEF Caller
  <2>3. \A c \in Callers : \/ callers'[c] = callers[c]
                           \/ callers'[c] = [callers[c] EXCEPT !.pc = "failed"]
    BY <1>8 DEF RaceFails, Land
  <2>4. \A c \in Callers : callers'[c] = callers[c] \/ callers'[c].pc = "failed"
    BY <2>2, <2>3
  <2>5. HeadNear'
    BY <2>4 DEF NearInv, HeadNear
  <2>6. FlownNear'
    BY <1>8, <2>1 DEF NearInv, FlownNear, RaceFails, Land
  <2> QED
    BY <2>1, <2>5, <2>6 DEF NearInv, LastNear, CachedNear
<1>9. ASSUME NEW k \in Keys, Put(k)
      PROVE  NearInv'
  <2>1. /\ UNCHANGED <<now, head, lastBlock, lastBlockAt, purges>>
        /\ k \in DOMAIN flights /\ flights[k].phase = "put"
        /\ cache'[k] = [block |-> flights[k].block, expires |-> now + TTL,
                        stored |-> purges]
        /\ DOMAIN cache' \subseteq DOMAIN cache \cup {k}
        /\ \A j \in DOMAIN cache' \ {k} : cache'[j] = cache[j]
    BY <1>0, <1>9, PutFacts
  <2>2. flights[k].block \in Nat /\ flights[k].block <= head /\ purges \in Nat
    BY <1>0, <2>1 DEF TypeInv, FlightsOK, ClockOK, Flight
  <2>3. k = HeadKey => head <= flights[k].block + Lag
    BY <2>1 DEF NearInv, FlownNear
  <2>4. CachedNear'
    <3>1. CASE k = HeadKey
      <4>1. cache'[HeadKey].block = flights[k].block
            /\ cache'[HeadKey].expires = now + TTL
        BY <2>1, <3>1
      <4> QED
        BY <1>0, <2>1, <2>2, <2>3, <3>1, <4>1, CacheAssumption DEF CachedNear
    <3>2. CASE k # HeadKey
      BY <2>1, <3>2 DEF NearInv, CachedNear
    <3> QED
      BY <3>1, <3>2
  <2>5. Land(k, Answered(k, flights[k].block, purges))
    BY <1>9 DEF Put
  <2>6. k = HeadKey => head - flights[k].block \in 0 .. (Lag + HeadMaxAge)
    BY <1>0, <2>2, <2>3, CacheAssumption
  <2>7. HeadNear'
    BY <1>0, <2>2, <2>5, <2>6, LandNear
  <2>8. FlownNear'
    BY <2>1, <2>5 DEF NearInv, FlownNear, Land
  <2> QED
    BY <2>1, <2>4, <2>7, <2>8 DEF NearInv, LastNear
<1>10. CASE Quiet \/ UNCHANGED vars
  BY <1>10, NearStays DEF Quiet, vars
<1> QED
  BY <1>1, <1>2, <1>3, <1>4, <1>5, <1>6, <1>7, <1>8, <1>9, <1>10,
     CacheAssumption
  DEF Next, Begin, FlightStep

\* The head that BlockNumber tells a tick is behind the chain by no more than
\* an endpoint may lag and the chain may grow in blockCacheMaxAge.
THEOREM HeadIsNear == Spec => []HeadNear
<1>1. Init => NearInv
  BY DEF Init, NearInv, LastNear, CachedNear, FlownNear, HeadNear
<1>2. NearInv => HeadNear
  BY DEF NearInv
<1> QED
  BY <1>1, <1>2, NearStep, BoundedAlways, PTL DEF Spec
-----------------------------------------------------------------------------
(* CallsAnswered is about fairness.  What it needs of safety: who waits,     *)
(* waits for a flight that exists, no flight is left without a passenger,    *)
(* and only the head's flight is ever at the two steps that serve it alone,  *)
(* so that each phase of each flight has a step that takes it on.            *)
WaitsForAFlight ==
  /\ \A c \in Callers :
       callers[c].pc = "waiting" => callers[c].key \in DOMAIN flights
  /\ \A k \in DOMAIN flights :
       /\ \E c \in Callers : callers[c].pc = "waiting" /\ callers[c].key = k
       /\ flights[k].phase \in {"record", "purge"} => k = HeadKey

LEMMA WaitsInit == Init => WaitsForAFlight
BY DEF Init, WaitsForAFlight

\* A flight that goes on keeps its passengers.
LEMMA FlightGoesOn ==
  ASSUME WaitsForAFlight, NEW k \in DOMAIN flights, NEW f,
         SetFlight(k, f), UNCHANGED callers,
         f.phase \in {"record", "purge"} => k = HeadKey
  PROVE  WaitsForAFlight'
<1>1. /\ DOMAIN flights' = DOMAIN flights /\ flights'[k] = f
      /\ \A j \in DOMAIN flights : j # k => flights'[j] = flights[j]
  BY DEF SetFlight
<1> QED
  BY <1>1 DEF WaitsForAFlight

\* A flight that lands lets all its passengers go, and nobody else.
LEMMA FlightLands ==
  ASSUME WaitsForAFlight, NEW k \in DOMAIN flights, NEW results,
         Land(k, results), \A c \in Callers : results[c].pc # "waiting"
  PROVE  WaitsForAFlight'
<1>1. /\ DOMAIN flights' = DOMAIN flights \ {k}
      /\ \A j \in DOMAIN flights' : flights'[j] = flights[j]
  BY DEF Land
<1>2. \A c \in Callers :
        callers'[c] = IF callers[c].pc = "waiting" /\ callers[c].key = k
                      THEN results[c] ELSE callers[c]
  BY DEF Land
<1> QED
  BY <1>1, <1>2 DEF WaitsForAFlight

LEMMA WaitsStep == TypeInv /\ WaitsForAFlight /\ [Next]_vars => WaitsForAFlight'
<1> SUFFICES ASSUME TypeInv, WaitsForAFlight, [Next]_vars
             PROVE  WaitsForAFlight'
  OBVIOUS
<1>1. CASE UNCHANGED <<flights, callers>>
  BY <1>1 DEF WaitsForAFlight
<1>2. ASSUME NEW c \in Callers, Begin(c) PROVE WaitsForAFlight'
  <2>1. /\ callers[c].pc # "waiting" /\ callers'[c].pc # "waiting"
        /\ \A m \in Callers : m # c => callers'[m] = callers[m]
        /\ flights' = flights
    <3>1. CASE BlockNumberSeen(c)
      BY <3>1 DEF BlockNumberSeen, BeginCall, Resting, TypeInv, CallersOK
    <3>2. CASE \E k \in Keys : Call(c, k)
      BY <3>2 DEF Call, BeginCall, Resting, TypeInv, CallersOK
    <3> QED
      BY <1>2, <3>1, <3>2 DEF Begin
  <2> QED
    BY <2>1 DEF WaitsForAFlight
<1>3. ASSUME NEW c \in Callers, Do(c) PROVE WaitsForAFlight'
  <2> DEFINE k == callers[c].key
  <2>1. /\ callers'[c].pc = "waiting" /\ callers'[c].key = k
        /\ callers[c].pc = "missed"
        /\ \A m \in Callers : m # c => callers'[m] = callers[m]
    BY <1>3 DEF Do, TypeInv, CallersOK, Caller
  <2>2. /\ DOMAIN flights' = DOMAIN flights \cup {k}
        /\ \A j \in DOMAIN flights : flights'[j] = flights[j]
        /\ k \notin DOMAIN flights => flights'[k].phase = "recheck"
    <3>1. CASE k \in DOMAIN flights
      BY <1>3, <3>1 DEF Do
    <3>2. CASE k \notin DOMAIN flights
      BY <1>3, <3>2 DEF Do, SetFlight
    <3> QED
      BY <3>1, <3>2
  <2> QED
    BY <2>1, <2>2 DEF WaitsForAFlight
<1>4. ASSUME NEW k \in Keys, FlightStep(k) PROVE WaitsForAFlight'
  <2>1. CASE RecheckMiss(k)
    BY <2>1, FlightGoesOn DEF RecheckMiss
  <2>2. CASE Answer(k)
    <3>1. PICK b \in (head - Lag) .. head :
            SetFlight(k, [phase |-> IF k = HeadKey THEN "record" ELSE "put",
                          block |-> b])
      BY <2>2 DEF Answer
    <3> QED
      BY <2>2, <3>1, FlightGoesOn DEF Answer
  <2>3. CASE RecheckHit(k) \/ Put(k)
    <3>1. PICK block, stored : Land(k, Answered(k, block, stored))
      BY <2>3 DEF RecheckHit, Put
    <3>2. \A c \in Callers : Answered(k, block, stored)[c].pc # "waiting"
      BY DEF Answered
    <3> QED
      BY <2>3, <3>1, <3>2, FlightLands DEF RecheckHit, Put
  <2>4. CASE RaceFails(k)
    <3> DEFINE failed == [c \in Callers |-> [callers[c] EXCEPT !.pc = "failed"]]
    <3>1. \A c \in Callers : failed[c].pc # "waiting"
      BY DEF TypeInv, CallersOK, Caller
    <3>2. k \in DOMAIN flights /\ Land(k, failed)
      BY <2>4 DEF RaceFails
    <3> HIDE DEF failed
    <3> QED
      BY <3>1, <3>2, FlightLands
  <2> QED
    BY <1>4, <2>1, <2>2, <2>3, <2>4 DEF FlightStep
<1>5. CASE Record
  BY <1>5, FlightGoesOn DEF Record
<1>6. CASE Purge
  BY <1>6, FlightGoesOn DEF Purge
<1> QED
  BY <1>1, <1>2, <1>3, <1>4, <1>5, <1>6 DEF Next, Pass, Quiet, vars

\* Whoever lands, fails or purges in between, a caller that joined a flight
\* waits for one that exists, and each flight can go on.
THEOREM NobodyWaitsInVain == Spec => []WaitsForAFlight
<1>1. Bounded => TypeInv
  BY DEF Bounded
<1> QED
  BY <1>1, BoundedAlways, WaitsInit, WaitsStep, PTL DEF Spec
=============================================================================
