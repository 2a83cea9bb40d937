------------------------------ MODULE RpcCache ------------------------------
(***************************************************************************)
(* The response cache in front of the races: Balancer.CallRaw with         *)
(* getCache, putCache and singleflight, recordBlockResp, which keeps the   *)
(* newest block and purges the cache, and Client.BlockNumber on top.  A    *)
(* race is one step that answers or fails; RpcRace is about what happens   *)
(* in it.  Of an answer the model keeps, for eth_blockNumber, the block.   *)
(*                                                                         *)
(* The goroutines' own steps take no time next to a network request: time  *)
(* passes only while each of them waits for a race or for nothing.         *)
(*                                                                         *)
(* Definitions marked "Variant" are no part of the specification.          *)
(***************************************************************************)
EXTENDS Integers, FiniteSets, FiniteSetsExt

CONSTANTS
  Callers,
  Keys,        \* method and parameters
  Stable,      \* keys whose answers no block changes (not isHeadSensitive)
  TTL,         \* CallTTL
  HeadMaxAge,  \* blockCacheMaxAge
  MaxEntries,  \* MaxCacheEntries
  DropPart,    \* a full cache drops 1/DropPart of its entries, 10
  Lag,         \* bound: how far an endpoint may lag behind
  FirstHead,   \* head of the chain at first
  MaxTime,     \* bound: the clock stops here
  MaxCalls     \* bound: how many calls a behaviour has

HeadKey == "eth_blockNumber"

ASSUME CacheAssumption ==
  /\ HeadKey \in Keys \ Stable
  /\ IsFiniteSet(Keys)
  /\ TTL \in Nat /\ HeadMaxAge \in Nat /\ MaxTime \in Nat /\ MaxCalls \in Nat
  /\ TTL <= HeadMaxAge
  /\ FirstHead \in Nat \ {0} /\ Lag \in Nat /\ Lag < FirstHead

\* A cache of less than DropPart entries would drop none of them.
ASSUME DropAssumption ==
  DropPart \in Nat \ {0} /\ MaxEntries \in Nat /\ DropPart <= MaxEntries

VARIABLES
  now,
  head,        \* newest block of the chain
  cache,       \* b.cache
  lastBlock,   \* b.lastBlock
  lastBlockAt, \* b.lastBlockAt
  flights,     \* b.sf: the key's leader is at phase, with an answer
  callers,     \* where each caller is
  purges,      \* history: how often the cache was purged
  served,      \* history: callers for whose key an answer has come into the
               \* cache since they missed it, and is still there
  callsLeft

vars == <<now, head, cache, lastBlock, lastBlockAt, flights, callers, purges,
          served, callsLeft>>

Phases == {"recheck", "race", "record", "purge", "put"}

\* stored counts the purges before the answer was put into the cache.
Entry == [block : Nat, expires : Nat, stored : Nat]
Flight == [phase : Phases, block : Nat]

\* since counts the purges before the call; got is its answer, with the
\* blocks the chain was ahead of it then.
Caller == [pc : {"idle", "missed", "waiting", "failed", "done"}, key : Keys,
           since : Nat, stored : Nat, behind : Int]
-----------------------------------------------------------------------------
Init ==
  /\ now = 0 /\ head = FirstHead
  /\ cache = [k \in {} |-> {}]
  /\ lastBlock = 0 /\ lastBlockAt = 0
  /\ flights = [k \in {} |-> {}]
  /\ callers = [c \in Callers |-> [pc |-> "idle", key |-> HeadKey, since |-> 0,
                                   stored |-> 0, behind |-> 0]]
  /\ purges = 0 /\ served = {}
  /\ callsLeft = MaxCalls

\* Time passes, and a block may have been mined.
Pass ==
  /\ now < MaxTime
  /\ \A c \in Callers : callers[c].pc # "missed"
  /\ \A k \in DOMAIN flights : flights[k].phase = "race"
  /\ now' = now + 1
  /\ head' \in {head, head + 1}
  /\ UNCHANGED <<cache, lastBlock, lastBlockAt, flights, callers, purges,
                 served, callsLeft>>

\* getCache finds an answer that has not expired.
Fresh(k) == k \in DOMAIN cache /\ now <= cache[k].expires

Answered(k, block, stored) ==
  [c \in Callers |->
     [pc |-> "done", key |-> k, since |-> callers[c].since,
      stored |-> stored, behind |-> head - block]]

Resting == {"idle", "failed", "done"}

BeginCall(c) ==
  /\ callers[c].pc \in Resting
  /\ callsLeft > 0 /\ callsLeft' = callsLeft - 1

\* Variant: LastSeenBlock is good at any age.
SeenRecentlyEver == lastBlock > 0

\* LastSeenBlock is young enough for BlockNumber.
SeenRecently == lastBlock > 0 /\ now - lastBlockAt < HeadMaxAge

\* BlockNumber answers without a call.
BlockNumberSeen(c) ==
  /\ BeginCall(c)
  /\ SeenRecently
  /\ callers' = [callers EXCEPT ![c] =
       [pc |-> "done", key |-> HeadKey, since |-> purges, stored |-> purges,
        behind |-> head - lastBlock]]
  /\ UNCHANGED <<now, head, cache, lastBlock, lastBlockAt, flights, purges,
                 served>>

\* CallRaw: the key is cached, or it is not.  BlockNumber asks for HeadKey
\* only when the last block it saw is too old.
Call(c, k) ==
  /\ BeginCall(c)
  /\ k = HeadKey => ~SeenRecently
  /\ callers' = [callers EXCEPT ![c] =
       IF Fresh(k)
       THEN [pc |-> "done", key |-> k, since |-> purges,
             stored |-> cache[k].stored, behind |-> head - cache[k].block]
       ELSE [pc |-> "missed", key |-> k, since |-> purges, stored |-> 0,
             behind |-> 0]]
  /\ served' = served \ {c}
  /\ UNCHANGED <<now, head, cache, lastBlock, lastBlockAt, flights, purges>>

SetFlight(k, f) ==
  flights' = [j \in DOMAIN flights \cup {k} |-> IF j = k THEN f ELSE flights[j]]

\* sf.Do: the caller leads a flight of the key, or joins the one there is.
Do(c) ==
  /\ callers[c].pc = "missed"
  /\ callers' = [callers EXCEPT ![c].pc = "waiting"]
  /\ LET k == callers[c].key
     IN  IF k \in DOMAIN flights THEN UNCHANGED flights
         ELSE SetFlight(k, [phase |-> "recheck", block |-> 0])
  /\ UNCHANGED <<now, head, cache, lastBlock, lastBlockAt, purges, served,
                 callsLeft>>

\* The flight ends for all who wait for it.
Land(k, results) ==
  /\ flights' = [j \in DOMAIN flights \ {k} |-> flights[j]]
  /\ callers' = [c \in Callers |->
       IF callers[c].pc = "waiting" /\ callers[c].key = k THEN results[c]
       ELSE callers[c]]

RecheckHit(k) ==
  /\ k \in DOMAIN flights /\ flights[k].phase = "recheck"
  /\ Fresh(k)
  /\ Land(k, Answered(k, cache[k].block, cache[k].stored))
  /\ UNCHANGED <<now, head, cache, lastBlock, lastBlockAt, purges, served,
                 callsLeft>>

\* Variant: the leader races without a second look.
RecheckBlind(k) ==
  /\ k \in DOMAIN flights /\ flights[k].phase = "recheck"
  /\ SetFlight(k, [phase |-> "race", block |-> 0])
  /\ UNCHANGED <<now, head, cache, lastBlock, lastBlockAt, callers, purges,
                 served, callsLeft>>

RecheckMiss(k) ==
  /\ k \in DOMAIN flights /\ flights[k].phase = "recheck"
  /\ ~Fresh(k)
  /\ SetFlight(k, [phase |-> "race", block |-> 0])
  /\ UNCHANGED <<now, head, cache, lastBlock, lastBlockAt, callers, purges,
                 served, callsLeft>>

\* The race has a winner, who may lag behind.
Answer(k) ==
  /\ k \in DOMAIN flights /\ flights[k].phase = "race"
  /\ \E b \in (head - Lag) .. head :
       SetFlight(k, [phase |-> IF k = HeadKey THEN "record" ELSE "put",
                     block |-> b])
  /\ UNCHANGED <<now, head, cache, lastBlock, lastBlockAt, callers, purges,
                 served, callsLeft>>

\* Variant: a race that failed leaves the flight to its leader.
RaceFailsAloft(k) ==
  /\ k \in DOMAIN flights /\ flights[k].phase = "race"
  /\ SetFlight(k, [phase |-> "recheck", block |-> 0])
  /\ UNCHANGED <<now, head, cache, lastBlock, lastBlockAt, callers, purges,
                 served, callsLeft>>

\* The race fails, or its budget ends, for all who wait.
RaceFails(k) ==
  /\ k \in DOMAIN flights /\ flights[k].phase = "race"
  /\ Land(k, [c \in Callers |-> [callers[c] EXCEPT !.pc = "failed"]])
  /\ UNCHANGED <<now, head, cache, lastBlock, lastBlockAt, purges, served,
                 callsLeft>>

\* recordBlockResp, under b.mu.
Record ==
  /\ HeadKey \in DOMAIN flights /\ flights[HeadKey].phase = "record"
  /\ LET n == flights[HeadKey].block
     IN  /\ IF n > lastBlock THEN lastBlock' = n /\ lastBlockAt' = now
            ELSE UNCHANGED <<lastBlock, lastBlockAt>>
         /\ SetFlight(HeadKey,
              [phase |-> IF n # lastBlock THEN "purge" ELSE "put", block |-> n])
  /\ UNCHANGED <<now, head, cache, callers, purges, served, callsLeft>>

\* The callers, of these, whose key the cache still holds.
StillServed(cs) == {c \in cs : callers[c].key \in DOMAIN cache'}

\* Variant: the purge takes what has expired only.
PurgeExpired ==
  /\ HeadKey \in DOMAIN flights /\ flights[HeadKey].phase = "purge"
  /\ cache' = [k \in {j \in DOMAIN cache : Fresh(j)} |-> cache[k]]
  /\ SetFlight(HeadKey, [flights[HeadKey] EXCEPT !.phase = "put"])
  /\ purges' = purges + 1
  /\ served' = StillServed(served)
  /\ UNCHANGED <<now, head, lastBlock, lastBlockAt, callers, callsLeft>>

\* ... and then, under b.cacheMu: what a new block may change is purged.
Purge ==
  /\ HeadKey \in DOMAIN flights /\ flights[HeadKey].phase = "purge"
  /\ cache' = [k \in DOMAIN cache \cap Stable |-> cache[k]]
  /\ SetFlight(HeadKey, [flights[HeadKey] EXCEPT !.phase = "put"])
  /\ purges' = purges + 1
  /\ served' = StillServed(served)
  /\ UNCHANGED <<now, head, lastBlock, lastBlockAt, callers, callsLeft>>

\* Variant: a cache is full when it holds more than it may.
FullAbove(ks) == Cardinality(ks) > MaxEntries

Full(ks) == Cardinality(ks) >= MaxEntries

\* What putCache may leave of the cache: all, or if it is full what has not
\* expired, and if that is still too much, all but a part.
Kept ==
  IF ~Full(DOMAIN cache) THEN {DOMAIN cache}
  ELSE LET live == {k \in DOMAIN cache : Fresh(k)}
       IN  IF ~Full(live) THEN {live}
           ELSE {live \ drop : drop \in kSubset(MaxEntries \div DropPart, live)}

\* putCache, and the end of the flight.
Put(k) ==
  /\ k \in DOMAIN flights /\ flights[k].phase = "put"
  /\ LET entry == [block |-> flights[k].block, expires |-> now + TTL,
                   stored |-> purges]
     IN  \E kept \in Kept :
           cache' = [j \in kept \cup {k} |-> IF j = k THEN entry ELSE cache[j]]
  /\ Land(k, Answered(k, flights[k].block, purges))
  /\ LET late == {c \in Callers : callers[c].pc = "missed" /\ callers[c].key = k}
     IN  served' = StillServed(served \cup late)
  /\ UNCHANGED <<now, head, lastBlock, lastBlockAt, purges, callsLeft>>

Quiet ==
  /\ now = MaxTime \/ callsLeft = 0
  /\ \A c \in Callers : callers[c].pc \in Resting
  /\ UNCHANGED vars

Begin(c) == BlockNumberSeen(c) \/ \E k \in Keys : Call(c, k)

FlightStep(k) == RecheckHit(k) \/ RecheckMiss(k) \/ Answer(k) \/ RaceFails(k)
                   \/ Put(k)

Next ==
  \/ Pass \/ Record \/ Purge \/ Quiet
  \/ \E c \in Callers : Begin(c) \/ Do(c)
  \/ \E k \in Keys : FlightStep(k)

Spec == Init /\ [][Next]_vars

\* A goroutine that can go on does, and a race ends within its budget.
FairSpec ==
  /\ Spec
  /\ \A c \in Callers : WF_vars(Do(c))
  /\ \A k \in Keys : WF_vars(FlightStep(k))
  /\ WF_vars(Record) /\ WF_vars(Purge)
-----------------------------------------------------------------------------
TypeOK ==
  /\ now \in Nat /\ head \in Nat /\ head <= FirstHead + now
  /\ lastBlock \in 0 .. head /\ lastBlockAt \in 0 .. now
  /\ DOMAIN cache \subseteq Keys /\ cache \in [DOMAIN cache -> Entry]
  /\ DOMAIN flights \subseteq Keys /\ flights \in [DOMAIN flights -> Flight]
  /\ callers \in [Callers -> Caller]
  /\ purges \in Nat /\ callsLeft \in Nat /\ served \subseteq Callers

\* An answer to what a block may change is never taken from before a purge
\* by a call that began after it; a race that was on at the purge is the only
\* way for an older head's answer to get past it.
ServedSincePurge ==
  \A c \in Callers :
    callers[c].pc = "done" /\ callers[c].key \notin Stable =>
      callers[c].stored >= callers[c].since

\* Callers that miss together race once: who missed, and is only then
\* overtaken by a flight that caches an answer, waits for no race of its own,
\* unless the answer was purged or dropped in between.
RaceOnce ==
  \A c \in served :
    callers[c].pc = "waiting" => flights[callers[c].key].phase = "recheck"

\* However many flights land on a full cache, it holds no more than it may.
EntriesBounded == Cardinality(DOMAIN cache) <= MaxEntries

\* The head that a tick is told is behind by no more than an endpoint may be
\* and the chain may grow in HeadMaxAge; the tick loop's HeadLag.
HeadNear ==
  \A c \in Callers :
    callers[c].pc = "done" /\ callers[c].key = HeadKey =>
      callers[c].behind \in 0 .. (Lag + HeadMaxAge)

\* Who waits for a flight of another's gets its answer or its error.
CallsAnswered ==
  \A c \in Callers : callers[c].pc \in {"missed", "waiting"}
                       ~> callers[c].pc \in {"done", "failed"}
=============================================================================
