------------------------------ MODULE TickLoop ------------------------------
(***************************************************************************)
(* The indexer's loop over the chain: indexer/bootstrap.go seeds the       *)
(* positions and last_block, indexer/loop.go moves last_block forward tick *)
(* by tick, chunk by chunk, through Discover, Refresh and ScanChallenges.  *)
(* What the stages do to challenges is ChallengeScan's subject; here a     *)
(* stage is asked for a range of blocks and answers, or fails and ends the *)
(* tick.  Of Discover and Refresh the model keeps the set of positions and *)
(* the cached copy of it that Refresh filters by.                          *)
(*                                                                         *)
(* Definitions marked "Variant" are no part of the specification.          *)
(***************************************************************************)
EXTENDS Integers

CONSTANTS
  Positions,
  OpenBlock,  \* the block of each position's PositionOpened event
  FirstHead,  \* head of the chain when the process first starts
  MaxBlock,   \* bound: the chain ends here
  Overlap,    \* overlap
  MaxRange,   \* maxBlockRange
  Depth,      \* safetyDepth
  HeadLag,    \* bound: how far an answer to eth_blockNumber may lag behind
  PeerLag,    \* bound: how far a peer's list of positions may lag behind
  MaxLag,     \* bound: how far last_block may fall behind a tick's target
  Faults,     \* the steps that may fail
  MaxFaults   \* bound: how many failures a behaviour has

Steps == {"Discover", "Refresh", "ScanChallenges", "SetLastBlock",
          "HydratePosition",
          "GetLogs",   \* a racer answers Discover with [], without an error
          "crash",     \* the process ends, at any point but the next
          "seedcrash"} \* ... between seeding positions and last_block

Stages == {"discover", "refresh", "challenges"}
Procs == {"boot", "mark", "idle"} \cup Stages

ASSUME ChainAssumption ==
  /\ OpenBlock \in [Positions -> Nat \ {0}]
  /\ FirstHead \in Nat \ {0} /\ MaxBlock \in Nat
  /\ HeadLag \in Nat /\ PeerLag \in Nat /\ MaxLag \in Nat
  /\ MaxFaults \in Nat
  /\ Faults \subseteq Steps

\* The chain is older than the re-scan window, also to an endpoint that lags,
\* and a peer's list is no more out of date than that window reaches back.
ASSUME WindowAssumption ==
  /\ Overlap \in Nat /\ MaxRange \in Nat /\ Depth \in Nat
  /\ Overlap + HeadLag < FirstHead
  /\ PeerLag <= Overlap

VARIABLES
  head,       \* newest block of the chain
  positions,  \* table positions
  last,       \* meta.last_block, 0: not set
  proc,       \* where the process is: bootstrap, between ticks, or a stage
  seedAt,     \* Bootstrap's blockNum
  from,       \* first block not scanned by this tick
  target,     \* last block of this tick
  known,      \* ix.known
  dirty,      \* ix.knownDirty
  scanned,    \* history: blocks listed by a peer or asked of all three stages
  faultsLeft

vars == <<head, positions, last, proc, seedAt, from, target, known, dirty,
          scanned, faultsLeft>>
-----------------------------------------------------------------------------
Spend(step) ==
  /\ step \in Faults
  /\ faultsLeft > 0
  /\ faultsLeft' = faultsLeft - 1

OpenedIn(a, b) == {p \in Positions : OpenBlock[p] \in a .. b}

Init ==
  /\ head = FirstHead
  /\ positions = {} /\ last = 0
  /\ proc = "boot" /\ seedAt = 0
  /\ from = 0 /\ target = 0
  /\ known = {} /\ dirty = TRUE
  /\ scanned = {}
  /\ faultsLeft = MaxFaults

\* A tick's target, safetyDepth behind the head it was told.
TargetOf(h) == IF h > Depth THEN h - Depth ELSE h

\* Where the next tick resumes, 0 while nothing was seeded.
Marker == IF proc = "mark" THEN seedAt ELSE last

\* The chain grows; the indexer never falls more than MaxLag behind.
Mine ==
  /\ head < MaxBlock
  /\ Marker = 0 \/ TargetOf(head + 1) <= Marker + MaxLag
  /\ head' = head + 1
  /\ UNCHANGED <<positions, last, proc, seedAt, from, target, known, dirty,
                 scanned, faultsLeft>>
-----------------------------------------------------------------------------
\* Bootstrap finds positions: the loop resumes from last_block.
BootResume ==
  /\ proc = "boot"
  /\ positions # {}
  /\ proc' = "idle"
  /\ UNCHANGED <<head, positions, last, seedAt, from, target, known, dirty,
                 scanned, faultsLeft>>

\* Bootstrap stores a peer's list, which holds the positions up to block h,
\* and keeps the head it was told, which may lag behind like a tick's.
BootSeed ==
  /\ proc = "boot"
  /\ positions = {}
  /\ \E h \in (head - PeerLag) .. head :
       /\ positions' = OpenedIn(1, h)
       /\ scanned' = scanned \cup (1 .. h)
  /\ seedAt' \in (head - HeadLag) .. head
  /\ proc' = "mark"
  /\ UNCHANGED <<head, last, from, target, known, dirty, faultsLeft>>

\* Bootstrap sets last_block.
BootMark ==
  /\ proc = "mark"
  /\ last' = seedAt
  /\ proc' = "idle"
  /\ UNCHANGED <<head, positions, seedAt, from, target, known, dirty,
                 scanned, faultsLeft>>
-----------------------------------------------------------------------------
\* Without last_block the loop starts from the block before the target.
LastOr(t) == IF last = 0 THEN t - 1 ELSE last

\* Variant: no overlap.
FromNew(l) == l + 1

FromOf(l) == IF l + 1 > Overlap THEN l + 1 - Overlap ELSE l + 1

\* Variant: a head that lags is a target like any other.
StartTickAnyHead ==
  /\ proc = "idle"
  /\ \E h \in (head - HeadLag) .. head :
       /\ target' = TargetOf(h)
       /\ from' = FromOf(LastOr(TargetOf(h)))
  /\ proc' = "discover"
  /\ UNCHANGED <<head, positions, last, seedAt, known, dirty, scanned,
                 faultsLeft>>

\* tick: the head is the answer of whichever endpoint won, or the last one
\* remembered; it may lag behind, even behind last_block.
StartTick ==
  /\ proc = "idle"
  /\ \E h \in (head - HeadLag) .. head :
       /\ h > 0
       /\ LastOr(TargetOf(h)) < TargetOf(h)
       /\ target' = TargetOf(h)
       /\ from' = FromOf(LastOr(TargetOf(h)))
  /\ proc' = "discover"
  /\ UNCHANGED <<head, positions, last, seedAt, known, dirty, scanned,
                 faultsLeft>>

\* Variant: the last chunk ends before the target.
ChunkToShort == IF from + MaxRange > target THEN target - 1 ELSE from + MaxRange

\* Last block of the chunk that starts at from.
ChunkTo == IF from + MaxRange > target THEN target ELSE from + MaxRange

\* Variant: Discover inserts and forgets to mark the cache.
DiscoverUnmarked ==
  /\ proc = "discover" /\ from <= target
  /\ positions' = positions \cup OpenedIn(from, ChunkTo)
  /\ proc' = "refresh"
  /\ UNCHANGED <<head, last, seedAt, from, target, known, dirty, scanned,
                 faultsLeft>>

\* Discover: every PositionOpened of the chunk is hydrated and upserted; one
\* that cannot be hydrated is left out.  Why hydration may fail, and with the
\* decoder as it stands does, is Aggregate3's subject.
Discover ==
  /\ proc = "discover" /\ from <= target
  /\ LET opened == OpenedIn(from, ChunkTo)
     IN  \E lost \in SUBSET opened :
           /\ \/ lost = {} /\ UNCHANGED faultsLeft
              \/ lost # {} /\ Spend("HydratePosition")
           /\ positions' = positions \cup (opened \ lost)
           /\ dirty' = (dirty \/ opened \ lost # {})
  /\ proc' = "refresh"
  /\ UNCHANGED <<head, last, seedAt, from, target, known, scanned>>

\* Discover, the answer coming from a racer that returns [] without error:
\* nothing is stored and the tick goes on.
DiscoverLied ==
  /\ proc = "discover" /\ from <= target
  /\ Spend("GetLogs")
  /\ proc' = "refresh"
  /\ UNCHANGED <<head, positions, last, seedAt, from, target, known, dirty,
                 scanned>>

\* KnownAddresses reloads the address set iff dirty.
LoadKnown ==
  /\ known' = IF dirty THEN positions ELSE known
  /\ dirty' = FALSE

Refresh ==
  /\ proc = "refresh"
  /\ LoadKnown
  /\ proc' = "challenges"
  /\ UNCHANGED <<head, positions, last, seedAt, from, target, scanned,
                 faultsLeft>>

\* Variant: the next chunk starts one block late.
NextFromLate(to) == to + 2

NextFrom(to) == to + 1

\* ScanChallenges, and on to the next chunk.
ScanChallenges ==
  /\ proc = "challenges"
  /\ scanned' = scanned \cup (from .. ChunkTo)
  /\ from' = NextFrom(ChunkTo)
  /\ proc' = "discover"
  /\ UNCHANGED <<head, positions, last, seedAt, target, known, dirty,
                 faultsLeft>>

\* A stage's getLogs fails, or Refresh's read of the addresses: the tick
\* ends, last_block stays.
StageFails ==
  /\ \/ /\ proc = "discover" /\ from <= target /\ Spend("Discover")
        /\ UNCHANGED <<known, dirty>>
     \/ /\ proc = "refresh" /\ Spend("Refresh")
        /\ LoadKnown \/ UNCHANGED <<known, dirty>>
     \/ /\ proc = "challenges" /\ Spend("ScanChallenges")
        /\ UNCHANGED <<known, dirty>>
  /\ proc' = "idle"
  /\ UNCHANGED <<head, positions, last, seedAt, from, target, scanned>>

\* No chunk is left: last_block moves to the target.
Commit ==
  /\ proc = "discover" /\ from > target
  /\ \/ last' = target /\ UNCHANGED faultsLeft
     \/ Spend("SetLastBlock") /\ UNCHANGED last
  /\ proc' = "idle"
  /\ UNCHANGED <<head, positions, seedAt, from, target, known, dirty,
                 scanned>>

\* The process ends and starts over from the two tables.
Restart ==
  /\ proc # "boot"
  /\ IF proc = "mark" THEN Spend("seedcrash") ELSE Spend("crash")
  /\ proc' = "boot"
  /\ seedAt' = 0 /\ from' = 0 /\ target' = 0
  /\ known' = {} /\ dirty' = TRUE
  /\ UNCHANGED <<head, positions, last, scanned>>

\* The bounded chain has ended and last_block is as close as it gets.
Idle ==
  /\ proc = "idle" /\ head = MaxBlock /\ last >= TargetOf(head)
  /\ UNCHANGED vars

Boot == BootResume \/ BootSeed \/ BootMark
Tick ==
  \/ StartTick \/ Discover \/ DiscoverLied \/ Refresh \/ ScanChallenges
  \/ StageFails \/ Commit

Next == Mine \/ Boot \/ Tick \/ Restart \/ Idle

Spec == Init /\ [][Next]_vars

\* The process is run again after it ends, the ticker fires, and the head
\* that a tick is told is now and then the newest one.
FairSpec ==
  /\ Spec
  /\ WF_vars(Mine) /\ WF_vars(Boot)
  /\ WF_vars(Discover \/ Refresh \/ ScanChallenges \/ Commit)
  /\ WF_vars(StartTick /\ target' = TargetOf(head))
-----------------------------------------------------------------------------
\* Every variable has its type; a tick's target is never above the head, and
\* the two tables stay apart only while the bootstrap is between them.
TypeOK ==
  /\ head \in Nat /\ last \in Nat /\ seedAt \in Nat
  /\ from \in Nat /\ target \in Nat
  /\ positions \subseteq Positions /\ known \subseteq Positions
  /\ proc \in Procs /\ dirty \in BOOLEAN
  /\ scanned \subseteq Nat
  /\ faultsLeft \in Nat
  /\ FirstHead <= head /\ last <= head /\ target <= head /\ seedAt <= head

\* The blocks last_block leaves out of the next tick's reach were all listed
\* by the seed or asked of all three stages: chunks leave no gap, a failed
\* stage or a restart never lets last_block run ahead.
MarkerCovered == 1 .. (last - Overlap) \subseteq scanned

\* "a single lying RPC won't permanently skip events": every position that
\* opened before the next tick's window is in the table, although racers
\* answer Discover with [], hydrations fail, ticks fail and restart, and the
\* seed's list is an old one, as long as the overlap covers what these can
\* delay: PeerLag + MaxLag * MaxFaults blocks.
NoPositionMissed ==
  \A p \in Positions : OpenBlock[p] + Overlap <= last => p \in positions

\* Refresh filters by the addresses the table holds: whenever the cache is
\* not marked dirty, it is the table.
KnownFresh == ~dirty => known = positions

\* No tick moves last_block back, whatever head an endpoint claims; only a
\* Bootstrap that finds the table empty again may, by the lag of its answer.
MarkerForward ==
  [][last' >= last \/ (proc = "mark" /\ last' + HeadLag >= last)]_last

\* A block that is safetyDepth deep is passed by last_block in the end.
CatchesUp == \A b \in 1 .. TargetOf(MaxBlock) : <>[](last >= b)
=============================================================================
