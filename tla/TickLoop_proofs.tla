-------------------------- MODULE TickLoop_proofs --------------------------
(***************************************************************************)
(* What TickLoop guarantees for every chain, overlap, chunk length, depth  *)
(* and lag.                                                                *)
(***************************************************************************)
EXTENDS TickLoop, TLAPS

\* The numbers of TypeOK, apart from its cache flag.
NumbersOK ==
  /\ head \in Nat /\ last \in Nat /\ seedAt \in Nat
  /\ from \in Nat /\ target \in Nat /\ faultsLeft \in Nat
  /\ FirstHead <= head /\ last <= head /\ target <= head /\ seedAt <= head

SetsOK ==
  /\ positions \subseteq Positions /\ known \subseteq Positions
  /\ proc \in Procs /\ dirty \in BOOLEAN
  /\ scanned \subseteq Nat

LEMMA TypeParts == TypeOK <=> NumbersOK /\ SetsOK
BY DEF TypeOK, NumbersOK, SetsOK

LEMMA SpendType ==
  ASSUME NEW step, faultsLeft \in Nat, Spend(step)
  PROVE  faultsLeft' \in Nat /\ step \in Faults
BY DEF Spend

LEMMA TargetType ==
  ASSUME NEW h \in Nat
  PROVE  TargetOf(h) \in Nat /\ TargetOf(h) <= h
BY WindowAssumption DEF TargetOf

\* What a starting tick knows of its window.
LEMMA StartTickFacts ==
  ASSUME NumbersOK, StartTick
  PROVE  /\ target' \in Nat /\ target' <= head /\ target' > last
         /\ from' \in Nat
         /\ last > Overlap => from' = last + 1 - Overlap
         /\ proc = "idle" /\ proc' = "discover"
         /\ UNCHANGED <<head, positions, last, seedAt, known, dirty, scanned,
                        faultsLeft>>
<1>1. PICK h \in (head - HeadLag) .. head :
        /\ h > 0
        /\ LastOr(TargetOf(h)) < TargetOf(h)
        /\ target' = TargetOf(h)
        /\ from' = FromOf(LastOr(TargetOf(h)))
  BY DEF StartTick
<1>2. h \in Nat /\ h <= head
  BY <1>1, ChainAssumption DEF NumbersOK
<1>3. target' \in Nat /\ target' <= head
  BY <1>1, <1>2, TargetType DEF NumbersOK
<1>4. LastOr(TargetOf(h)) \in Nat /\ LastOr(TargetOf(h)) >= last
  <2>1. TargetOf(h) > 0
    BY <1>1, <1>2, WindowAssumption DEF TargetOf
  <2> QED
    BY <1>1, <1>3, <2>1 DEF LastOr, NumbersOK
<1>5. target' > last
  BY <1>1, <1>3, <1>4 DEF NumbersOK
<1>6. from' \in Nat
  BY <1>1, <1>4, WindowAssumption DEF FromOf
<1>7. last > Overlap => from' = last + 1 - Overlap
  BY <1>1, WindowAssumption DEF FromOf, LastOr, NumbersOK
<1> QED
  BY <1>3, <1>5, <1>6, <1>7 DEF StartTick

\* What a seed takes for the head lies above the re-scan window.
LEMMA SeedFacts ==
  ASSUME NumbersOK, BootSeed
  PROVE  /\ seedAt' \in Nat /\ seedAt' <= head /\ head <= seedAt' + HeadLag
         /\ seedAt' > Overlap
<1>1. seedAt' \in (head - HeadLag) .. head
  BY DEF BootSeed
<1>2. /\ head \in Nat /\ FirstHead \in Nat /\ HeadLag \in Nat /\ Overlap \in Nat
      /\ FirstHead <= head /\ Overlap + HeadLag < FirstHead
  BY ChainAssumption, WindowAssumption DEF NumbersOK
<1>3. \A f, g, o, h \in Nat :
        f <= h /\ o + g < f =>
          \A n \in (h - g) .. h : n \in Nat /\ n <= h /\ h <= n + g /\ n > o
  OBVIOUS
<1> QED
  BY <1>1, <1>2, <1>3

LEMMA ChunkFacts ==
  ASSUME NumbersOK
  PROVE  /\ ChunkTo \in Nat
         /\ NextFrom(ChunkTo) \in Nat
         /\ NextFrom(ChunkTo) = ChunkTo + 1
         /\ from <= target => from <= ChunkTo
BY WindowAssumption DEF ChunkTo, NextFrom, NumbersOK
-----------------------------------------------------------------------------
LEMMA TypeInit == Init => TypeOK
<1> SUFFICES ASSUME Init PROVE NumbersOK /\ SetsOK
  BY TypeParts
<1>1. NumbersOK
  BY ChainAssumption DEF Init, NumbersOK
<1>2. SetsOK
  BY DEF Init, SetsOK, Procs
<1> QED
  BY <1>1, <1>2

LEMMA NumbersStep == TypeOK /\ [Next]_vars => NumbersOK'
<1> SUFFICES ASSUME NumbersOK, [Next]_vars PROVE NumbersOK'
  BY TypeParts
<1>1. CASE Mine
  BY <1>1, ChainAssumption DEF Mine, NumbersOK
<1>2. CASE BootResume
  BY <1>2 DEF BootResume, NumbersOK
<1>3. CASE BootSeed
  <2>1. seedAt' \in Nat /\ seedAt' <= head
    BY <1>3, SeedFacts
  <2> QED
    BY <1>3, <2>1 DEF BootSeed, NumbersOK
<1>4. CASE BootMark
  BY <1>4 DEF BootMark, NumbersOK
<1>5. CASE StartTick
  BY <1>5, StartTickFacts DEF NumbersOK
<1>6. CASE Discover \/ DiscoverLied
  <2>1. faultsLeft' \in Nat
    BY <1>6, SpendType DEF Discover, DiscoverLied, NumbersOK
  <2> QED
    BY <1>6, <2>1 DEF Discover, DiscoverLied, NumbersOK
<1>7. CASE Refresh
  BY <1>7 DEF Refresh, NumbersOK
<1>8. CASE ScanChallenges
  BY <1>8, ChunkFacts DEF ScanChallenges, NumbersOK
<1>9. CASE StageFails
  <2>1. faultsLeft' \in Nat
    BY <1>9, SpendType DEF StageFails, NumbersOK
  <2> QED
    BY <1>9, <2>1 DEF StageFails, NumbersOK
<1>10. CASE Commit
  <2>1. faultsLeft' \in Nat
    BY <1>10, SpendType DEF Commit, NumbersOK
  <2> QED
    BY <1>10, <2>1 DEF Commit, NumbersOK
<1>11. CASE Restart
  <2>1. faultsLeft' \in Nat
    BY <1>11, SpendType DEF Restart, NumbersOK
  <2> QED
    BY <1>11, <2>1 DEF Restart, NumbersOK
<1>12. CASE UNCHANGED vars
  BY <1>12 DEF vars, NumbersOK
<1> QED
  BY <1>1, <1>2, <1>3, <1>4, <1>5, <1>6, <1>7, <1>8, <1>9, <1>10, <1>11, <1>12
  DEF Next, Boot, Tick, Idle

LEMMA SetsStep == TypeOK /\ [Next]_vars => SetsOK'
<1> SUFFICES ASSUME NumbersOK, SetsOK, [Next]_vars PROVE SetsOK'
  BY TypeParts
<1>1. CASE Mine
  BY <1>1 DEF Mine, SetsOK
<1>2. CASE BootResume
  BY <1>2 DEF BootResume, SetsOK, Procs
<1>3. CASE BootSeed
  BY <1>3 DEF BootSeed, SetsOK, Procs, OpenedIn
<1>4. CASE BootMark
  BY <1>4 DEF BootMark, SetsOK, Procs
<1>5. CASE StartTick
  BY <1>5 DEF StartTick, SetsOK, Procs, Stages
<1>6. CASE Discover \/ DiscoverLied
  BY <1>6 DEF Discover, DiscoverLied, SetsOK, Procs, Stages, OpenedIn
<1>7. CASE Refresh
  BY <1>7 DEF Refresh, LoadKnown, SetsOK, Procs, Stages
<1>8. CASE ScanChallenges
  <2>1. from .. ChunkTo \subseteq Nat
    BY ChunkFacts DEF NumbersOK
  <2> QED
    BY <1>8, <2>1 DEF ScanChallenges, SetsOK, Procs, Stages
<1>9. CASE StageFails
  BY <1>9 DEF StageFails, LoadKnown, SetsOK, Procs
<1>10. CASE Commit
  BY <1>10 DEF Commit, SetsOK, Procs
<1>11. CASE Restart
  BY <1>11 DEF Restart, SetsOK, Procs
<1>12. CASE UNCHANGED vars
  BY <1>12 DEF vars, SetsOK
<1> QED
  BY <1>1, <1>2, <1>3, <1>4, <1>5, <1>6, <1>7, <1>8, <1>9, <1>10, <1>11, <1>12
  DEF Next, Boot, Tick, Idle

\* Type correctness, whatever fails.
THEOREM TypeCorrect == Spec => []TypeOK
<1>1. TypeOK /\ [Next]_vars => TypeOK'
  BY NumbersStep, SetsStep DEF TypeOK, NumbersOK, SetsOK
<1> QED
  BY <1>1, TypeInit, PTL DEF Spec
-----------------------------------------------------------------------------
\* Bootstrap writes positions only before the cache was ever loaded.
CacheInv == KnownFresh /\ (proc \in {"boot", "mark"} => dirty)

LEMMA CacheStep == CacheInv /\ [Next]_vars => CacheInv'
<1> SUFFICES ASSUME CacheInv, [Next]_vars PROVE CacheInv'
  OBVIOUS
<1>1. CASE Mine \/ BootResume \/ StartTick \/ ScanChallenges \/ Commit
             \/ UNCHANGED vars
  BY <1>1 DEF Mine, BootResume, StartTick, ScanChallenges, Commit, vars,
              CacheInv, KnownFresh
<1>2. CASE BootSeed \/ BootMark
  BY <1>2 DEF BootSeed, BootMark, CacheInv, KnownFresh
<1>3. CASE Discover \/ DiscoverLied
  BY <1>3 DEF Discover, DiscoverLied, CacheInv, KnownFresh
<1>4. CASE Refresh \/ StageFails
  BY <1>4 DEF Refresh, StageFails, LoadKnown, CacheInv, KnownFresh
<1>5. CASE Restart
  BY <1>5 DEF Restart, CacheInv, KnownFresh
<1> QED
  BY <1>1, <1>2, <1>3, <1>4, <1>5 DEF Next, Boot, Tick, Idle

\* The cached address set is the table's whenever it is not marked dirty.
THEOREM CacheFresh == Spec => []KnownFresh
<1>1. Init => CacheInv
  BY DEF Init, CacheInv, KnownFresh
<1>2. CacheInv => KnownFresh
  BY DEF CacheInv
<1> QED
  BY <1>1, <1>2, CacheStep, PTL DEF Spec
-----------------------------------------------------------------------------
\* A tick under way aims beyond last_block, a seed no further before it than
\* its head lags.
ForwardInv ==
  /\ proc \in Stages => target > last
  /\ proc = "mark" => seedAt + HeadLag >= last

\* The step MarkerForward allows.
Forward == last' >= last \/ (proc = "mark" /\ last' + HeadLag >= last)

LEMMA ForwardStep ==
  TypeOK /\ ForwardInv /\ [Next]_vars => ForwardInv' /\ Forward
<1> SUFFICES ASSUME NumbersOK, ForwardInv, [Next]_vars
             PROVE  ForwardInv' /\ Forward
  BY TypeParts
<1>1. CASE Mine \/ BootResume \/ Refresh \/ StageFails \/ Restart
             \/ UNCHANGED vars
  BY <1>1 DEF Mine, BootResume, Refresh, StageFails, Restart, vars,
              ForwardInv, Forward, NumbersOK, Stages
<1>2. CASE BootSeed
  <2>1. head <= seedAt' + HeadLag
    BY <1>2, SeedFacts
  <2>2. seedAt' + HeadLag >= last /\ last \in Nat
    BY <1>2, <2>1, SeedFacts, ChainAssumption DEF NumbersOK
  <2> QED
    BY <1>2, <2>2 DEF BootSeed, ForwardInv, Forward, Stages
<1>3. CASE BootMark
  BY <1>3 DEF BootMark, ForwardInv, Forward, NumbersOK, Stages
<1>4. CASE StartTick
  BY <1>4, StartTickFacts DEF ForwardInv, Forward, NumbersOK, Stages
<1>5. CASE Discover \/ DiscoverLied \/ ScanChallenges
  BY <1>5 DEF Discover, DiscoverLied, ScanChallenges, ForwardInv, Forward,
              NumbersOK, Stages
<1>6. CASE Commit
  BY <1>6 DEF Commit, ForwardInv, Forward, NumbersOK, Stages
<1> QED
  BY <1>1, <1>2, <1>3, <1>4, <1>5, <1>6 DEF Next, Boot, Tick, Idle

\* No tick moves last_block back, however far an endpoint's head lags behind
\* and wherever the process ends; a repeated seed does so by that lag at most.
THEOREM MarkerNeverBack == Spec => MarkerForward
<1>1. Init => ForwardInv
  BY DEF Init, ForwardInv, Stages
<1>2. TypeOK /\ ForwardInv /\ [Next]_vars => ForwardInv'
  BY ForwardStep
<1>3. TypeOK /\ ForwardInv /\ [Next]_vars
        => [last' >= last \/ (proc = "mark" /\ last' + HeadLag >= last)]_last
  BY ForwardStep DEF Forward
<1>4. TypeOK /\ [Next]_vars => TypeOK'
  BY NumbersStep, SetsStep DEF TypeOK, NumbersOK, SetsOK
<1> QED
  BY <1>1, <1>2, <1>3, <1>4, TypeInit, PTL DEF Spec, MarkerForward
-----------------------------------------------------------------------------
\* No crash falls between Bootstrap's two writes.
SeedAtomic == "seedcrash" \notin Faults

\* last_block is set once positions are, it lies above the re-scan window,
\* and a tick has covered everything before the chunk it is at.
CoverInv ==
  /\ last = 0 \/ last > Overlap
  /\ positions # {} => last # 0 \/ proc = "mark"
  /\ proc \in Stages \cup {"idle"} => last # 0
  /\ last # 0 => 1 .. (last - Overlap) \subseteq scanned
  /\ proc = "mark" => /\ seedAt > Overlap
                      /\ 1 .. (seedAt - Overlap) \subseteq scanned
  /\ proc \in Stages => 1 .. (from - 1) \subseteq scanned
  /\ proc \in {"refresh", "challenges"} => from <= target

LEMMA CoverStep ==
  ASSUME SeedAtomic
  PROVE  TypeOK /\ ForwardInv /\ CoverInv /\ [Next]_vars => CoverInv'
<1> SUFFICES ASSUME NumbersOK, ForwardInv, CoverInv, [Next]_vars
             PROVE  CoverInv'
  BY TypeParts
<1> USE ChainAssumption, WindowAssumption
<1>1. CASE Mine \/ UNCHANGED vars
  BY <1>1 DEF Mine, vars, CoverInv, NumbersOK
<1>2. CASE BootResume
  BY <1>2 DEF BootResume, CoverInv, Stages
<1>3. CASE BootSeed
  <2>1. PICK h \in (head - PeerLag) .. head : scanned' = scanned \cup (1 .. h)
    BY <1>3 DEF BootSeed
  <2>2. /\ proc' = "mark" /\ last' = last /\ head' = head
        /\ scanned \subseteq scanned' /\ seedAt' > Overlap
    BY <1>3, <2>1, SeedFacts DEF BootSeed
  <2>3. 1 .. (seedAt' - Overlap) \subseteq 1 .. h
    BY <1>3, <2>1, SeedFacts DEF NumbersOK
  <2>4. 1 .. (seedAt' - Overlap) \subseteq scanned'
    BY <2>1, <2>3
  <2>5. last # 0 => 1 .. (last - Overlap) \subseteq scanned'
    BY <2>2 DEF CoverInv
  <2> QED
    BY <2>2, <2>4, <2>5 DEF CoverInv, Stages
<1>4. CASE BootMark
  BY <1>4 DEF BootMark, CoverInv, NumbersOK, Stages
<1>5. CASE StartTick
  <2>1. last > Overlap
    BY <1>5 DEF StartTick, CoverInv, NumbersOK
  <2>2. /\ from' - 1 = last - Overlap /\ proc' = "discover"
        /\ UNCHANGED <<head, positions, last, seedAt, scanned>>
    BY <1>5, <2>1, StartTickFacts DEF NumbersOK
  <2> QED
    BY <2>1, <2>2 DEF CoverInv, NumbersOK, Stages
<1>6. CASE Discover \/ DiscoverLied
  <2>1. /\ proc = "discover" /\ proc' = "refresh" /\ from <= target
        /\ UNCHANGED <<head, last, seedAt, from, target, scanned>>
    BY <1>6 DEF Discover, DiscoverLied
  <2> QED
    BY <2>1 DEF CoverInv, Stages
<1>7. CASE Refresh
  BY <1>7 DEF Refresh, CoverInv, Stages
<1>8. CASE ScanChallenges
  <2>1. /\ proc = "challenges" /\ proc' = "discover"
        /\ scanned' = scanned \cup (from .. ChunkTo)
        /\ from' = ChunkTo + 1 /\ ChunkTo \in Nat
        /\ UNCHANGED <<head, positions, last, seedAt, target>>
    BY <1>8, ChunkFacts DEF ScanChallenges
  <2>2. 1 .. (from' - 1) \subseteq (1 .. (from - 1)) \cup (from .. ChunkTo)
    BY <2>1 DEF NumbersOK
  <2>3. 1 .. (from - 1) \subseteq scanned
    BY <2>1 DEF CoverInv, Stages
  <2>4. 1 .. (from' - 1) \subseteq scanned'
    BY <2>1, <2>2, <2>3
  <2> QED
    BY <2>1, <2>4 DEF CoverInv, Stages
<1>9. CASE StageFails
  BY <1>9 DEF StageFails, CoverInv, Stages
<1>10. CASE Commit
  <2>1. /\ proc = "discover" /\ from > target /\ proc' = "idle"
        /\ last' = target \/ last' = last
        /\ UNCHANGED <<head, positions, seedAt, from, target, scanned>>
    BY <1>10 DEF Commit
  <2>2. last # 0 /\ 1 .. (from - 1) \subseteq scanned
    BY <2>1 DEF CoverInv, Stages
  <2>3. target >= last
    BY <1>10 DEF Commit, ForwardInv, NumbersOK, Stages
  <2> QED
    BY <2>1, <2>2, <2>3 DEF CoverInv, NumbersOK, Stages
<1>11. CASE Restart
  <2>1. /\ proc # "mark" /\ proc' = "boot"
        /\ UNCHANGED <<head, positions, last, scanned>>
    BY <1>11 DEF Restart, Spend, SeedAtomic
  <2> QED
    BY <2>1 DEF CoverInv, Stages
<1> QED
  BY <1>1, <1>2, <1>3, <1>4, <1>5, <1>6, <1>7, <1>8, <1>9, <1>10, <1>11
  DEF Next, Boot, Tick, Idle

LEMMA CoverInit == Init => CoverInv
<1> SUFFICES ASSUME Init PROVE CoverInv
  OBVIOUS
<1> QED
  BY ChainAssumption DEF Init, CoverInv, Stages

\* Without a crash inside Bootstrap, last_block leaves behind only blocks
\* that were covered, whatever else fails and however the chunks fall.
THEOREM MarkerNeverAhead == ASSUME SeedAtomic PROVE Spec => []MarkerCovered
<1>1. Init => ForwardInv
  BY DEF Init, ForwardInv, Stages
<1>2. TypeOK /\ ForwardInv /\ [Next]_vars => ForwardInv'
  BY ForwardStep
<1>3. TypeOK /\ [Next]_vars => TypeOK'
  BY NumbersStep, SetsStep DEF TypeOK, NumbersOK, SetsOK
<1>4. TypeOK /\ ForwardInv /\ CoverInv /\ [Next]_vars => CoverInv'
  BY CoverStep
<1>5. CoverInv => MarkerCovered
  <2>1. last = 0 => 1 .. (last - Overlap) = {}
    BY WindowAssumption
  <2> QED
    BY <2>1 DEF CoverInv, MarkerCovered
<1> QED
  BY <1>1, <1>2, <1>3, <1>4, <1>5, TypeInit, CoverInit, PTL DEF Spec
-----------------------------------------------------------------------------
(* NoPositionMissed is an argument about a budget, like NoLogLeftBehind of  *)
(* the challenge scan: a tick that commits without storing a position of    *)
(* its window has spent a failure on it, and moves last_block by at most    *)
(* MaxLag; a peer's old list costs PeerLag once.                            *)
LagCovered ==
  /\ PeerLag + MaxLag * MaxFaults <= Overlap
  /\ HeadLag <= MaxLag /\ Depth <= Overlap

\* The blocks that the seed and the failures so far can have cost a position.
Delay == PeerLag + MaxLag * (MaxFaults - faultsLeft)

\* The tick is past the chunk that holds the position's block.
Passed(p) ==
  \/ proc = "discover" /\ OpenBlock[p] < from
  \/ proc \in {"refresh", "challenges"} /\ OpenBlock[p] <= ChunkTo

LagInv ==
  /\ faultsLeft <= MaxFaults
  /\ Marker # 0 => head - Depth <= Marker + MaxLag
  /\ proc \in Stages => target <= last + MaxLag

\* A position that is missing is owed to the seed and the failures so far,
\* or lies ahead.
OwedInv ==
  \A p \in Positions \ positions :
    /\ last < OpenBlock[p] + Delay
    /\ proc = "mark" => seedAt < OpenBlock[p] + PeerLag
    /\ Passed(p) => target < OpenBlock[p] + Delay

\* A failure pays for one more tick; every other step leaves the delay alone.
LEMMA DelayFacts ==
  ASSUME LagCovered, NumbersOK, LagInv
  PROVE  /\ Delay \in Nat /\ PeerLag <= Delay /\ Delay <= Overlap
         /\ \A step : Spend(step) => Delay' = Delay + MaxLag
         /\ faultsLeft' = faultsLeft => Delay' = Delay
<1> DEFINE spent == MaxFaults - faultsLeft
<1>1. /\ MaxLag \in Nat /\ MaxFaults \in Nat /\ PeerLag \in Nat /\ Overlap \in Nat
      /\ faultsLeft \in Nat /\ faultsLeft <= MaxFaults
  BY ChainAssumption, WindowAssumption DEF NumbersOK, LagInv
<1>2. spent \in Nat /\ spent <= MaxFaults
  BY <1>1
<1>3. MaxLag * spent \in Nat /\ MaxLag * spent <= MaxLag * MaxFaults
  <2> HIDE DEF spent
  <2>1. \A a, b, k \in Nat : a <= b => k * a \in Nat /\ k * a <= k * b
    OBVIOUS
  <2> QED
    BY <1>1, <1>2, <2>1
<1>4. /\ Delay \in Nat /\ PeerLag <= Delay /\ Delay <= Overlap
  <2>1. MaxLag * MaxFaults \in Nat
    BY <1>1
  <2>2. PeerLag + MaxLag * MaxFaults <= Overlap
    BY DEF LagCovered
  <2>3. \A a, b, c, o \in Nat :
          b <= c /\ a + c <= o => a + b \in Nat /\ a <= a + b /\ a + b <= o
    OBVIOUS
  <2>4. Delay = PeerLag + MaxLag * spent
    BY DEF Delay
  <2> HIDE DEF spent
  <2> QED
    BY <1>1, <1>3, <2>1, <2>2, <2>3, <2>4
<1>5. ASSUME NEW step, Spend(step)
      PROVE  Delay' = Delay + MaxLag
  <2>1. MaxFaults - faultsLeft' = spent + 1
    BY <1>1, <1>5 DEF Spend
  <2>2. \A a, b \in Int : a * (b + 1) = a * b + a
    OBVIOUS
  <2>3. MaxLag * (spent + 1) = MaxLag * spent + MaxLag
    <3> HIDE DEF spent
    <3> QED
      BY <1>1, <1>2, <2>2
  <2>4. Delay' = PeerLag + (MaxLag * spent + MaxLag)
    BY <2>1, <2>3 DEF Delay
  <2>5. \A a, b, c \in Nat : a + (b + c) = (a + b) + c
    OBVIOUS
  <2> QED
    BY <1>1, <1>3, <2>4, <2>5 DEF Delay
<1> QED
  BY <1>4, <1>5 DEF Delay

\* What a step may do to the budget.
LEMMA BudgetStep ==
  ASSUME NumbersOK, LagInv, [Next]_vars
  PROVE  /\ faultsLeft' <= MaxFaults
         /\ \/ faultsLeft' = faultsLeft
            \/ \E step : Spend(step)
<1>1. \/ faultsLeft' = faultsLeft
      \/ \E step : Spend(step)
  BY DEF Next, vars, Mine, Boot, BootResume, BootSeed, BootMark, Tick,
         StartTick, Discover, DiscoverLied, Refresh, ScanChallenges,
         StageFails, Commit, Restart, Idle
<1> QED
  BY <1>1, ChainAssumption DEF Spend, LagInv, NumbersOK

LEMMA LagStep ==
  ASSUME SeedAtomic, LagCovered, NumbersOK, ForwardInv, CoverInv, LagInv,
         [Next]_vars
  PROVE  LagInv'
<1>1. faultsLeft' <= MaxFaults
  BY BudgetStep
<1>2. /\ head \in Nat /\ last \in Nat /\ target \in Nat /\ seedAt \in Nat
      /\ Depth \in Nat /\ MaxLag \in Nat /\ HeadLag \in Nat /\ Overlap \in Nat
      /\ HeadLag <= MaxLag /\ Depth <= Overlap
      /\ Overlap + HeadLag < head
  BY ChainAssumption, WindowAssumption DEF NumbersOK, LagCovered
<1>3. CASE Mine
  <2>1. TargetOf(head + 1) = head + 1 - Depth
    BY <1>2 DEF TargetOf
  <2>2. Marker' = Marker /\ Marker \in Nat
    BY <1>2, <1>3 DEF Mine, Marker
  <2>3. Marker # 0 => head' - Depth <= Marker + MaxLag
    BY <1>2, <1>3, <2>1, <2>2 DEF Mine
  <2> QED
    BY <1>1, <1>3, <2>2, <2>3 DEF Mine, LagInv
<1>4. CASE BootResume \/ Refresh \/ ScanChallenges \/ Discover
             \/ DiscoverLied \/ StageFails \/ UNCHANGED vars
  BY <1>1, <1>4 DEF BootResume, Refresh, ScanChallenges, Discover,
     DiscoverLied, StageFails, vars, LagInv, Marker, Stages
<1>5. CASE BootSeed
  <2>1. /\ proc' = "mark" /\ head' = head /\ Marker' = seedAt'
        /\ seedAt' \in Nat /\ head <= seedAt' + HeadLag
    BY <1>5, SeedFacts DEF BootSeed, Marker
  <2>2. \A h, n, d, a, b \in Nat : h <= n + a /\ a <= b => h - d <= n + b
    OBVIOUS
  <2>3. head - Depth <= seedAt' + MaxLag
    BY <1>2, <2>1, <2>2
  <2> QED
    BY <1>1, <2>1, <2>3 DEF LagInv, Stages
<1>6. CASE BootMark
  BY <1>1, <1>6 DEF BootMark, LagInv, Marker, Stages
<1>7. CASE StartTick
  <2>1. /\ proc = "idle" /\ last # 0 /\ proc' = "discover"
        /\ UNCHANGED <<head, last>>
    BY <1>7 DEF StartTick, CoverInv
  <2>2. PICK h \in (head - HeadLag) .. head : target' = TargetOf(h)
    BY <1>7 DEF StartTick
  <2>3. TargetOf(h) = h - Depth /\ h \in Nat /\ h <= head
    <3>1. \A f, g, o \in Nat :
            o + g < f => \A n \in (f - g) .. f : n \in Nat /\ o < n /\ n <= f
      OBVIOUS
    <3>2. h \in Nat /\ Overlap < h /\ h <= head
      BY <1>2, <2>2, <3>1
    <3> QED
      BY <1>2, <3>2 DEF TargetOf
  <2>4. Marker = last /\ Marker' = last
    BY <2>1 DEF Marker
  <2>5. head - Depth <= last + MaxLag
    BY <2>1, <2>4 DEF LagInv
  <2>6. target' <= last + MaxLag
    BY <1>2, <2>2, <2>3, <2>5
  <2> QED
    BY <1>1, <2>1, <2>4, <2>5, <2>6 DEF LagInv
<1>8. CASE Commit
  <2>1. /\ proc = "discover" /\ proc' = "idle" /\ head' = head
        /\ last' = target \/ last' = last
    BY <1>8 DEF Commit
  <2>2. target > last /\ Marker = last /\ Marker' = last' /\ last # 0
    BY <2>1 DEF ForwardInv, CoverInv, Marker, Stages
  <2>3. head - Depth <= last + MaxLag
    BY <2>2 DEF LagInv
  <2>4. head - Depth <= last' + MaxLag
    BY <1>2, <2>1, <2>2, <2>3
  <2> QED
    BY <1>1, <2>1, <2>2, <2>4 DEF LagInv, Stages
<1>9. CASE Restart
  <2>1. /\ proc # "mark" /\ proc' = "boot" /\ UNCHANGED <<head, last>>
    BY <1>9 DEF Restart, Spend, SeedAtomic
  <2> QED
    BY <1>1, <2>1 DEF LagInv, Marker, Stages
<1> QED
  BY <1>3, <1>4, <1>5, <1>6, <1>7, <1>8, <1>9 DEF Next, Boot, Tick, Idle

LEMMA OwedStep ==
  ASSUME SeedAtomic, LagCovered, NumbersOK, ForwardInv, CoverInv, LagInv,
         OwedInv, [Next]_vars
  PROVE  OwedInv'
<1> SUFFICES ASSUME NEW p \in Positions, p \notin positions'
             PROVE  /\ last' < OpenBlock[p] + Delay'
                    /\ proc' = "mark" => seedAt' < OpenBlock[p] + PeerLag
                    /\ Passed(p)' => target' < OpenBlock[p] + Delay'
  BY DEF OwedInv
<1>1. /\ head \in Nat /\ last \in Nat /\ target \in Nat /\ seedAt \in Nat
      /\ from \in Nat /\ MaxLag \in Nat /\ HeadLag \in Nat /\ Overlap \in Nat
      /\ PeerLag \in Nat /\ OpenBlock[p] \in Nat \ {0}
  BY ChainAssumption, WindowAssumption DEF NumbersOK
<1>2. /\ Delay \in Nat /\ Delay <= Overlap /\ PeerLag <= Delay
      /\ Delay' \in {Delay, Delay + MaxLag}
  BY DelayFacts, BudgetStep
<1>3. CASE Mine \/ BootResume \/ UNCHANGED vars
  <2>1. /\ UNCHANGED <<positions, last, seedAt, from, target, faultsLeft>>
        /\ proc' = proc \/ proc' = "idle"
    BY <1>3 DEF Mine, BootResume, vars
  <2>2. Delay' = Delay /\ (Passed(p)' => Passed(p))
    BY <2>1 DEF Delay, Passed, ChunkTo
  <2>3. proc' = "mark" => proc = "mark"
    BY <2>1
  <2> QED
    BY <2>1, <2>2, <2>3 DEF OwedInv
<1>4. CASE BootSeed
  <2>1. /\ positions = {} /\ proc' = "mark"
        /\ UNCHANGED <<head, last, from, target, faultsLeft>>
    BY <1>4 DEF BootSeed
  <2>2. PICK h \in (head - PeerLag) .. head : positions' = OpenedIn(1, h)
    BY <1>4 DEF BootSeed
  <2>3. h < OpenBlock[p]
    BY <1>1, <2>2 DEF OpenedIn
  <2>4. seedAt' < OpenBlock[p] + PeerLag
    <3>1. \A n, m, a, b \in Nat :
            \A k \in (m - a) .. m : n <= m /\ k < b => n < b + a
      OBVIOUS
    <3>2. seedAt' \in Nat /\ seedAt' <= head
      BY <1>4, SeedFacts
    <3> QED
      BY <1>1, <2>2, <2>3, <3>1, <3>2
  <2>5. Delay' = Delay /\ ~Passed(p)'
    BY <2>1 DEF Delay, Passed
  <2> QED
    BY <2>1, <2>4, <2>5 DEF OwedInv
<1>5. CASE BootMark
  <2>1. /\ proc = "mark" /\ proc' = "idle" /\ last' = seedAt
        /\ UNCHANGED <<positions, faultsLeft>>
    BY <1>5 DEF BootMark
  <2>2. Delay' = Delay /\ ~Passed(p)'
    BY <2>1 DEF Delay, Passed
  <2>3. seedAt < OpenBlock[p] + PeerLag
    BY <2>1 DEF OwedInv
  <2>4. last' < OpenBlock[p] + Delay'
    BY <1>1, <1>2, <2>1, <2>2, <2>3
  <2> QED
    BY <2>1, <2>2, <2>4
<1>6. CASE StartTick
  <2>1. /\ proc = "idle" /\ proc' = "discover" /\ last > Overlap
        /\ from' = last + 1 - Overlap
        /\ UNCHANGED <<positions, last, faultsLeft>>
    BY <1>1, <1>6, StartTickFacts DEF StartTick, CoverInv
  <2>2. Delay' = Delay /\ last < OpenBlock[p] + Delay
    BY <2>1 DEF Delay, OwedInv
  <2>3. ~(OpenBlock[p] < from')
    BY <1>1, <1>2, <2>1, <2>2
  <2> QED
    BY <2>1, <2>2, <2>3 DEF Passed
<1>7. CASE Discover \/ DiscoverLied
  <2>1. /\ proc = "discover" /\ proc' = "refresh" /\ from <= target
        /\ p \notin positions
        /\ UNCHANGED <<last, from, target>>
    BY <1>7 DEF Discover, DiscoverLied
  <2>2. \/ p \notin OpenedIn(from, ChunkTo)
        \/ \E step : Spend(step)
    BY <1>7 DEF Discover, DiscoverLied
  <2>3. last < OpenBlock[p] + Delay'
    BY <1>1, <1>2, <2>1 DEF OwedInv
  <2>4. ASSUME Passed(p)'
        PROVE  target < OpenBlock[p] + Delay'
    <3>1. OpenBlock[p] <= ChunkTo /\ ChunkTo \in Nat
      BY <2>1, <2>4, ChunkFacts DEF Passed, ChunkTo
    <3>2. CASE OpenBlock[p] < from
      <4>1. target < OpenBlock[p] + Delay
        BY <2>1, <3>2 DEF OwedInv, Passed
      <4> QED
        BY <1>1, <1>2, <4>1
    <3>3. CASE ~(OpenBlock[p] < from)
      <4>1. p \in OpenedIn(from, ChunkTo)
        BY <1>1, <3>1, <3>3 DEF OpenedIn
      <4>2. Delay' = Delay + MaxLag
        BY <2>2, <4>1, DelayFacts
      <4>3. last < OpenBlock[p] + Delay /\ target <= last + MaxLag
        BY <2>1 DEF OwedInv, LagInv, Stages
      <4> QED
        BY <1>1, <1>2, <4>2, <4>3
    <3> QED
      BY <3>2, <3>3
  <2> QED
    BY <2>1, <2>3, <2>4
<1>8. CASE Refresh \/ ScanChallenges
  <2>1. /\ UNCHANGED <<positions, last, target, faultsLeft>>
        /\ \/ proc = "refresh" /\ proc' = "challenges" /\ from' = from
           \/ proc = "challenges" /\ proc' = "discover" /\ from' = ChunkTo + 1
    BY <1>8, ChunkFacts DEF Refresh, ScanChallenges
  <2>2. Delay' = Delay
    BY <2>1 DEF Delay
  <2>3. Passed(p)' => Passed(p)
    BY <1>1, <2>1, ChunkFacts DEF Passed, ChunkTo
  <2> QED
    BY <2>1, <2>2, <2>3 DEF OwedInv
<1>9. CASE Commit
  <2>1. /\ proc = "discover" /\ from > target /\ proc' = "idle"
        /\ p \notin positions
        /\ last' = target \/ last' = last
    BY <1>9 DEF Commit
  <2>2. target < OpenBlock[p] + Delay
    BY <1>1, <1>2, <2>1 DEF OwedInv, Passed
  <2>3. last' < OpenBlock[p] + Delay'
    BY <1>1, <1>2, <2>1, <2>2 DEF OwedInv
  <2> QED
    BY <2>1, <2>3 DEF Passed
<1>10. CASE StageFails \/ Restart
  <2>1. /\ proc' \in {"idle", "boot"} /\ UNCHANGED <<positions, last>>
    BY <1>10 DEF StageFails, Restart
  <2>2. last' < OpenBlock[p] + Delay'
    BY <1>1, <1>2, <2>1 DEF OwedInv
  <2> QED
    BY <2>1, <2>2 DEF Passed
<1> QED
  BY <1>3, <1>4, <1>5, <1>6, <1>7, <1>8, <1>9, <1>10
  DEF Next, Boot, Tick, Idle

\* No position that opened before the next window is missing, through lies of
\* racers, failed hydrations, failed ticks, restarts and an old seed list, as
\* long as the overlap covers what they can delay.
THEOREM NoneMissed ==
  ASSUME SeedAtomic, LagCovered PROVE Spec => []NoPositionMissed
<1> DEFINE I == TypeOK /\ ForwardInv /\ CoverInv /\ LagInv /\ OwedInv
<1>1. Init => I
  <2> SUFFICES ASSUME Init PROVE I
    OBVIOUS
  <2>1. LagInv
    BY ChainAssumption DEF Init, LagInv, Marker, Stages
  <2>2. OwedInv
    <3>1. faultsLeft = MaxFaults /\ last = 0 /\ proc = "boot"
      BY DEF Init
    <3>2. Delay \in Nat
      BY <2>1, TypeInit, TypeParts, DelayFacts
    <3>3. \A p \in Positions : OpenBlock[p] \in Nat \ {0}
      BY ChainAssumption
    <3>4. \A p \in Positions : 0 < OpenBlock[p] + Delay
      <4> TAKE p \in Positions
      <4>1. OpenBlock[p] \in Nat /\ OpenBlock[p] # 0
        BY <3>3
      <4> QED
        BY <3>2, <4>1
    <3>5. \A p \in Positions : ~Passed(p)
      BY <3>1 DEF Passed
    <3> QED
      BY <3>1, <3>4, <3>5 DEF OwedInv
  <2>3. ForwardInv
    BY DEF Init, ForwardInv, Stages
  <2> QED
    BY <2>1, <2>2, <2>3, TypeInit, CoverInit
<1>2. I /\ [Next]_vars => I'
  <2>1. TypeOK /\ [Next]_vars => TypeOK'
    BY NumbersStep, SetsStep DEF TypeOK, NumbersOK, SetsOK
  <2> QED
    BY <2>1, TypeParts, ForwardStep, CoverStep, LagStep, OwedStep
<1>3. I => NoPositionMissed
  <2> SUFFICES ASSUME NumbersOK, LagInv, OwedInv,
                      NEW p \in Positions, OpenBlock[p] + Overlap <= last
               PROVE  p \in positions
    BY TypeParts DEF NoPositionMissed
  <2>1. /\ OpenBlock[p] \in Nat /\ Overlap \in Nat /\ last \in Nat
        /\ Delay \in Nat /\ Delay <= Overlap
    BY ChainAssumption, WindowAssumption, DelayFacts DEF NumbersOK
  <2> QED
    BY <2>1 DEF OwedInv
<1> QED
  BY <1>1, <1>2, <1>3, PTL DEF Spec
=============================================================================
