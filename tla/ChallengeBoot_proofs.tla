------------------------ MODULE ChallengeBoot_proofs ------------------------
(***************************************************************************)
(* What the seed of the challenges guarantees together with the scans, for *)
(* every history, every peer's height and every failure of the bootstrap.  *)
(***************************************************************************)
EXTENDS ChallengeBoot, ChallengeScan_proofs

\* A table written over a table is a table.
LEMMA BulkUpsertType ==
  ASSUME NEW table, NEW list, NEW K, NEW V,
         DOMAIN table \subseteq K, table \in [DOMAIN table -> V],
         DOMAIN list \subseteq K, list \in [DOMAIN list -> V]
  PROVE  /\ DOMAIN BulkUpsert(table, list) = DOMAIN table \cup DOMAIN list
         /\ DOMAIN BulkUpsert(table, list) \subseteq K
         /\ BulkUpsert(table, list) \in [DOMAIN BulkUpsert(table, list) -> V]
BY DEF BulkUpsert

\* What a peer serves are rows of the two tables.
LEMMA PeerType ==
  ASSUME NEW h \in Heights
  PROVE  /\ DOMAIN PeerChals[h] \subseteq Challenges
         /\ PeerChals[h] \in [DOMAIN PeerChals[h] -> Row]
         /\ DOMAIN Converted(PeerBids[h]) \subseteq Challenges \X Nat
         /\ Converted(PeerBids[h]) \in [DOMAIN Converted(PeerBids[h]) -> Bid]
<1>1. DOMAIN PeerChals[h] \subseteq Challenges
  BY PeerAssumption, LogType
<1>2. ASSUME NEW row \in Bid PROVE ConvertBid(row) \in Bid
  <2>1. row.key \in Nat \X Nat
    BY DEF Bid
  <2>2. <<row.key[1], 0>> \in Nat \X Nat
    BY <2>1
  <2> QED
    BY <2>2 DEF ConvertBid, Bid
<1>3. \A b \in DOMAIN PeerBids[h] : PeerBids[h][b] \in Bid
  BY PeerAssumption
<1>4. \A b \in DOMAIN PeerBids[h] : ConvertBid(PeerBids[h][b]) \in Bid
  BY <1>2, <1>3
<1>5. /\ DOMAIN Converted(PeerBids[h]) = DOMAIN PeerBids[h]
      /\ Converted(PeerBids[h]) \in [DOMAIN PeerBids[h] -> Bid]
  BY <1>4 DEF Converted
<1> QED
  BY <1>1, <1>5, PeerAssumption

LEMMA SeedBidsType ==
  ASSUME bidsAt \in Heights \cup {None}
  PROVE  /\ DOMAIN SeedBids \subseteq Challenges \X Nat
         /\ SeedBids \in [DOMAIN SeedBids -> Bid]
<1>1. CASE bidsAt = None
  <2>1. SeedBids = << >> /\ DOMAIN SeedBids = {}
    BY <1>1 DEF SeedBids
  <2> QED
    BY <2>1
<1>2. CASE bidsAt \in Heights /\ bidsAt # None
  BY <1>2, PeerType DEF SeedBids
<1> QED
  BY <1>1, <1>2
-----------------------------------------------------------------------------
LEMMA SpendBootType ==
  ASSUME NEW call, faultsLeft \in Nat, SpendBoot(call)
  PROVE  faultsLeft' \in Nat
BY DEF SpendBoot

LEMMA BootTypeInit == BootInit => BootTypeOK
BY TypeInit DEF BootInit, BootTypeOK, Stages, Init

\* A step of the bootstrap leaves the loop idle and the tables typed.
LEMMA BootStepType ==
  ASSUME BootTypeOK, Boot
  PROVE  BootTypeOK'
<1>1. /\ TypeOK /\ stage # "run" /\ phase = "idle" /\ pend = 0
      /\ faultsLeft \in Nat
  BY DEF BootTypeOK, Boot, AlreadySeeded, StartSeed, FetchChallenges,
         FetchChallengesFails, FetchBids, StoreChals, StoreSeedBids, Mark,
         TypeOK, LoopOK, PendOK
<1>2. faultsLeft' \in Nat
  BY <1>1, SpendBootType
  DEF Boot, AlreadySeeded, StartSeed, FetchChallenges, FetchChallengesFails, FetchBids,
      StoreChals, StoreSeedBids, Mark
<1>3. UNCHANGED <<loop, todo, cur, pend>>
  BY DEF Boot, AlreadySeeded, StartSeed, FetchChallenges, FetchChallengesFails,
         FetchBids, StoreChals, StoreSeedBids, Mark, Reads
<1>4. LoopOK' /\ PendOK' /\ phase' = "idle"
  BY <1>1, <1>2, <1>3 DEF TypeOK, LoopOK, PendOK, loop
<1>5. TablesOK'
  <2>1. CASE tables' = tables
    BY <1>1, <2>1 DEF TypeOK, TablesOK, tables
  <2>2. CASE StoreChals /\ tables' # tables
    <3>1. /\ chals' = BulkUpsert(chals, PeerChals[chalsAt])
          /\ bids' = bids /\ chalsAt \in Heights
      BY <2>2 DEF StoreChals, BootTypeOK, tables
    <3>2. /\ DOMAIN chals' \subseteq Challenges
          /\ chals' \in [DOMAIN chals' -> Row]
      <4> DEFINE list == PeerChals[chalsAt]
      <4>1. /\ DOMAIN chals \subseteq Challenges
            /\ chals \in [DOMAIN chals -> Row]
            /\ DOMAIN list \subseteq Challenges
            /\ list \in [DOMAIN list -> Row]
        BY <1>1, <3>1, PeerType DEF TypeOK, TablesOK
      <4> HIDE DEF list
      <4>2. /\ DOMAIN BulkUpsert(chals, list) \subseteq Challenges
            /\ BulkUpsert(chals, list)
                 \in [DOMAIN BulkUpsert(chals, list) -> Row]
        BY <4>1, BulkUpsertType
      <4> QED
        BY <3>1, <4>2 DEF list
    <3> QED
      BY <1>1, <3>1, <3>2 DEF TypeOK, TablesOK
  <2>3. CASE StoreSeedBids /\ tables' # tables
    <3>1. bids' = BulkUpsert(bids, SeedBids) /\ chals' = chals
      BY <2>3 DEF StoreSeedBids, tables
    <3>2. bidsAt \in Heights \cup {None}
      BY DEF BootTypeOK
    <3>3. /\ DOMAIN bids' \subseteq Challenges \X Nat
          /\ bids' \in [DOMAIN bids' -> Bid]
      <4>1. /\ DOMAIN bids \subseteq Challenges \X Nat
            /\ bids \in [DOMAIN bids -> Bid]
            /\ DOMAIN SeedBids \subseteq Challenges \X Nat
            /\ SeedBids \in [DOMAIN SeedBids -> Bid]
        BY <1>1, <3>2, SeedBidsType DEF TypeOK, TablesOK
      <4> DEFINE list == SeedBids
                 ids == Challenges \X Nat
      <4> HIDE DEF list, ids
      <4>2. /\ DOMAIN bids \subseteq ids /\ bids \in [DOMAIN bids -> Bid]
            /\ DOMAIN list \subseteq ids /\ list \in [DOMAIN list -> Bid]
        BY <4>1 DEF list, ids
      <4>3. /\ DOMAIN BulkUpsert(bids, list) \subseteq ids
            /\ BulkUpsert(bids, list) \in [DOMAIN BulkUpsert(bids, list) -> Bid]
        BY <4>2, BulkUpsertType
      <4> QED
        BY <3>1, <4>3 DEF list, ids
    <3> QED
      BY <1>1, <3>1, <3>3 DEF TypeOK, TablesOK
  <2> QED
    BY <2>1, <2>2, <2>3
    DEF Boot, AlreadySeeded, StartSeed, FetchChallenges, FetchChallengesFails,
        FetchBids, Mark, Reads, tables
<1>6. /\ marked' \in BOOLEAN /\ stage' \in Stages
      /\ chalsAt' \in Heights \cup {None} /\ bidsAt' \in Heights \cup {None}
      /\ stage' \notin {"start", "fetch", "run"} => chalsAt' \in Heights
  <2>1. CASE AlreadySeeded \/ StartSeed \/ FetchChallengesFails
    BY <2>1 DEF BootTypeOK, AlreadySeeded, StartSeed, FetchChallengesFails,
                Reads, Stages
  <2>2. CASE FetchChallenges
    BY <2>2 DEF BootTypeOK, FetchChallenges, AnswerHeights, Reads, Stages
  <2>3. CASE FetchBids
    BY <2>3 DEF BootTypeOK, FetchBids, AnswerHeights, Reads, Stages
  <2>4. CASE StoreChals
    BY <2>4 DEF BootTypeOK, StoreChals, Return, Stages
  <2>5. CASE StoreSeedBids
    BY <2>5 DEF BootTypeOK, StoreSeedBids, Return, Stages
  <2>6. CASE Mark
    BY <2>6 DEF BootTypeOK, Mark, Return, Stages
  <2> QED
    BY <2>1, <2>2, <2>3, <2>4, <2>5, <2>6 DEF Boot
<1>7. blanked' \subseteq DOMAIN chals'
  <2>1. CASE StoreChals
    <3>1. \/ blanked' = blanked /\ chals' = chals
          \/ /\ blanked' = blanked \ DOMAIN PeerChals[chalsAt]
             /\ chals' = BulkUpsert(chals, PeerChals[chalsAt])
      BY <2>1 DEF StoreChals, Return
    <3> QED
      BY <3>1 DEF BulkUpsert, BootTypeOK
  <2>2. CASE ~StoreChals
    <3>1. blanked' = blanked /\ chals' = chals
      BY <2>2 DEF Boot, AlreadySeeded, StartSeed, FetchChallenges,
           FetchChallengesFails, FetchBids, StoreSeedBids, Mark, Reads, tables
    <3> QED
      BY <3>1 DEF BootTypeOK
  <2> QED
    BY <2>1, <2>2
<1> QED
  BY <1>4, <1>5, <1>6, <1>7 DEF BootTypeOK, TypeOK

\* A stop drops what the bootstrap had at hand.
LEMMA StopType ==
  ASSUME BootTypeOK, StopOutsideTick \/ StopInTick
  PROVE  BootTypeOK'
<1>1. CASE StopOutsideTick
  <2>1. faultsLeft' \in Nat
    BY <1>1, SpendBootType DEF StopOutsideTick, BootTypeOK, TypeOK, LoopOK
  <2>2. UNCHANGED <<tables, loop, todo, cur, pend, marked>> /\ phase = "idle"
    BY <1>1 DEF StopOutsideTick, Reads
  <2>4. blanked' = blanked
    BY <1>1 DEF StopOutsideTick, Reads
  <2>3. TypeOK' /\ phase' = "idle"
    BY <2>1, <2>2
    DEF BootTypeOK, TypeOK, TablesOK, LoopOK, PendOK, tables, loop
  <2> QED
    BY <1>1, <2>2, <2>3, <2>4
    DEF StopOutsideTick, BootTypeOK, Stages, tables
<1>2. CASE StopInTick
  <2>1. TypeOK' /\ phase' = "idle"
    BY <1>2, LoopType DEF StopInTick, Restart, BootTypeOK
  <2>2. chals' = chals /\ blanked' = blanked
    BY <1>2 DEF StopInTick, Restart, tables
  <2> QED
    BY <1>2, <2>1, <2>2 DEF StopInTick, BootTypeOK, Stages
<1> QED
  BY <1>1, <1>2

LEMMA BootTypeStep == BootTypeOK /\ [BootNext]_allVars => BootTypeOK'
<1> SUFFICES ASSUME BootTypeOK, [BootNext]_allVars PROVE BootTypeOK'
  OBVIOUS
<1>1. CASE Boot
  BY <1>1, BootStepType
<1>2. CASE StopOutsideTick \/ StopInTick
  BY <1>2, StopType
<1>3. CASE Tick
  <2>1. TypeOK' /\ stage = "run" /\ UNCHANGED boot
    BY <1>3, TypeStep DEF Tick, Next, BootTypeOK
  <2>2. blanked' \subseteq DOMAIN chals'
    BY <1>3 DEF Tick
  <2> QED
    BY <2>1, <2>2 DEF BootTypeOK, boot
<1>4. CASE Mine /\ UNCHANGED <<boot, blanked>>
  <2>1. TypeOK' /\ phase' = phase /\ chals' = chals
    BY <1>4, TypeStep DEF Next, Mine, BootTypeOK, tables
  <2> QED
    BY <1>4, <2>1 DEF BootTypeOK, boot
<1>5. CASE \/ stage = "run" /\ Idle /\ UNCHANGED <<boot, blanked>>
           \/ UNCHANGED allVars
  <2>1. TypeOK' /\ phase' = phase /\ chals' = chals /\ UNCHANGED <<boot, blanked>>
    BY <1>5, TypeStep DEF Idle, allVars, vars, BootTypeOK
  <2> QED
    BY <2>1 DEF BootTypeOK, boot
<1> QED
  BY <1>1, <1>2, <1>3, <1>4, <1>5 DEF BootNext

\* Type correctness of the bootstrap and the scans together, whatever fails.
THEOREM BootTypeCorrect == BootSpec => []BootTypeOK
BY BootTypeInit, BootTypeStep, PTL DEF BootSpec
-----------------------------------------------------------------------------
\* Peers are no further behind than a tick looks back, and the chain is
\* longer than that.
NearPeers == PeerLag <= Overlap /\ Overlap <= Base

\* The scans' calls that would drop a ChallengeStarted log do not fail.
StartsHandled == Faults \cap {"GetLogs", "GetBlock", "UpsertChallenge"} = {}

Starts == Logs \ BidLogs
Known(l) == History[l].chal \in DOMAIN chals

\* The logs the ticks to come will not fetch any more have their challenges.
OldKnown == \A l \in Starts : History[l].block + Overlap <= last => Known(l)

(* AnnouncedKnown is not inductive: a tick moves last_block, so that what  *)
(* it fetched must be known or still to do; and between the fetch of the   *)
(* list and the marker the seed holds a list that reaches the window.      *)
Window ==
  phase = "scan" =>
    \A l \in Starts :
      History[l].block \in WindowFrom .. target => Known(l) \/ l \in todo

ListReaches ==
  /\ stage \in {"bids", "storeChals"} => chalsAt + Overlap >= last
  /\ stage \in {"storeBids", "mark"} => OldKnown

\* A stored bid is of an announced challenge, which is known or which a tick
\* to come fetches.
OrphanInv ==
  \A b \in DOMAIN bids :
    \/ b[1] \in DOMAIN chals
    \/ \E l \in Starts : /\ History[l].chal = b[1]
                         /\ History[l].block + Overlap > last

BootInv ==
  /\ BootTypeOK /\ Base <= last /\ Window /\ ListReaches
  /\ marked => OldKnown
  /\ OrphanInv

\* No step drops a challenge; a scan's step handles what it takes off todo.
LEMMA ScanKnows ==
  ASSUME StartsHandled, TypeOK, Scan
  PROVE  /\ DOMAIN chals \subseteq DOMAIN chals'
         /\ \/ StartTick
            \/ Commit
            \/ /\ UNCHANGED loop
               /\ \A l \in Starts : l \in todo => l \in todo' \/ Known(l)'
<1>1. CASE StartTick \/ StartTickLied \/ FetchBlock \/ SkipBlock \/ StoreBid
            \/ StoreBidFails \/ Commit
  BY <1>1
  DEF StartTick, StartTickLied, FetchBlock, SkipBlock, StoreBid,
      StoreBidFails, Commit, Spend, StartsHandled, tables
<1>2. ASSUME NEW l \in Logs, Handle(l)
      PROVE  /\ DOMAIN chals \subseteq DOMAIN chals'
             /\ Handled(l)
             /\ l \in Starts => Known(l)'
  <2>1. CASE StartedAgain(l) \/ StartedBackfill(l)
    BY <2>1 DEF StartedAgain, StartedBackfill, Upsert, Known, tables
  <2>2. CASE StartedNew(l) \/ StartedUnread(l)
    BY <2>2 DEF StartedNew, StartedUnread, StartedFresh, Upsert, Known
  <2>3. CASE HandlerFails(l)
    BY <2>3 DEF HandlerFails, Spend, StartsHandled, Starts, tables
  <2>4. CASE BidSkip(l) \/ BidCount(l)
    BY <2>4 DEF BidSkip, BidCount, Count, Upsert, Starts, tables
  <2> QED
    BY <1>2, <2>1, <2>2, <2>3, <2>4 DEF Handle
<1>3. CASE \E l \in Logs : Handle(l)
  BY <1>2, <1>3 DEF Handled
<1> QED
  BY <1>1, <1>3 DEF Scan

LEMMA BootInvInit == BootInit => BootInv
BY BootTypeInit, BoundAssumption
DEF BootInit, Init, BootInv, Window, ListReaches, OrphanInv

\* What a tick's step does to the window and to last_block.
LEMMA ScanInv ==
  ASSUME NearPeers, StartsHandled, BootInv, stage = "run", marked' = marked,
         stage' = stage, Scan
  PROVE  /\ Base <= last' /\ Window' /\ (marked' => OldKnown')
         /\ OrphanInv'
<1>1. /\ TypeOK /\ last \in Nat /\ target \in Nat /\ tip \in Nat
      /\ last <= target /\ Base <= last
      /\ Base \in Nat /\ Overlap \in Nat
  BY BoundAssumption DEF BootInv, BootTypeOK, TypeOK, LoopOK
<1>2. \A l \in Starts : /\ History[l].block \in Nat
                        /\ Known(l) => Known(l)'
  BY <1>1, LogType, ScanKnows DEF Starts, Known
<1>3. WindowFrom = last + 1 - Overlap
  BY <1>1 DEF WindowFrom, NearPeers
<1>7. \A b \in DOMAIN bids' \ DOMAIN bids : b[1] \in DOMAIN chals'
  <2>1. CASE StoreBid
    <3>1. DOMAIN bids' = DOMAIN bids \cup {BidId(pend)} /\ chals' = chals
      BY <2>1 DEF StoreBid, Upsert
    <3>2. BidId(pend)[1] \in DOMAIN chals
      BY <1>1, <2>1 DEF StoreBid, BidId, TypeOK, PendOK
    <3> QED
      BY <3>1, <3>2
  <2>2. CASE ~StoreBid
    <3>1. bids' = bids
      BY <2>2 DEF Scan, StartTick, StartTickLied, FetchBlock, SkipBlock, Handle,
           StartedAgain, StartedBackfill, StartedNew, StartedUnread,
           StartedFresh, HandlerFails, BidSkip, BidCount, Count, StoreBidFails,
           Commit, tables
    <3> QED
      BY <3>1
  <2> QED
    BY <2>1, <2>2
<1>8. last' = last => OrphanInv'
  <2> SUFFICES ASSUME last' = last, NEW b \in DOMAIN bids',
                      b[1] \notin DOMAIN chals'
               PROVE  \E l \in Starts : /\ History[l].chal = b[1]
                                        /\ History[l].block + Overlap > last
    BY DEF OrphanInv
  <2>1. b \in DOMAIN bids
    BY <1>7
  <2>2. b[1] \notin DOMAIN chals
    BY <1>1, ScanKnows
  <2> QED
    BY <2>1, <2>2 DEF BootInv, OrphanInv
<1>4. CASE StartTick
  <2>1. /\ last' = last /\ target' = tip /\ todo' = FetchedLogs
        /\ chals' = chals
    BY <1>4 DEF StartTick, tables
  <2>2. WindowFrom' = WindowFrom
    BY <2>1 DEF WindowFrom
  <2>3. Window'
    BY <2>1, <2>2 DEF Window, FetchedLogs, Starts
  <2> QED
    BY <1>1, <1>2, <1>8, <2>1, <2>3 DEF BootInv, OldKnown
<1>5. CASE UNCHANGED loop /\
           \A l \in Starts : l \in todo => l \in todo' \/ Known(l)'
  <2>1. last' = last /\ target' = target /\ phase' = phase
    BY <1>5 DEF loop
  <2>2. WindowFrom' = WindowFrom
    BY <2>1 DEF WindowFrom
  <2>3. Window'
    BY <1>2, <1>5, <2>1, <2>2 DEF BootInv, Window
  <2> QED
    BY <1>1, <1>2, <1>8, <2>1, <2>3 DEF BootInv, OldKnown
<1>6. CASE Commit
  <2>1. /\ phase = "scan" /\ todo = {} /\ phase' = "idle"
        /\ last' = target \/ last' = last
        /\ chals' = chals /\ bids' = bids
    BY <1>6 DEF Commit, tables
  <2>2. ASSUME marked, NEW l \in Starts, History[l].block + Overlap <= target
        PROVE  Known(l)
    <3>1. CASE History[l].block + Overlap <= last
      BY <2>2, <3>1 DEF BootInv, OldKnown
    <3>2. CASE ~(History[l].block + Overlap <= last)
      <4>1. History[l].block \in WindowFrom .. target
        BY <1>1, <1>2, <1>3, <2>2, <3>2
      <4> QED
        BY <2>1, <4>1 DEF BootInv, Window
    <3> QED
      BY <3>1, <3>2
  <2>3. \A l \in Starts : Known(l)' <=> Known(l)
    BY <2>1 DEF Known
  <2>4. marked' => OldKnown'
    BY <2>1, <2>2, <2>3 DEF BootInv, OldKnown
  <2>5. ASSUME last' = target, NEW b \in DOMAIN bids, b[1] \notin DOMAIN chals
        PROVE  \E l \in Starts : /\ History[l].chal = b[1]
                                 /\ History[l].block + Overlap > target
    <3>1. PICK l \in Starts : /\ History[l].chal = b[1]
                              /\ History[l].block + Overlap > last
      BY <2>5 DEF BootInv, OrphanInv
    <3>2. ~Known(l)
      BY <2>5, <3>1 DEF Known
    <3>3. ~(History[l].block \in WindowFrom .. target)
      BY <2>1, <3>1, <3>2 DEF BootInv, Window
    <3>4. History[l].block > target
      BY <1>1, <1>2, <1>3, <3>1, <3>3
    <3> QED
      BY <1>1, <1>2, <3>1, <3>4
  <2>6. OrphanInv'
    BY <1>8, <2>1, <2>5 DEF OrphanInv
  <2> QED
    BY <1>1, <2>1, <2>4, <2>6 DEF Window
<1> QED
  BY <1>1, <1>4, <1>5, <1>6, ScanKnows

\* What a step of the bootstrap does: the list it fetches reaches the window,
\* and its first write makes the list's challenges known.
LEMMA BootStepInv ==
  ASSUME NearPeers, BootInv, Boot
  PROVE  /\ Window' /\ ListReaches' /\ (marked' => OldKnown')
         /\ OrphanInv'
<1>1. /\ TypeOK /\ phase = "idle" /\ last \in Nat /\ tip \in Nat
      /\ last <= tip /\ Overlap \in Nat /\ PeerLag \in Nat
      /\ PeerLag <= Overlap /\ MaxBlock \in Nat
  <2>1. TypeOK /\ stage # "run"
    BY DEF BootInv, BootTypeOK, Boot, AlreadySeeded, StartSeed, FetchChallenges,
           FetchChallengesFails, FetchBids, StoreChals, StoreSeedBids, Mark
  <2> QED
    BY <2>1, BoundAssumption, PeerAssumption
    DEF BootInv, BootTypeOK, TypeOK, LoopOK, NearPeers
<1>2. last' = last /\ phase' = phase
  BY DEF Boot, AlreadySeeded, StartSeed, FetchChallenges, FetchChallengesFails,
         FetchBids, StoreChals, StoreSeedBids, Mark, Reads, loop
<1>3. Window'
  BY <1>1, <1>2 DEF Window
<1>7. OrphanInv'
  <2> SUFFICES ASSUME NEW b \in DOMAIN bids', b[1] \notin DOMAIN chals'
               PROVE  \E l \in Starts : /\ History[l].chal = b[1]
                                        /\ History[l].block + Overlap > last
    BY <1>2 DEF OrphanInv
  <2>1. DOMAIN chals \subseteq DOMAIN chals'
    BY DEF Boot, AlreadySeeded, StartSeed, FetchChallenges,
           FetchChallengesFails, FetchBids, StoreChals, StoreSeedBids, Mark,
           Reads, tables, BulkUpsert
  <2>2. CASE b \in DOMAIN bids
    BY <2>1, <2>2 DEF BootInv, OrphanInv
  <2>3. CASE b \notin DOMAIN bids
    <3>1. StoreSeedBids /\ bids' = BulkUpsert(bids, SeedBids) /\ chals' = chals
      BY <2>3 DEF Boot, AlreadySeeded, StartSeed, FetchChallenges,
           FetchChallengesFails, FetchBids, StoreChals, StoreSeedBids, Mark,
           Reads, tables
    <3>2. b \in DOMAIN SeedBids
      BY <2>3, <3>1 DEF BulkUpsert
    <3>3. bidsAt \in Heights /\ b \in DOMAIN PeerBids[bidsAt]
      <4>1. bidsAt # None
        BY <3>2 DEF SeedBids
      <4> QED
        BY <3>2, <4>1 DEF SeedBids, Converted, BootInv, BootTypeOK
    <3>4. b[1] \in DOMAIN PeerChals[bidsAt]
      BY <3>3, PeerAssumption
    <3>5. PICK l \in Starts : History[l].chal = b[1]
      BY <3>3, <3>4, PeerAssumption DEF Starts
    <3>6. ~Known(l)
      BY <2>3, <3>1, <3>5 DEF Known
    <3>7. OldKnown
      BY <3>1 DEF StoreSeedBids, BootInv, ListReaches
    <3>8. ~(History[l].block + Overlap <= last)
      BY <3>6, <3>7 DEF OldKnown
    <3>9. History[l].block \in Nat
      BY LogType DEF Starts
    <3> QED
      BY <1>1, <3>5, <3>8, <3>9
  <2> QED
    BY <2>2, <2>3
<1>4. CASE chals' = chals /\ ~FetchChallenges /\ ~StoreChals
  <2>1. OldKnown' <=> OldKnown
    BY <1>2, <1>4 DEF OldKnown, Known
  <2>2. CASE AlreadySeeded \/ StartSeed \/ FetchChallengesFails
    BY <2>1, <2>2, <1>7, <1>3
    DEF BootInv, ListReaches, AlreadySeeded, StartSeed, FetchChallengesFails,
        Reads
  <2>3. CASE FetchBids
    BY <2>1, <2>3, <1>7, <1>2, <1>3 DEF BootInv, ListReaches, FetchBids, Reads
  <2>4. CASE StoreSeedBids
    BY <2>1, <2>4, <1>7, <1>3 DEF BootInv, ListReaches, StoreSeedBids, Return
  <2>5. CASE Mark
    BY <2>1, <2>5, <1>7, <1>3 DEF BootInv, ListReaches, Mark, Return
  <2> QED
    BY <1>4, <2>2, <2>3, <2>4, <2>5 DEF Boot
<1>5. CASE FetchChallenges
  <2>1. PICK h \in Heights : chalsAt' = h /\ tip - PeerLag <= h
    BY <1>5 DEF FetchChallenges, AnswerHeights
  <2>2. stage' = "bids" /\ marked' = marked /\ chals' = chals
    BY <1>5 DEF FetchChallenges, Reads, tables
  <2>3. h \in Nat
    BY <1>1 DEF Heights
  <2>4. h + Overlap >= last
    BY <1>1, <2>1, <2>3
  <2>5. marked' => OldKnown'
    BY <1>2, <2>2 DEF BootInv, OldKnown, Known
  <2> QED
    BY <1>2, <1>3, <1>7, <2>1, <2>2, <2>4, <2>5 DEF ListReaches
<1>6. CASE StoreChals
  <2>1. marked' = marked /\ chalsAt \in Heights
    BY <1>6 DEF StoreChals, BootInv, BootTypeOK
  <2>2. CASE chals' = chals /\ stage' = "run"
    <3>1. marked' => OldKnown'
      BY <1>2, <2>1, <2>2 DEF BootInv, OldKnown, Known
    <3> QED
      BY <1>3, <1>7, <2>1, <2>2, <3>1 DEF ListReaches
  <2>3. CASE chals' = BulkUpsert(chals, PeerChals[chalsAt])
             /\ stage' = "storeBids"
    <3>1. ASSUME NEW l \in Starts, History[l].block + Overlap <= last
          PROVE  Known(l)'
      <4>1. chalsAt + Overlap >= last
        BY <1>6 DEF BootInv, ListReaches, StoreChals
      <4>2. History[l].block <= chalsAt
        BY <1>1, <2>1, <3>1, <4>1, LogType DEF Starts, Heights
      <4>3. History[l].chal \in DOMAIN PeerChals[chalsAt]
        BY <2>1, <4>2, PeerAssumption DEF Starts
      <4> QED
        BY <2>3, <4>3 DEF BulkUpsert, Known
    <3>2. OldKnown'
      BY <1>2, <3>1 DEF OldKnown
    <3> QED
      BY <1>3, <1>7, <2>1, <2>3, <3>2 DEF ListReaches
  <2> QED
    BY <1>6, <2>2, <2>3 DEF StoreChals, Return
<1>8. CASE AlreadySeeded \/ StartSeed \/ FetchChallengesFails \/ FetchBids
             \/ StoreSeedBids \/ Mark
  <2>1. chals' = chals
    BY <1>8 DEF AlreadySeeded, StartSeed, FetchChallengesFails, FetchBids,
                StoreSeedBids, Mark, Reads, tables
  <2> QED
    BY <1>4, <1>5, <1>6, <2>1
<1> QED
  BY <1>5, <1>6, <1>8 DEF Boot

LEMMA BootInvStep ==
  ASSUME NearPeers, StartsHandled
  PROVE  BootInv /\ [BootNext]_allVars => BootInv'
<1> SUFFICES ASSUME BootInv, [BootNext]_allVars PROVE BootInv'
  OBVIOUS
<1>1. BootTypeOK'
  BY BootTypeStep DEF BootInv
<1>2. CASE Boot
  <2>1. last' = last
    BY <1>2 DEF Boot, AlreadySeeded, StartSeed, FetchChallenges, FetchChallengesFails,
                FetchBids, StoreChals, StoreSeedBids, Mark, Reads, loop
  <2> QED
    BY <1>1, <1>2, <2>1, BootStepInv DEF BootInv
<1>3. CASE Tick
  <2>1. stage = "run" /\ Scan /\ marked' = marked /\ stage' = stage
    BY <1>3 DEF Tick, boot
  <2>2. ListReaches'
    BY <2>1 DEF ListReaches
  <2> QED
    BY <1>1, <2>1, <2>2, ScanInv DEF BootInv
<1>4. CASE StopOutsideTick \/ StopInTick
  <2>1. /\ chals' = chals /\ bids' = bids /\ last' = last
        /\ marked' = marked /\ phase' = "idle" /\ stage' = "start"
    BY <1>4 DEF StopOutsideTick, StopInTick, Restart, Reads, tables, loop
  <2> QED
    BY <1>1, <2>1 DEF BootInv, Window, ListReaches, OldKnown, Known, OrphanInv
<1>5. CASE \/ stage = "run" /\ Idle /\ UNCHANGED <<boot, blanked>>
           \/ Mine /\ UNCHANGED <<boot, blanked>>
           \/ UNCHANGED allVars
  <2>1. /\ chals' = chals /\ bids' = bids /\ last' = last /\ phase' = phase
        /\ target' = target /\ todo' = todo /\ UNCHANGED boot
    BY <1>5 DEF Idle, Mine, allVars, vars, tables
  <2>2. WindowFrom' = WindowFrom
    BY <2>1 DEF WindowFrom
  <2> QED
    BY <1>1, <2>1, <2>2
    DEF BootInv, Window, ListReaches, OldKnown, Known, OrphanInv, boot
<1> QED
  BY <1>2, <1>3, <1>4, <1>5 DEF BootNext

\* With peers no further behind than the overlap, and scans that handle what
\* they fetch, the marker means that the history is complete: wherever the
\* bootstrap is cut or fails, however often it starts again.
THEOREM SeedComplete ==
  ASSUME NearPeers, StartsHandled
  PROVE  BootSpec => []AnnouncedKnown
<1>1. BootInv => AnnouncedKnown
  BY DEF BootInv, OldKnown, AnnouncedKnown, Starts, Known
<1> QED
  BY <1>1, BootInvInit, BootInvStep, PTL DEF BootSpec

\* Under the same assumptions, no bid is left without its challenge: the
\* challenges are written first, and what their list lacks is in the windows
\* of the ticks to come, however much further the list of bids reaches.
THEOREM OrphansAreAwaited ==
  ASSUME NearPeers, StartsHandled
  PROVE  BootSpec => []OrphansAwaited
<1>1. BootInv => OrphansAwaited
  BY DEF BootInv, OrphanInv, OrphansAwaited, Starts
<1> QED
  BY <1>1, BootInvInit, BootInvStep, PTL DEF BootSpec
=============================================================================
