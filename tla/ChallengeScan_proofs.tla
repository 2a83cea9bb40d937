------------------------ MODULE ChallengeScan_proofs ------------------------
(***************************************************************************)
(* What ChallengeScan guarantees for every history of the hub and every    *)
(* value of the bounds.                                                    *)
(***************************************************************************)
EXTENDS ChallengeScan, FiniteSetTheorems, TLAPS

\* An upsert adds its key, gives it the row, and leaves the other rows alone.
LEMMA UpsertFacts ==
  ASSUME NEW table, NEW id, NEW row
  PROVE  /\ DOMAIN Upsert(table, id, row) = DOMAIN table \cup {id}
         /\ Upsert(table, id, row)[id] = row
         /\ \A k \in DOMAIN table :
              k # id => Upsert(table, id, row)[k] = table[k]
BY DEF Upsert

\* An upsert of a typed row in a typed table is a typed table.
LEMMA UpsertType ==
  ASSUME NEW table, NEW id, NEW row, NEW K, NEW V,
         DOMAIN table \subseteq K, table \in [DOMAIN table -> V],
         id \in K, row \in V
  PROVE  /\ DOMAIN Upsert(table, id, row) \subseteq K
         /\ Upsert(table, id, row)
              \in [DOMAIN Upsert(table, id, row) -> V]
BY DEF Upsert

\* What the assumptions on the hub say of one log.
LEMMA LogType ==
  ASSUME NEW l \in Logs
  PROVE  /\ l \in Nat /\ l # 0
         /\ History[l].kind \in Kinds
         /\ History[l].chal \in Challenges
         /\ History[l].size \in Nat /\ History[l].acq \in Nat
         /\ History[l].block \in Nat
         /\ History[l].tx \in Nat /\ History[l].idx \in Nat
         /\ l \in BidLogs <=> History[l].kind # "Started"
BY HistoryAssumption DEF Event, BidLogs

\* The rows the handlers write are rows.
LEMMA FreshRowType ==
  ASSUME NEW l \in Logs, NEW ok \in BOOLEAN
  PROVE  FreshRow(l, ok) \in Row
BY LogType DEF FreshRow, Row

LEMMA BackfilledRowType ==
  ASSUME NEW l \in Logs, NEW row \in Row
  PROVE  BackfilledRow(l, row) \in Row
BY LogType DEF BackfilledRow, Row

LEMMA CountedRowType ==
  ASSUME NEW l \in Logs, NEW row \in Row
  PROVE  CountedRow(l, row) \in Row
<1>1. StatusAfter(l, row) \in {"Active", "Averted", "Success"}
  BY DEF StatusAfter, FinalStatusName, Row
<1> QED
  BY <1>1, LogType DEF CountedRow, Row
-----------------------------------------------------------------------------
\* The budget only shrinks.
LEMMA SpendType ==
  ASSUME NEW call, faultsLeft \in Nat, Spend(call)
  PROVE  faultsLeft' \in Nat /\ call \in Faults
BY DEF Spend

LEMMA SpendBothType ==
  ASSUME NEW a, NEW b, faultsLeft \in Nat, SpendBoth(a, b)
  PROVE  faultsLeft' \in Nat
BY DEF SpendBoth

\* A handler leaves the loop's variables typed.
LEMMA HandledLoop ==
  ASSUME NEW l \in Logs, LoopOK, Handled(l), phase = "scan", faultsLeft' \in Nat
  PROVE  LoopOK' /\ phase' = "scan"
BY DEF LoopOK, Handled, loop

\* Upserting a row of an existing or new challenge keeps the tables typed.
LEMMA ChalUpsert ==
  ASSUME NEW c \in Challenges, NEW row \in Row, TablesOK,
         chals' = Upsert(chals, c, row), bids' = bids
  PROVE  /\ TablesOK'
         /\ DOMAIN chals' = DOMAIN chals \cup {c}
         /\ chals'[c] = row
         /\ \A d \in DOMAIN chals : d # c => chals'[d] = chals[d]
<1>1. DOMAIN chals' \subseteq Challenges /\ chals' \in [DOMAIN chals' -> Row]
  BY UpsertType DEF TablesOK
<1>2. /\ DOMAIN chals' = DOMAIN chals \cup {c}
      /\ chals'[c] = row
      /\ \A d \in DOMAIN chals : d # c => chals'[d] = chals[d]
  BY DEF Upsert
<1> QED
  BY <1>1, <1>2 DEF TablesOK

\* The bid row a counted log gets, and where it goes.
LEMMA BidRowType ==
  ASSUME TablesOK, PendOK, pend # 0
  PROVE  /\ pend \in Logs
         /\ BidRow(pend) \in Bid
         /\ BidRow(pend).key = Key(pend)
         /\ BidId(pend) \in Challenges \X Nat
         /\ BidId(pend)[1] = History[pend].chal
         /\ BidId(pend)[2] = chals[History[pend].chal].bids - 1
<1> DEFINE c == History[pend].chal
<1>1. pend \in Logs /\ c \in DOMAIN chals /\ chals[c].bids > 0
  BY DEF PendOK, BidLogs
<1>2. chals[c] \in Row
  BY <1>1 DEF TablesOK
<1>3. BidRow(pend) \in Bid /\ BidRow(pend).key = Key(pend)
  <2>1. Key(pend) \in Nat \X Nat
    BY <1>1, LogType DEF Key
  <2>2. chals[c].complete \in BOOLEAN /\ chals[c].size \in Nat
    BY <1>2 DEF Row
  <2> QED
    BY <1>1, <2>1, <2>2, LogType DEF BidRow, Bid
<1>4. chals[c].bids - 1 \in Nat
  BY <1>1, <1>2 DEF Row
<1> QED
  BY <1>1, <1>3, <1>4, LogType DEF BidId
-----------------------------------------------------------------------------
\* While no log is between its two writes, PendOK says nothing.
LEMMA NoPend ==
  ASSUME pend' = 0
  PROVE  PendOK'
BY DEF PendOK

LEMMA TypeInit == Init => TypeOK
<1> SUFFICES ASSUME Init PROVE TypeOK
  OBVIOUS
<1>1. DOMAIN chals = {} /\ DOMAIN bids = {}
  BY DEF Init
<1>2. chals \in [{} -> Row] /\ bids \in [{} -> Bid]
  BY DEF Init
<1>3. TablesOK
  BY <1>1, <1>2 DEF TablesOK
<1>4. LoopOK
  BY BoundAssumption DEF Init, LoopOK
<1> QED
  BY <1>3, <1>4 DEF Init, TypeOK, PendOK

\* A handler of a Started log writes at most a typed row.
LEMMA StartedType ==
  ASSUME TypeOK, NEW l \in Logs,
         \/ StartedAgain(l) \/ StartedBackfill(l) \/ StartedNew(l)
         \/ StartedUnread(l)
  PROVE  TypeOK'
<1> DEFINE c == History[l].chal
<1>1. phase = "scan" /\ pend = 0 /\ pend' = 0 /\ Handled(l) /\ bids' = bids
  BY DEF StartedAgain, StartedBackfill, StartedNew, StartedUnread,
         StartedFresh, Current, tables
<1>2. faultsLeft' \in Nat
  BY SpendType, SpendBothType
  DEF TypeOK, LoopOK, StartedAgain, StartedBackfill, StartedNew, StartedUnread,
      StartedFresh
<1>3. LoopOK'
  BY <1>1, <1>2, HandledLoop DEF TypeOK
<1>4. chals' = chals \/ \E row \in Row : chals' = Upsert(chals, c, row)
  <2>1. c \in DOMAIN chals => chals[c] \in Row
    BY DEF TypeOK, TablesOK
  <2> QED
    BY <2>1, FreshRowType, BackfilledRowType
    DEF StartedAgain, StartedBackfill, StartedNew, StartedUnread, StartedFresh,
        tables
<1>5. TablesOK'
  <2>1. CASE chals' = chals
    BY <2>1, <1>1 DEF TypeOK, TablesOK
  <2>2. CASE \E row \in Row : chals' = Upsert(chals, c, row)
    BY <2>2, <1>1, LogType, ChalUpsert DEF TypeOK
  <2> QED
    BY <1>4, <2>1, <2>2
<1> QED
  BY <1>1, <1>3, <1>5, NoPend DEF TypeOK

\* The first write of a bid log: a typed row with a Bids counter above 0.
LEMMA CountType ==
  ASSUME TypeOK, NEW l \in BidLogs, History[l].chal \in DOMAIN chals,
         phase = "scan", Count(l), faultsLeft' \in Nat
  PROVE  TypeOK'
<1> DEFINE c == History[l].chal
<1>1. l \in Logs /\ l # 0 /\ c \in Challenges /\ chals[c] \in Row
  BY LogType DEF BidLogs, TypeOK, TablesOK
<1>2. /\ chals' = Upsert(chals, c, CountedRow(l, chals[c]))
      /\ pend' = l /\ Handled(l) /\ bids' = bids
  BY DEF Count
<1>3. LoopOK' /\ phase' = "scan"
  BY <1>1, <1>2, HandledLoop DEF TypeOK
<1>4. CountedRow(l, chals[c]) \in Row
  BY <1>1, CountedRowType
<1>5. TablesOK' /\ c \in DOMAIN chals' /\ chals'[c] = CountedRow(l, chals[c])
  BY <1>1, <1>2, <1>4, ChalUpsert DEF TypeOK
<1>6. CountedRow(l, chals[c]).bids > 0
  BY <1>1 DEF CountedRow, Row
<1>7. PendOK'
  BY <1>2, <1>3, <1>5, <1>6 DEF PendOK
<1> QED
  BY <1>3, <1>5, <1>7 DEF TypeOK

\* The second write: a typed bid row under a typed id.
LEMMA StoreBidType ==
  ASSUME TypeOK, StoreBid
  PROVE  TypeOK'
<1>1. /\ pend # 0 /\ pend' = 0 /\ chals' = chals
      /\ bids' = Upsert(bids, BidId(pend), BidRow(pend))
  BY DEF StoreBid
<1>2. BidId(pend) \in Challenges \X Nat /\ BidRow(pend) \in Bid
  BY <1>1, BidRowType DEF TypeOK
<1>3. TablesOK'
  BY <1>1, <1>2 DEF TypeOK, TablesOK, Upsert
<1>4. LoopOK'
  BY DEF TypeOK, LoopOK, StoreBid, loop
<1> QED
  BY <1>1, <1>3, <1>4, NoPend DEF TypeOK

\* Steps that leave the tables alone and end with no log in flight.
LEMMA LoopType ==
  ASSUME TypeOK,
         \/ StartTick \/ StartTickLied \/ FetchBlock \/ SkipBlock
         \/ StoreBidFails \/ Commit \/ Restart
  PROVE  TypeOK'
<1>1. tables' = tables
  BY DEF StartTick, StartTickLied, FetchBlock, SkipBlock, StoreBidFails,
         Commit, Restart, tables
<1>2. TablesOK'
  BY <1>1 DEF tables, TypeOK, TablesOK
<1>3. pend' = 0
  BY DEF StartTick, StartTickLied, FetchBlock, SkipBlock, StoreBidFails,
         Commit, Restart, NextGroup, TypeOK, PendOK
<1>4. faultsLeft' \in Nat
  BY SpendType
  DEF StartTick, StartTickLied, FetchBlock, SkipBlock, StoreBidFails,
      Commit, Restart, TypeOK, LoopOK
<1>5. LoopOK'
  <2>1. CASE StartTick \/ StartTickLied
    BY <2>1, <1>4 DEF StartTick, StartTickLied, FetchedLogs, TypeOK, LoopOK,
                     tables
  <2>2. CASE FetchBlock
    BY <2>2, LogType DEF FetchBlock, TypeOK, LoopOK, loop
  <2>3. CASE SkipBlock
    BY <2>3, <1>4 DEF SkipBlock, NextGroup, TypeOK, LoopOK, loop
  <2>4. CASE StoreBidFails
    BY <2>4, <1>4 DEF StoreBidFails, TypeOK, LoopOK, loop
  <2>5. CASE Commit
    BY <2>5, <1>4 DEF Commit, TypeOK, LoopOK, tables
  <2>6. CASE Restart
    BY <2>6, <1>4 DEF Restart, TypeOK, LoopOK, tables
  <2> QED
    BY <2>1, <2>2, <2>3, <2>4, <2>5, <2>6
<1> QED
  BY <1>2, <1>3, <1>5, NoPend DEF TypeOK

\* Every step keeps the types.
LEMMA TypeStep == TypeOK /\ [Next]_vars => TypeOK'
<1> SUFFICES ASSUME TypeOK, [Next]_vars PROVE TypeOK'
  OBVIOUS
<1>1. CASE Mine
  BY <1>1 DEF Mine, tables, TypeOK, TablesOK, LoopOK, PendOK
<1>2. ASSUME NEW l \in Logs, Handle(l) PROVE TypeOK'
  <2>1. CASE \/ StartedAgain(l) \/ StartedBackfill(l) \/ StartedNew(l)
             \/ StartedUnread(l)
    BY <2>1, StartedType
  <2>2. CASE HandlerFails(l) \/ BidSkip(l)
    <3>1. tables' = tables /\ pend' = 0 /\ phase = "scan" /\ Handled(l)
      BY <2>2 DEF HandlerFails, BidSkip, Current, tables
    <3>2. faultsLeft' \in Nat
      BY <2>2, SpendType DEF HandlerFails, BidSkip, TypeOK, LoopOK
    <3>3. LoopOK'
      BY <3>1, <3>2, HandledLoop DEF TypeOK
    <3> QED
      BY <3>1, <3>3, NoPend DEF tables, TypeOK, TablesOK
  <2>3. CASE BidCount(l)
    <3>1. /\ l \in BidLogs /\ History[l].chal \in DOMAIN chals
          /\ phase = "scan" /\ Count(l)
      BY <2>3 DEF BidCount, Current
    <3>2. faultsLeft' \in Nat
      BY <2>3, SpendType DEF BidCount, TypeOK, LoopOK
    <3> QED
      BY <3>1, <3>2, CountType
  <2> QED
    BY <1>2, <2>1, <2>2, <2>3 DEF Handle
<1>3. CASE StoreBid
  BY <1>3, StoreBidType
<1>4. CASE \/ StartTick \/ StartTickLied \/ FetchBlock \/ SkipBlock
           \/ StoreBidFails \/ Commit \/ Restart
  BY <1>4, LoopType
<1>5. CASE UNCHANGED vars
  BY <1>5 DEF vars, TypeOK, TablesOK, LoopOK, PendOK
<1> QED
  BY <1>1, <1>2, <1>3, <1>4, <1>5 DEF Next, Scan, Idle

\* Type correctness, whatever calls fail.
THEOREM TypeCorrect == Spec => []TypeOK
BY TypeInit, TypeStep, PTL DEF Spec
-----------------------------------------------------------------------------
\* The two SELECTs whose errors the handlers drop do not fail.
SoundReads == Faults \cap {"GetChallenge", "BidExistsByLog"} = {}

\* No Started handler takes the row for missing then.
LEMMA StartedReads ==
  ASSUME SoundReads PROVE \A l : ~StartedUnread(l)
BY DEF SoundReads, StartedUnread, StartedFresh, Spend, SpendBoth

(* Neither OneBidPerLog nor BidRowsKept is inductive alone: that the next  *)
(* bid id is new follows from BidNumbersBelowCount, and that the backfill  *)
(* of a row keeps its size follows from RowsOpened.                        *)
IInv == TypeOK /\ OneBidPerLog /\ BidNumbersBelowCount /\ RowsOpened

LEMMA IInit == Init => IInv
<1> SUFFICES ASSUME Init PROVE IInv
  OBVIOUS
<1>1. DOMAIN chals = {} /\ DOMAIN bids = {} /\ pend = 0
  BY DEF Init
<1> QED
  BY <1>1, TypeInit DEF IInv, OneBidPerLog, BidNumbersBelowCount, RowsOpened

\* What a step other than the two writes of a bid does to a challenge row.
RowKept(c) ==
  /\ c \in DOMAIN chals'
  /\ chals'[c].size = chals[c].size /\ chals'[c].filled = chals[c].filled
  /\ chals'[c].bids = chals[c].bids /\ chals'[c].acq = chals[c].acq
  /\ chals'[c].status = chals[c].status
  /\ chals[c].complete => chals'[c].complete

\* A Started handler keeps the rows there are, and opens at most its own.
LEMMA StartedKeeps ==
  ASSUME SoundReads, IInv, NEW l \in Logs,
         StartedAgain(l) \/ StartedBackfill(l) \/ StartedNew(l)
  PROVE  /\ \A c \in DOMAIN chals : RowKept(c)
         /\ bids' = bids /\ pend = 0 /\ pend' = 0
         /\ l \in Logs \ BidLogs
         /\ \/ DOMAIN chals' = DOMAIN chals
            \/ /\ History[l].chal \notin DOMAIN chals
               /\ DOMAIN chals' = DOMAIN chals \cup {History[l].chal}
               /\ \E ok \in BOOLEAN :
                    chals'[History[l].chal] = FreshRow(l, ok)
<1> DEFINE c == History[l].chal
<1>1. ~Spend("GetChallenge")
  BY DEF Spend, SoundReads
<1>2. /\ bids' = bids /\ pend = 0 /\ pend' = 0
      /\ l \in Logs \ BidLogs
  BY LogType DEF StartedAgain, StartedBackfill, StartedNew, StartedFresh,
                 Current, tables
<1>3. CASE chals' = chals
  BY <1>2, <1>3 DEF RowKept
<1>4. CASE /\ c \in DOMAIN chals
           /\ chals' = Upsert(chals, c, BackfilledRow(l, chals[c]))
  <2>1. DOMAIN chals' = DOMAIN chals
    BY <1>4 DEF Upsert
  <2>2. chals'[c] = BackfilledRow(l, chals[c])
    BY <1>4 DEF Upsert
  <2>3. \A d \in DOMAIN chals : d # c => chals'[d] = chals[d]
    BY <1>4 DEF Upsert
  <2>4. chals[c].size = History[l].size
    BY <1>2, <1>4, HubAssumption DEF IInv, RowsOpened
  <2>5. RowKept(c)
    <3>1. /\ chals'[c].size = History[l].size
          /\ chals'[c].filled = chals[c].filled
          /\ chals'[c].bids = chals[c].bids
          /\ chals'[c].acq = chals[c].acq
          /\ chals'[c].status = chals[c].status
          /\ chals'[c].complete = TRUE
      <4> HIDE DEF c
      <4> QED
        BY <2>2 DEF BackfilledRow
    <3> HIDE DEF c
    <3> QED
      BY <1>4, <2>1, <2>4, <3>1 DEF RowKept
  <2>6. \A d \in DOMAIN chals : RowKept(d)
    BY <2>1, <2>3, <2>5 DEF RowKept
  <2> QED
    BY <1>2, <2>1, <2>6
<1>5. CASE /\ c \notin DOMAIN chals
           /\ \E ok \in BOOLEAN : chals' = Upsert(chals, c, FreshRow(l, ok))
  <2>1. PICK ok \in BOOLEAN : chals' = Upsert(chals, c, FreshRow(l, ok))
    BY <1>5
  <2>2. /\ DOMAIN chals' = DOMAIN chals \cup {c}
        /\ chals'[c] = FreshRow(l, ok)
        /\ \A d \in DOMAIN chals : d # c => chals'[d] = chals[d]
    BY <2>1 DEF Upsert
  <2>3. \A d \in DOMAIN chals : RowKept(d)
    BY <1>5, <2>2 DEF RowKept
  <2> QED
    BY <1>2, <1>5, <2>2, <2>3
<1> QED
  BY <1>1, <1>3, <1>4, <1>5
  DEF StartedAgain, StartedBackfill, StartedNew, StartedFresh, tables

\* The first write: the challenge row advances by the log, a log unseen yet.
LEMMA CountSteps ==
  ASSUME SoundReads, IInv, NEW l \in Logs, BidCount(l)
  PROVE  LET c == History[l].chal
         IN  /\ c \in DOMAIN chals /\ l \in BidLogs
             /\ pend = 0 /\ pend' = l /\ bids' = bids /\ ~Seen(l)
             /\ DOMAIN chals' = DOMAIN chals
             /\ chals'[c] = CountedRow(l, chals[c])
             /\ \A d \in DOMAIN chals : d # c => chals'[d] = chals[d]
<1>1. BidCount(l) /\ Count(l) /\ ~Seen(l)
  BY DEF BidCount, Spend, SoundReads
<1>2. /\ History[l].chal \in DOMAIN chals /\ l \in BidLogs
      /\ pend = 0 /\ pend' = l /\ bids' = bids /\ ~Seen(l)
  BY <1>1 DEF BidCount, Current, Count
<1> QED
  BY <1>1, <1>2 DEF Count, Upsert

\* The second write: the bid gets a new id, every other row stays.
LEMMA StoreSteps ==
  ASSUME IInv, StoreBid
  PROVE  /\ pend # 0 /\ pend \in BidLogs /\ pend' = 0 /\ chals' = chals
         /\ BidId(pend) \notin DOMAIN bids
         /\ DOMAIN bids' = DOMAIN bids \cup {BidId(pend)}
         /\ bids'[BidId(pend)].key = Key(pend)
         /\ \A b \in DOMAIN bids : bids'[b] = bids[b]
<1>1. /\ pend # 0 /\ pend' = 0 /\ chals' = chals
      /\ bids' = Upsert(bids, BidId(pend), BidRow(pend))
  BY DEF StoreBid
<1>2. BidId(pend) \notin DOMAIN bids
  <2>1. BidId(pend)[1] = History[pend].chal
    BY <1>1, BidRowType DEF IInv, TypeOK
  <2>2. BidId(pend)[2] = chals[History[pend].chal].bids - 1
    BY <1>1, BidRowType DEF IInv, TypeOK
  <2>3. BidId(pend)[2] \in Nat
    BY <1>1, BidRowType DEF IInv, TypeOK
  <2> QED
    BY <1>1, <2>1, <2>2, <2>3 DEF IInv, BidNumbersBelowCount
<1>3. BidRow(pend).key = Key(pend)
  BY <1>1, BidRowType DEF IInv, TypeOK
<1> QED
  BY <1>1, <1>2, <1>3 DEF Upsert, IInv, TypeOK, PendOK

\* Steps that write nothing: the loop's own, and handlers that return early.
LEMMA QuietSteps ==
  ASSUME TypeOK,
         \/ Mine \/ StartTick \/ StartTickLied \/ FetchBlock \/ SkipBlock
         \/ StoreBidFails \/ Commit \/ Restart \/ UNCHANGED vars
         \/ \E l \in Logs : HandlerFails(l) \/ BidSkip(l)
  PROVE  /\ chals' = chals /\ bids' = bids
         /\ pend' = pend \/ pend' = 0
         /\ \/ pend' = pend
            \/ StoreBidFails
            \/ Restart
BY DEF Mine, StartTick, StartTickLied, FetchBlock, SkipBlock, StoreBidFails,
       Commit, Restart, HandlerFails, BidSkip, Current, NextGroup, TypeOK,
       PendOK, tables, vars

\* The four kinds of steps the lemmas above describe are all there are.
LEMMA StepKinds ==
  ASSUME SoundReads, [Next]_vars
  PROVE  \/ \E l \in Logs : \/ StartedAgain(l) \/ StartedBackfill(l)
                            \/ StartedNew(l)
         \/ \E l \in Logs : BidCount(l)
         \/ StoreBid
         \/ \/ Mine \/ StartTick \/ StartTickLied \/ FetchBlock \/ SkipBlock
            \/ StoreBidFails \/ Commit \/ Restart \/ UNCHANGED vars
            \/ \E l \in Logs : HandlerFails(l) \/ BidSkip(l)
BY StartedReads DEF Next, Scan, Handle, Idle

LEMMA IStep == ASSUME SoundReads PROVE IInv /\ [Next]_vars => IInv'
<1> SUFFICES ASSUME IInv, [Next]_vars PROVE IInv'
  OBVIOUS
<1>1. TypeOK /\ TypeOK'
  BY TypeStep DEF IInv
<1>2. ASSUME NEW l \in Logs,
             StartedAgain(l) \/ StartedBackfill(l) \/ StartedNew(l)
      PROVE  IInv'
  <2>1. /\ \A c \in DOMAIN chals : RowKept(c)
        /\ bids' = bids /\ pend' = 0
        /\ l \in Logs \ BidLogs
        /\ \/ DOMAIN chals' = DOMAIN chals
           \/ /\ DOMAIN chals' = DOMAIN chals \cup {History[l].chal}
              /\ \E ok \in BOOLEAN :
                   chals'[History[l].chal] = FreshRow(l, ok)
    BY <1>2, StartedKeeps
  <2>2. OneBidPerLog'
    BY <2>1 DEF IInv, OneBidPerLog
  <2>3. BidNumbersBelowCount'
    BY <2>1 DEF IInv, BidNumbersBelowCount, RowKept
  <2>4. RowsOpened'
    <3> SUFFICES ASSUME NEW c \in DOMAIN chals'
                 PROVE  \E m \in Logs \ BidLogs :
                          /\ History[m].chal = c
                          /\ History[m].size = chals'[c].size
      BY DEF RowsOpened
    <3>1. CASE c \in DOMAIN chals
      <4>1. PICK m \in Logs \ BidLogs : /\ History[m].chal = c
                                        /\ History[m].size = chals[c].size
        BY <3>1 DEF IInv, RowsOpened
      <4> QED
        BY <2>1, <3>1, <4>1 DEF RowKept
    <3>2. CASE c \notin DOMAIN chals
      <4>1. c = History[l].chal /\ \E ok \in BOOLEAN : chals'[c] = FreshRow(l, ok)
        BY <2>1, <3>2
      <4>2. chals'[c].size = History[l].size
        BY <4>1 DEF FreshRow
      <4> QED
        BY <2>1, <4>1, <4>2
    <3> QED
      BY <3>1, <3>2
  <2> QED
    BY <1>1, <2>2, <2>3, <2>4 DEF IInv
<1>3. ASSUME NEW l \in Logs, BidCount(l)
      PROVE  IInv'
  <2> DEFINE c == History[l].chal
  <2>1. /\ c \in DOMAIN chals /\ l \in BidLogs
        /\ pend = 0 /\ pend' = l /\ bids' = bids /\ ~Seen(l)
        /\ DOMAIN chals' = DOMAIN chals
        /\ chals'[c] = CountedRow(l, chals[c])
        /\ \A d \in DOMAIN chals : d # c => chals'[d] = chals[d]
    BY <1>3, CountSteps
  <2>2. /\ chals'[c].size = chals[c].size
        /\ chals'[c].bids = chals[c].bids + 1
        /\ chals[c].bids \in Nat
    BY <2>1, <1>1 DEF CountedRow, TypeOK, TablesOK, Row
  <2>3. OneBidPerLog'
    BY <2>1 DEF IInv, OneBidPerLog, Seen
  <2>4. BidNumbersBelowCount'
    <3> SUFFICES ASSUME NEW b \in DOMAIN bids
                 PROVE  /\ b[1] \in DOMAIN chals'
                        /\ b[2] < chals'[b[1]].bids
                        /\ History[l].chal = b[1]
                              => b[2] < chals'[b[1]].bids - 1
      BY <2>1 DEF BidNumbersBelowCount
    <3>1. b[1] \in DOMAIN chals /\ b[2] < chals[b[1]].bids /\ b[2] \in Nat
      BY <1>1 DEF IInv, BidNumbersBelowCount, TypeOK, TablesOK
    <3> QED
      BY <2>1, <2>2, <3>1
  <2>5. RowsOpened'
    BY <2>1, <2>2 DEF IInv, RowsOpened
  <2> QED
    BY <1>1, <2>3, <2>4, <2>5 DEF IInv
<1>4. CASE StoreBid
  <2>1. /\ pend # 0 /\ pend \in BidLogs /\ pend' = 0 /\ chals' = chals
        /\ BidId(pend) \notin DOMAIN bids
        /\ DOMAIN bids' = DOMAIN bids \cup {BidId(pend)}
        /\ bids'[BidId(pend)].key = Key(pend)
        /\ \A b \in DOMAIN bids : bids'[b] = bids[b]
    BY <1>4, StoreSteps
  <2>2. OneBidPerLog'
    <3>1. \A b \in DOMAIN bids : bids[b].key # Key(pend)
      BY <2>1 DEF IInv, OneBidPerLog, Seen
    <3>2. ASSUME NEW b \in DOMAIN bids', NEW d \in DOMAIN bids',
                 bids'[b].key = bids'[d].key
          PROVE  b = d
      BY <2>1, <3>1, <3>2 DEF IInv, OneBidPerLog
    <3> QED
      BY <2>1, <3>2 DEF OneBidPerLog
  <2>3. BidNumbersBelowCount'
    <3>1. /\ BidId(pend)[1] = History[pend].chal
          /\ BidId(pend)[2] = chals[History[pend].chal].bids - 1
          /\ History[pend].chal \in DOMAIN chals
          /\ chals[History[pend].chal].bids \in Nat
      BY <1>1, <2>1, BidRowType DEF TypeOK, PendOK, TablesOK, Row
    <3> QED
      BY <2>1, <3>1 DEF IInv, BidNumbersBelowCount
  <2>4. RowsOpened'
    BY <2>1 DEF IInv, RowsOpened
  <2> QED
    BY <1>1, <2>2, <2>3, <2>4 DEF IInv
<1>5. CASE \/ Mine \/ StartTick \/ StartTickLied \/ FetchBlock \/ SkipBlock
           \/ StoreBidFails \/ Commit \/ Restart \/ UNCHANGED vars
           \/ \E l \in Logs : HandlerFails(l) \/ BidSkip(l)
  <2>1. chals' = chals /\ bids' = bids /\ (pend' = pend \/ pend' = 0)
    BY <1>1, <1>5, QuietSteps
  <2> QED
    BY <1>1, <2>1
    DEF IInv, OneBidPerLog, BidNumbersBelowCount, RowsOpened, Seen
<1> QED
  BY <1>2, <1>3, <1>4, <1>5, StepKinds

\* With sound reads, whatever else fails and wherever the process ends, the
\* bids table never holds one log twice.
THEOREM BidsUnique ==
  ASSUME SoundReads PROVE Spec => []OneBidPerLog
<1>1. Init => IInv
  BY IInit
<1>2. IInv /\ [Next]_vars => IInv'
  BY IStep
<1>3. IInv => OneBidPerLog
  BY DEF IInv
<1> QED
  BY <1>1, <1>2, <1>3, PTL DEF Spec

\* With sound reads, every stored bid id is below its challenge's counter.
THEOREM BidNumbersSound ==
  ASSUME SoundReads PROVE Spec => [](BidNumbersBelowCount /\ RowsOpened)
<1>1. Init => IInv
  BY IInit
<1>2. IInv /\ [Next]_vars => IInv'
  BY IStep
<1>3. IInv => BidNumbersBelowCount /\ RowsOpened
  BY DEF IInv
<1> QED
  BY <1>1, <1>2, <1>3, PTL DEF Spec
-----------------------------------------------------------------------------
\* With sound reads, no step rewrites or drops a stored bid: the id a bid
\* gets is always a new one, also after a crash between the two writes.
THEOREM BidsKept == ASSUME SoundReads PROVE Spec => BidRowsKept
<1>1. IInv /\ [Next]_vars => [BidRowKept]_vars
  <2> SUFFICES ASSUME IInv, [Next]_vars PROVE BidRowKept
    OBVIOUS
  <2>1. CASE bids' = bids
    BY <2>1 DEF BidRowKept
  <2>2. CASE StoreBid
    BY <2>2, StoreSteps DEF BidRowKept
  <2> QED
    BY <2>1, <2>2, StepKinds, StartedKeeps, CountSteps, QuietSteps DEF IInv
<1>2. Init => IInv
  BY IInit
<1>3. IInv /\ [Next]_vars => IInv'
  BY IStep
<1> QED
  BY <1>1, <1>2, <1>3, PTL DEF Spec, BidRowsKept

\* With sound reads, no step takes back what bids added to a challenge.
THEOREM ProgressNeverLost == ASSUME SoundReads PROVE Spec => ProgressKept
<1>1. IInv /\ [Next]_vars => [Progress]_vars
  <2> SUFFICES ASSUME IInv, [Next]_vars, NEW c \in DOMAIN chals
               PROVE  /\ c \in DOMAIN chals'
                      /\ chals'[c].size = chals[c].size
                      /\ chals'[c].bids >= chals[c].bids
                      /\ chals'[c].filled >= chals[c].filled
                      /\ chals'[c].acq >= chals[c].acq
                      /\ chals[c].complete => chals'[c].complete
                      /\ chals[c].status # "Active"
                           => chals'[c].status # "Active"
    BY DEF Progress
  <2>1. /\ chals[c].bids \in Nat /\ chals[c].filled \in Nat
        /\ chals[c].acq \in Nat /\ chals[c] \in Row
    BY DEF IInv, TypeOK, TablesOK, Row
  <2>2. CASE RowKept(c)
    BY <2>1, <2>2 DEF RowKept
  <2>3. CASE chals'[c] = chals[c] /\ DOMAIN chals' = DOMAIN chals
    BY <2>1, <2>3
  <2>4. ASSUME NEW l \in Logs, BidCount(l),
               History[l].chal = c
        PROVE  /\ DOMAIN chals' = DOMAIN chals
               /\ chals'[c].size = chals[c].size
               /\ chals'[c].bids >= chals[c].bids
               /\ chals'[c].filled >= chals[c].filled
               /\ chals'[c].acq >= chals[c].acq
               /\ chals'[c].complete = chals[c].complete
               /\ chals[c].status # "Active" => chals'[c].status # "Active"
    <3>1. /\ DOMAIN chals' = DOMAIN chals
          /\ chals'[c] = CountedRow(l, chals[c])
      BY <2>4, CountSteps
    <3>2. History[l].size \in Nat /\ History[l].acq \in Nat
      BY LogType
    <3>3. chals'[c].status = StatusAfter(l, chals[c])
      BY <3>1 DEF CountedRow
    <3>4. chals[c].status # "Active" => chals'[c].status # "Active"
      BY <3>3 DEF StatusAfter, FinalStatusName
    <3> QED
      BY <2>1, <3>1, <3>2, <3>4 DEF CountedRow
  <2>5. \/ RowKept(c)
        \/ chals'[c] = chals[c] /\ DOMAIN chals' = DOMAIN chals
        \/ \E l \in Logs : /\ BidCount(l)
                           /\ History[l].chal = c
    BY StepKinds, StartedKeeps, CountSteps, QuietSteps, StoreSteps DEF IInv
  <2> QED
    BY <2>2, <2>3, <2>4, <2>5
<1>2. Init => IInv
  BY IInit
<1>3. IInv /\ [Next]_vars => IInv'
  BY IStep
<1> QED
  BY <1>1, <1>2, <1>3, PTL DEF Spec, ProgressKept
-----------------------------------------------------------------------------
\* With sound reads, and no crash or failure between the two writes of a bid.
WritesComplete ==
  /\ SoundReads
  /\ Faults \cap {"UpsertBid", "kill"} = {}

LEMMA BookInit == Init => Book!Init
<1> SUFFICES ASSUME Init PROVE BookOf = << >> /\ Applied = {}
  BY DEF Book!Init
<1>1. DOMAIN chals = {} /\ DOMAIN bids = {} /\ pend = 0
  BY DEF Init
<1>2. BookOf = [c \in {} |-> BookRow(chals[c])]
  BY <1>1 DEF BookOf
<1>3. Applied = {}
  <2>1. \A l \in BidLogs : l # 0
    BY LogType DEF BidLogs
  <2> QED
    BY <1>1, <2>1 DEF Applied, Seen
<1> QED
  BY <1>2, <1>3

\* Rows that keep their totals are the same rows of the book.
LEMMA BookRowsKept ==
  ASSUME NEW c \in DOMAIN chals, RowKept(c)
  PROVE  BookRow(chals'[c]) = BookRow(chals[c])
BY DEF RowKept, BookRow

\* A step applies one bid log, unapplied so far, or applies none and at most
\* opens a challenge.
LEMMA AppliedSteps ==
  ASSUME WritesComplete, IInv, [Next]_vars
  PROVE  \/ /\ Applied' = Applied
            /\ \A d \in DOMAIN chals : RowKept(d)
            /\ \/ DOMAIN chals' = DOMAIN chals
               \/ \E l \in Logs \ BidLogs :
                    /\ History[l].chal \notin DOMAIN chals
                    /\ DOMAIN chals' = DOMAIN chals \cup {History[l].chal}
                    /\ \E ok \in BOOLEAN :
                         chals'[History[l].chal] = FreshRow(l, ok)
         \/ \E l \in BidLogs :
              /\ BidCount(l) /\ l \notin Applied
              /\ Applied' = Applied \cup {l}
              /\ History[l].chal \in DOMAIN chals
              /\ DOMAIN chals' = DOMAIN chals
              /\ chals'[History[l].chal] =
                   CountedRow(l, chals[History[l].chal])
              /\ \A d \in DOMAIN chals :
                   d # History[l].chal => chals'[d] = chals[d]
<1>1. TypeOK /\ SoundReads
  BY DEF IInv, WritesComplete
<1> DEFINE Quiet == /\ Applied' = Applied
                    /\ \A d \in DOMAIN chals : RowKept(d)
<1>2. ASSUME NEW l \in Logs,
             StartedAgain(l) \/ StartedBackfill(l) \/ StartedNew(l)
      PROVE  /\ Quiet
             /\ \/ DOMAIN chals' = DOMAIN chals
                \/ /\ l \in Logs \ BidLogs
                   /\ History[l].chal \notin DOMAIN chals
                   /\ DOMAIN chals' = DOMAIN chals \cup {History[l].chal}
                   /\ \E ok \in BOOLEAN :
                        chals'[History[l].chal] = FreshRow(l, ok)
  <2>1. bids' = bids /\ pend = 0 /\ pend' = 0
    BY <1>1, <1>2, StartedKeeps
  <2>2. Applied' = Applied
    BY <2>1 DEF Applied, Seen
  <2> QED
    BY <1>1, <1>2, <2>2, StartedKeeps
<1>3. ASSUME NEW l \in Logs, BidCount(l)
      PROVE  /\ l \in BidLogs /\ l \notin Applied
             /\ Applied' = Applied \cup {l}
  <2>1. /\ l \in BidLogs /\ pend = 0 /\ pend' = l /\ bids' = bids
        /\ ~Seen(l)
    BY <1>1, <1>3, CountSteps
  <2>2. l # 0
    BY LogType
  <2>3. \A m \in BidLogs : m # 0 /\ (Seen(m)' <=> Seen(m))
    BY <2>1, LogType DEF Seen, BidLogs
  <2> QED
    BY <2>1, <2>2, <2>3 DEF Applied
<1>4. ASSUME StoreBid PROVE Quiet /\ DOMAIN chals' = DOMAIN chals
  <2>1. /\ pend # 0 /\ pend \in BidLogs /\ pend' = 0 /\ chals' = chals
        /\ DOMAIN bids' = DOMAIN bids \cup {BidId(pend)}
        /\ bids'[BidId(pend)].key = Key(pend)
        /\ BidId(pend) \notin DOMAIN bids
        /\ \A b \in DOMAIN bids : bids'[b] = bids[b]
    BY <1>4, StoreSteps
  <2>2. \A l \in BidLogs : l # 0 /\ (Key(l) = Key(pend) <=> l = pend)
    BY <2>1, KeyAssumption, LogType DEF BidLogs
  <2>3. \A l \in BidLogs : Seen(l)' <=> Seen(l) \/ l = pend
    BY <2>1, <2>2 DEF Seen
  <2> QED
    BY <2>1, <2>2, <2>3 DEF Applied, RowKept
<1>5. ASSUME \/ Mine \/ StartTick \/ StartTickLied \/ FetchBlock \/ SkipBlock
             \/ StoreBidFails \/ Commit \/ Restart \/ UNCHANGED vars
             \/ \E l \in Logs : HandlerFails(l) \/ BidSkip(l)
      PROVE  Quiet /\ DOMAIN chals' = DOMAIN chals
  <2>1. ~StoreBidFails
    BY DEF StoreBidFails, Spend, WritesComplete
  <2>2. Restart => pend = 0 /\ pend' = 0
    BY DEF Restart, Spend, WritesComplete
  <2>3. chals' = chals /\ bids' = bids /\ pend' = pend
    BY <1>1, <1>5, <2>1, <2>2, QuietSteps
  <2> QED
    BY <2>3 DEF Applied, Seen, RowKept
<1>6. CASE \E l \in Logs : \/ StartedAgain(l) \/ StartedBackfill(l)
                           \/ StartedNew(l)
  BY <1>2, <1>6
<1>7. CASE \E l \in Logs : BidCount(l)
  <2>1. PICK l \in Logs : BidCount(l)
    BY <1>7
  <2>2. /\ l \in BidLogs /\ l \notin Applied
        /\ Applied' = Applied \cup {l}
    BY <1>3, <2>1
  <2> QED
    BY <1>1, <2>1, <2>2, CountSteps
<1> QED
  BY <1>1, <1>4, <1>5, <1>6, <1>7, StepKinds

\* Every step is a step of the book: the first write of a bid applies its
\* log, the second stutters, the first Started log opens the challenge.
LEMMA BookStep ==
  ASSUME WritesComplete
  PROVE  IInv /\ [Next]_vars => [Book!Next]_(Book!bookVars)
<1> SUFFICES ASSUME IInv, [Next]_vars
             PROVE  Book!Next \/ (BookOf' = BookOf /\ Applied' = Applied)
  BY DEF Book!bookVars
<1>1. CASE /\ Applied' = Applied
           /\ \A d \in DOMAIN chals : RowKept(d)
           /\ DOMAIN chals' = DOMAIN chals
  BY <1>1, BookRowsKept DEF BookOf
<1>2. ASSUME /\ Applied' = Applied
             /\ \A d \in DOMAIN chals : RowKept(d),
             NEW l \in Logs \ BidLogs,
             /\ History[l].chal \notin DOMAIN chals
             /\ DOMAIN chals' = DOMAIN chals \cup {History[l].chal},
             NEW ok \in BOOLEAN, chals'[History[l].chal] = FreshRow(l, ok)
      PROVE  Book!Next
  <2> DEFINE c == History[l].chal
  <2>1. \A d \in DOMAIN chals : BookRow(chals'[d]) = BookRow(chals[d])
    BY <1>2, BookRowsKept
  <2>2. BookRow(chals'[c]) = [size |-> History[l].size, filled |-> 0,
                              acq |-> 0, status |-> "Active"]
    BY <1>2 DEF BookRow, FreshRow
  <2>3. BookOf' = [d \in DOMAIN BookOf \cup {c} |->
                     IF d = c THEN [size |-> History[l].size, filled |-> 0,
                                    acq |-> 0, status |-> "Active"]
                              ELSE BookOf[d]]
    BY <1>2, <2>1, <2>2 DEF BookOf
  <2>4. History[l].kind = "Started" /\ c \notin DOMAIN BookOf
    BY <1>2, LogType DEF BookOf
  <2>5. Book!Open(l)
    BY <1>2, <2>3, <2>4 DEF Book!Open
  <2> QED
    BY <2>5 DEF Book!Next, Logs
<1>3. ASSUME NEW l \in BidLogs,
             /\ l \notin Applied /\ Applied' = Applied \cup {l}
             /\ History[l].chal \in DOMAIN chals
             /\ DOMAIN chals' = DOMAIN chals
             /\ chals'[History[l].chal] = CountedRow(l, chals[History[l].chal])
             /\ \A d \in DOMAIN chals :
                  d # History[l].chal => chals'[d] = chals[d]
      PROVE  Book!Next
  <2> DEFINE c == History[l].chal
             old == chals[c]
  <2>1. l \in Logs /\ History[l].kind \in {"Averted", "Succeeded"}
    BY LogType DEF Kinds, BidLogs
  <2>2. History[l].kind \in DOMAIN Book!Finals
        /\ Book!Finals[History[l].kind] = FinalStatusName(History[l].kind)
    BY <2>1 DEF Book!Finals, FinalStatusName
  <2>3. c \in DOMAIN BookOf /\ BookOf[c] = BookRow(old)
    BY <1>3 DEF BookOf
  <2>4. BookRow(chals'[c]) =
          [size   |-> BookOf[c].size,
           filled |-> BookOf[c].filled + History[l].size,
           acq    |-> BookOf[c].acq + History[l].acq,
           status |-> IF BookOf[c].filled + History[l].size >= BookOf[c].size
                        THEN Book!Finals[History[l].kind]
                        ELSE BookOf[c].status]
    BY <1>3, <2>2, <2>3 DEF BookRow, CountedRow, StatusAfter
  <2>5. BookOf' = [BookOf EXCEPT ![c] =
          [size   |-> @.size,
           filled |-> @.filled + History[l].size,
           acq    |-> @.acq + History[l].acq,
           status |-> IF @.filled + History[l].size >= @.size
                        THEN Book!Finals[History[l].kind] ELSE @.status]]
    BY <1>3, <2>3, <2>4 DEF BookOf
  <2>6. Book!Apply(l)
    BY <1>3, <2>2, <2>3, <2>5 DEF Book!Apply
  <2> QED
    BY <2>1, <2>6 DEF Book!Next, Logs
<1> QED
  BY <1>1, <1>2, <1>3, AppliedSteps

\* With complete writes, the tables implement the book: every log of the hub
\* is applied at most once, however the windows overlap, whatever a racer
\* hides and wherever the process stops between two handlers.
THEOREM BookImplemented == ASSUME WritesComplete PROVE Spec => ImplementsBook
<1>1. Init => Book!Init
  BY BookInit
<1>2. IInv /\ [Next]_vars => [Book!Next]_(Book!bookVars)
  BY BookStep
<1>3. Init => IInv
  BY IInit
<1>4. IInv /\ [Next]_vars => IInv'
  BY IStep DEF WritesComplete
<1> QED
  BY <1>1, <1>2, <1>3, <1>4, PTL DEF Spec, ImplementsBook, Book!Spec
-----------------------------------------------------------------------------
(* NoLogLeftBehind is an argument about a budget: a tick that commits      *)
(* without having recorded a log of its window has spent a failure on it,  *)
(* and moves last_block by at most MaxLag.  It needs an overlap as long as *)
(* all the failures together can delay, a first window that leaves out no  *)
(* new log, logs that are newer than the seed, and a hub that starts a     *)
(* challenge before it takes bids on it.                                   *)
OverlapCovers ==
  /\ MaxLag * MaxFaults <= Overlap /\ Overlap <= Base + 1
  /\ \A l \in Logs : History[l].block > Base
  /\ \A l \in BidLogs :
       \E s \in Logs \ BidLogs :
         History[s].chal = History[l].chal /\ Before(s, l)

\* The log has left in the tables what a rescan looks up.
Recorded(l) ==
  IF l \in BidLogs THEN Seen(l) ELSE History[l].chal \in DOMAIN chals

\* The blocks the failures so far can have delayed a log by.
Slack == MaxLag * (MaxFaults - faultsLeft)

\* The loop is never more than MaxLag behind, and handles the blocks of a
\* window in ascending order.
WindowInv ==
  /\ faultsLeft <= MaxFaults /\ Base <= last /\ tip <= last + MaxLag
  /\ \A m \in todo : cur <= History[m].block

\* A log that is not recorded is owed to the failures so far, or will be
\* handled before the tick commits.
Debt ==
  \A l \in Logs : ~Recorded(l) =>
    /\ last < History[l].block + Slack
    /\ phase = "scan" => \/ l \in todo \/ l = pend
                         \/ target < History[l].block + Slack

LeftInv == IInv /\ WindowInv /\ Debt

\* A failure pays for one more lag; every other step leaves the slack alone.
LEMMA SlackFacts ==
  ASSUME TypeOK, WindowInv
  PROVE  /\ Slack \in Nat /\ Slack <= MaxLag * MaxFaults
         /\ \A call : Spend(call) => /\ Slack' = Slack + MaxLag
                                     /\ faultsLeft' <= MaxFaults
         /\ faultsLeft' = faultsLeft => Slack' = Slack
<1> DEFINE spent == MaxFaults - faultsLeft
<1>1. /\ MaxLag \in Nat /\ MaxFaults \in Nat /\ faultsLeft \in Nat
      /\ faultsLeft <= MaxFaults
  BY BoundAssumption DEF TypeOK, LoopOK, WindowInv
<1>2. spent \in Nat /\ spent <= MaxFaults
  BY <1>1
<1>3. MaxLag * spent \in Nat /\ MaxLag * spent <= MaxLag * MaxFaults
  <2> HIDE DEF spent
  <2>1. \A a, b, k \in Nat : a <= b => k * a \in Nat /\ k * a <= k * b
    OBVIOUS
  <2> QED
    BY <1>1, <1>2, <2>1
<1>4. \A a, b \in Int : a * (b + 1) = a * b + a
  OBVIOUS
<1>5. ASSUME NEW call, Spend(call)
      PROVE  Slack' = Slack + MaxLag /\ faultsLeft' <= MaxFaults
  <2>1. faultsLeft' = faultsLeft - 1
    BY <1>5 DEF Spend
  <2>2. MaxFaults - faultsLeft' = spent + 1 /\ faultsLeft' <= MaxFaults
    BY <1>1, <2>1
  <2> HIDE DEF spent
  <2>3. MaxLag * (spent + 1) = MaxLag * spent + MaxLag
    BY <1>1, <1>2, <1>4
  <2> QED
    BY <2>2, <2>3 DEF Slack, spent
<1> QED
  BY <1>3, <1>5 DEF Slack

\* What is recorded stays recorded: no step drops a challenge or a bid.
LEMMA RecordedKept ==
  ASSUME SoundReads, IInv, [Next]_vars, NEW l \in Logs, Recorded(l)
  PROVE  Recorded(l)'
<1>1. bids' = bids \/ StoreBid
  BY StepKinds, StartedKeeps, CountSteps, QuietSteps DEF IInv
<1>2. \A b \in DOMAIN bids : b \in DOMAIN bids' /\ bids'[b] = bids[b]
  BY <1>1, StoreSteps
<1>3. DOMAIN chals \subseteq DOMAIN chals'
  BY StepKinds, StartedKeeps, CountSteps, QuietSteps, StoreSteps DEF IInv
<1> QED
  BY <1>2, <1>3 DEF Recorded, Seen

\* A Started handler records its log, failed hydration or not.
LEMMA StartedRecords ==
  ASSUME SoundReads, NEW l \in Logs,
         StartedAgain(l) \/ StartedBackfill(l) \/ StartedNew(l)
  PROVE  Recorded(l)'
<1> DEFINE c == History[l].chal
<1>1. l \notin BidLogs
  BY DEF BidLogs, StartedAgain, StartedBackfill, StartedNew, StartedFresh
<1>2. \A row : c \in DOMAIN Upsert(chals, c, row)
  BY DEF Upsert
<1>3. c \in DOMAIN chals'
  BY <1>2 DEF StartedAgain, StartedBackfill, StartedNew, StartedFresh, tables,
                Spend, SoundReads
<1> QED
  BY <1>1, <1>3 DEF Recorded

\* A bid skipped without a row is on a challenge the hub started earlier:
\* that log is not recorded and not ahead in this tick, so that the failures
\* owe it, and the bid no less.
LEMMA UnknownOwed ==
  ASSUME LeftInv, OverlapCovers, NEW l \in BidLogs, Current(l),
         History[l].chal \notin DOMAIN chals
  PROVE  target < History[l].block + Slack
<1>1. PICK s \in Logs \ BidLogs :
        History[s].chal = History[l].chal /\ Before(s, l)
  BY DEF OverlapCovers
<1>2. /\ History[s].block \in Nat /\ History[l].block \in Nat
      /\ History[s].idx \in Nat /\ History[l].idx \in Nat
      /\ cur \in Nat /\ target \in Nat /\ Slack \in Nat
  BY LogType, SlackFacts DEF LeftInv, IInv, TypeOK, LoopOK, BidLogs
<1>3. History[s].block <= History[l].block
  BY <1>1, <1>2 DEF Before
<1>4. s \notin todo
  <2> SUFFICES ASSUME s \in todo PROVE FALSE
    OBVIOUS
  <2>1. History[l].block = cur /\ cur <= History[s].block
    BY DEF Current, LeftInv, WindowInv
  <2>2. History[s].block = cur
    BY <1>2, <1>3, <2>1
  <2>3. History[s].idx < History[l].idx
    BY <1>1, <1>2, <2>1, <2>2 DEF Before
  <2>4. s # l
    BY <1>1
  <2>5. History[l].idx < History[s].idx
    BY <2>2, <2>4 DEF Current
  <2> QED
    BY <1>2, <2>3, <2>5
<1>5. s # pend /\ ~Recorded(s) /\ phase = "scan"
  BY <1>1, LogType DEF Current, Recorded
<1>6. target < History[s].block + Slack
  BY <1>1, <1>4, <1>5 DEF LeftInv, Debt
<1> QED
  BY <1>2, <1>3, <1>6

\* Within a tick: a log that leaves the tick's hands is recorded, or paid for
\* by a failure, or was owed already.
LEMMA DebtKept ==
  ASSUME SoundReads, LeftInv, [Next]_vars, TypeOK',
         phase = "scan", last' = last, target' = target,
         Slack' \in {Slack, Slack + MaxLag},
         \A l \in Logs : l \in todo \/ l = pend =>
           \/ l \in todo' \/ l = pend' \/ Recorded(l)'
           \/ Slack' = Slack + MaxLag
           \/ target < History[l].block + Slack
  PROVE  Debt'
<1> SUFFICES ASSUME NEW l \in Logs, ~Recorded(l)'
             PROVE  /\ last' < History[l].block + Slack'
                    /\ \/ l \in todo' \/ l = pend'
                       \/ target' < History[l].block + Slack'
  BY DEF Debt
<1>1. ~Recorded(l)
  BY RecordedKept DEF LeftInv
<1>2. /\ last < History[l].block + Slack
      /\ \/ l \in todo \/ l = pend
         \/ target < History[l].block + Slack
  BY <1>1 DEF LeftInv, Debt
<1>3. /\ last \in Nat /\ target \in Nat /\ tip \in Nat
      /\ target <= tip /\ tip <= last + MaxLag
      /\ Slack \in Nat /\ MaxLag \in Nat /\ History[l].block \in Nat
  BY LogType, SlackFacts, BoundAssumption
  DEF LeftInv, IInv, TypeOK, LoopOK, WindowInv
<1>4. last' < History[l].block + Slack'
  BY <1>2, <1>3
<1>5. CASE target < History[l].block + Slack
  BY <1>3, <1>4, <1>5
<1>6. CASE Slack' = Slack + MaxLag
  BY <1>2, <1>3, <1>4, <1>6
<1> QED
  BY <1>2, <1>4, <1>5, <1>6

\* A handler looks at one log, the current one; all it can leave behind is
\* that one.
LEMMA HandlerDebt ==
  ASSUME SoundReads, LeftInv, OverlapCovers, [Next]_vars, TypeOK',
         NEW l \in Logs, Handle(l)
  PROVE  WindowInv' /\ Debt'
<1>1. /\ Current(l) /\ Handled(l) /\ phase = "scan" /\ pend = 0
      /\ pend' \in {0, l}
  BY StartedReads
  DEF Handle, StartedAgain, StartedBackfill, StartedNew, StartedFresh,
      HandlerFails, BidSkip, BidCount, Count, Current
<1>2. /\ todo' = todo \ {l} /\ UNCHANGED <<last, tip, phase, target, cur>>
  BY <1>1 DEF Handled, loop
<1>3. faultsLeft' = faultsLeft \/ \E call : Spend(call)
  BY StartedReads
  DEF Handle, StartedAgain, StartedBackfill, StartedNew, StartedFresh,
      HandlerFails, BidSkip, BidCount
<1>4. faultsLeft' <= MaxFaults /\ Slack' \in {Slack, Slack + MaxLag}
  BY <1>3, SlackFacts DEF LeftInv, IInv, WindowInv
<1>5. WindowInv'
  BY <1>2, <1>4 DEF LeftInv, WindowInv
<1>6. \/ l = pend' \/ Recorded(l)'
      \/ Slack' = Slack + MaxLag
      \/ target < History[l].block + Slack
  <2>1. CASE StartedAgain(l) \/ StartedBackfill(l) \/ StartedNew(l)
    BY <2>1, StartedRecords
  <2>2. CASE HandlerFails(l)
    BY <2>2, SlackFacts DEF HandlerFails, LeftInv, IInv
  <2>3. CASE BidSkip(l) /\ Seen(l)
    BY <2>3, RecordedKept DEF Recorded, LeftInv, BidSkip
  <2>4. CASE BidSkip(l) /\ ~Seen(l)
    BY <2>4, UnknownOwed DEF BidSkip
  <2>5. CASE BidCount(l)
    BY <2>5 DEF BidCount, Count
  <2> QED
    BY <2>1, <2>2, <2>3, <2>4, <2>5, StartedReads DEF Handle
<1>7. \A m \in Logs : m \in todo \/ m = pend =>
        \/ m \in todo' \/ m = pend' \/ Recorded(m)'
        \/ Slack' = Slack + MaxLag
        \/ target < History[m].block + Slack
  BY <1>1, <1>2, <1>6, LogType
<1>8. Debt'
  BY <1>1, <1>2, <1>4, <1>7, DebtKept
<1> QED
  BY <1>5, <1>8

\* A tick starts: what is not recorded is in its window, or ahead of the
\* tick's last block, or hidden by a racer at the price of a failure.
LEMMA StartDebt ==
  ASSUME LeftInv, OverlapCovers, TypeOK', StartTick \/ StartTickLied
  PROVE  WindowInv' /\ Debt'
<1>1. /\ chals' = chals /\ bids' = bids /\ last' = last /\ tip' = tip
      /\ target' = tip /\ phase' = "scan"
  BY DEF StartTick, StartTickLied, tables
<1>2. \/ StartTick /\ faultsLeft' = faultsLeft /\ Slack' = Slack
      \/ /\ StartTickLied /\ Slack' = Slack + MaxLag
         /\ faultsLeft' <= MaxFaults
  BY SlackFacts DEF StartTick, StartTickLied, LeftInv, IInv
<1>3. WindowInv'
  <2>1. \A m \in todo' : cur' <= History[m].block
    BY LogType DEF StartTick, StartTickLied, FetchedLogs
  <2> QED
    BY <1>1, <1>2, <2>1 DEF LeftInv, WindowInv
<1>4. ASSUME NEW l \in Logs, ~Recorded(l)'
      PROVE  /\ last' < History[l].block + Slack'
             /\ l \in todo' \/ target' < History[l].block + Slack'
  <2>1. ~Recorded(l)
    BY <1>1, <1>4 DEF Recorded, Seen
  <2>2. last < History[l].block + Slack
    BY <2>1 DEF LeftInv, Debt
  <2>3. /\ last \in Nat /\ tip \in Nat /\ tip <= last + MaxLag
        /\ Base <= last /\ Base \in Nat /\ History[l].block \in Nat
        /\ Slack \in Nat /\ MaxLag \in Nat /\ Overlap \in Nat
        /\ Slack <= MaxLag * MaxFaults
    BY LogType, SlackFacts, BoundAssumption
    DEF LeftInv, IInv, TypeOK, LoopOK, WindowInv
  <2>4. /\ Slack <= Overlap /\ Overlap <= Base + 1
        /\ Base < History[l].block
    <3>1. MaxLag * MaxFaults \in Nat
      BY BoundAssumption
    <3> QED
      BY <2>3, <3>1 DEF OverlapCovers
  <2>5. CASE Slack' = Slack + MaxLag
    BY <1>1, <2>2, <2>3, <2>5
  <2>6. CASE StartTick /\ Slack' = Slack
    <3>1. WindowFrom <= History[l].block
      BY <2>2, <2>3, <2>4 DEF WindowFrom
    <3>2. WindowFrom \in Int
      BY <2>3 DEF WindowFrom
    <3>3. History[l].block <= tip => l \in todo'
      BY <2>3, <2>6, <3>1, <3>2 DEF StartTick, FetchedLogs
    <3> QED
      BY <1>1, <2>2, <2>3, <2>6, <3>3
  <2> QED
    BY <1>2, <2>5, <2>6
<1> QED
  BY <1>3, <1>4 DEF Debt

\* The scan's own steps within a tick.
LEMMA ScanDebt ==
  ASSUME SoundReads, LeftInv, [Next]_vars, TypeOK',
         FetchBlock \/ SkipBlock \/ StoreBid \/ StoreBidFails
  PROVE  WindowInv' /\ Debt'
<1>1. /\ phase = "scan" /\ UNCHANGED <<last, tip, phase, target>>
  BY DEF FetchBlock, SkipBlock, StoreBid, StoreBidFails, NextGroup, loop,
         LeftInv, IInv, TypeOK, PendOK
<1>2. faultsLeft' = faultsLeft \/ \E call : Spend(call)
  BY DEF FetchBlock, SkipBlock, StoreBid, StoreBidFails
<1>3. faultsLeft' <= MaxFaults /\ Slack' \in {Slack, Slack + MaxLag}
  BY <1>2, SlackFacts DEF LeftInv, IInv, WindowInv
<1>4. SkipBlock \/ StoreBidFails => Slack' = Slack + MaxLag
  BY SlackFacts DEF SkipBlock, StoreBidFails, LeftInv, IInv
<1>5. \A m \in todo' : cur' <= History[m].block
  BY DEF FetchBlock, SkipBlock, StoreBid, StoreBidFails, NextGroup, LeftInv,
         WindowInv
<1>6. WindowInv'
  BY <1>1, <1>3, <1>5 DEF LeftInv, WindowInv
<1>7. ASSUME StoreBid, NEW l \in Logs, l = pend
      PROVE  Recorded(l)'
  <2>1. /\ pend \in BidLogs /\ BidId(pend) \in DOMAIN bids'
        /\ bids'[BidId(pend)].key = Key(pend)
    BY <1>7, StoreSteps DEF LeftInv
  <2>2. \E b \in DOMAIN bids' : bids'[b].key = Key(l)
    BY <1>7, <2>1
  <2> QED
    BY <1>7, <2>1, <2>2 DEF Recorded, Seen
<1>8. FetchBlock => todo' = todo /\ pend' = pend
  BY DEF FetchBlock
<1>9. \A m \in Logs : m \in todo \/ m = pend =>
        \/ m \in todo' \/ m = pend' \/ Recorded(m)'
        \/ Slack' = Slack + MaxLag
        \/ target < History[m].block + Slack
  <2>1. CASE StoreBid
    BY <1>7, <2>1 DEF StoreBid
  <2>2. CASE FetchBlock
    BY <1>8, <2>2
  <2>3. CASE SkipBlock \/ StoreBidFails
    BY <1>4, <2>3
  <2> QED
    BY <2>1, <2>2, <2>3
<1>10. Debt'
  BY <1>1, <1>3, <1>9, DebtKept
<1> QED
  BY <1>6, <1>10

\* A step that leaves the tables alone and ends outside a scan: what was owed
\* by the new last_block is owed.
LEMMA EndDebt ==
  ASSUME LeftInv, TypeOK', Commit \/ Restart
  PROVE  WindowInv' /\ Debt'
<1>1. /\ chals' = chals /\ bids' = bids /\ tip' = tip /\ phase' = "idle"
      /\ phase = "scan" /\ todo' = {}
      /\ last' = last \/ (Commit /\ last' = target)
  BY DEF Commit, Restart, tables
<1>2. faultsLeft' = faultsLeft \/ \E call : Spend(call)
  BY DEF Commit, Restart
<1>3. faultsLeft' <= MaxFaults /\ Slack' \in {Slack, Slack + MaxLag}
  BY <1>2, SlackFacts DEF LeftInv, IInv, WindowInv
<1>4. /\ last \in Nat /\ tip \in Nat /\ target \in Nat /\ Base \in Nat
      /\ last <= target /\ Slack \in Nat /\ MaxLag \in Nat
  BY SlackFacts, BoundAssumption DEF LeftInv, IInv, TypeOK, LoopOK
<1>5. WindowInv'
  BY <1>1, <1>3, <1>4 DEF LeftInv, WindowInv
<1>6. ASSUME NEW l \in Logs, ~Recorded(l)'
      PROVE  last' < History[l].block + Slack'
  <2>1. ~Recorded(l)
    BY <1>1, <1>6 DEF Recorded, Seen
  <2>2. /\ last < History[l].block + Slack
        /\ l \in todo \/ l = pend \/ target < History[l].block + Slack
    BY <1>1, <2>1 DEF LeftInv, Debt
  <2>3. Commit => l \notin todo /\ l # pend
    BY LogType DEF Commit
  <2> QED
    BY <1>1, <1>3, <1>4, <2>2, <2>3, LogType
<1> QED
  BY <1>1, <1>5, <1>6 DEF Debt

LEMMA LeftInit == OverlapCovers /\ Init => LeftInv
<1> SUFFICES ASSUME OverlapCovers, Init PROVE LeftInv
  OBVIOUS
<1>1. WindowInv
  BY BoundAssumption DEF Init, WindowInv
<1>2. Slack \in Nat
  BY <1>1, TypeInit, SlackFacts
<1>3. Debt
  BY <1>2, LogType, BoundAssumption DEF Debt, Init, OverlapCovers
<1> QED
  BY <1>1, <1>3, IInit DEF LeftInv

LEMMA LeftStep ==
  ASSUME SoundReads, OverlapCovers
  PROVE  LeftInv /\ [Next]_vars => LeftInv'
<1> SUFFICES ASSUME LeftInv, [Next]_vars PROVE LeftInv'
  OBVIOUS
<1>1. IInv' /\ TypeOK'
  BY IStep DEF LeftInv, IInv
<1>2. CASE Mine
  <2>1. WindowInv'
    <3>1. /\ tip' = tip + 1 /\ tip - last < MaxLag
          /\ UNCHANGED <<last, todo, cur, faultsLeft>>
      BY <1>2 DEF Mine
    <3>2. tip \in Nat /\ last \in Nat /\ MaxLag \in Nat
      BY BoundAssumption DEF LeftInv, IInv, TypeOK, LoopOK
    <3> QED
      BY <3>1, <3>2 DEF LeftInv, WindowInv
  <2>2. Debt'
    BY <1>2 DEF Mine, LeftInv, Debt, Recorded, Seen, Slack, tables
  <2> QED
    BY <1>1, <2>1, <2>2 DEF LeftInv
<1>3. CASE StartTick \/ StartTickLied
  BY <1>1, <1>3, StartDebt DEF LeftInv
<1>4. CASE FetchBlock \/ SkipBlock \/ StoreBid \/ StoreBidFails
  BY <1>1, <1>4, ScanDebt DEF LeftInv
<1>5. CASE \E l \in Logs : Handle(l)
  BY <1>1, <1>5, HandlerDebt DEF LeftInv
<1>6. CASE Commit \/ Restart
  BY <1>1, <1>6, EndDebt DEF LeftInv
<1>7. CASE UNCHANGED vars
  BY <1>1, <1>7 DEF vars, LeftInv, WindowInv, Debt, Recorded, Seen, Slack
<1> QED
  BY <1>2, <1>3, <1>4, <1>5, <1>6, <1>7 DEF Next, Scan, Idle

\* With sound reads and an overlap that covers the failures, a bid log leaves
\* the re-scan window only once its bid row is stored, whatever a racer
\* hides, whichever call fails and wherever the process ends.
THEOREM NothingLeftBehind ==
  ASSUME SoundReads, OverlapCovers PROVE Spec => []NoLogLeftBehind
<1>1. Init => LeftInv
  BY LeftInit
<1>2. LeftInv /\ [Next]_vars => LeftInv'
  BY LeftStep
<1>3. LeftInv => NoLogLeftBehind
  <2> SUFFICES ASSUME LeftInv, NEW l \in BidLogs, ~Seen(l)
               PROVE  ~(History[l].block + Overlap <= last)
    BY DEF NoLogLeftBehind
  <2>1. l \in Logs /\ ~Recorded(l)
    BY DEF Recorded, BidLogs
  <2>2. last < History[l].block + Slack
    BY <2>1 DEF LeftInv, Debt
  <2>3. /\ Slack \in Nat /\ Slack <= MaxLag * MaxFaults
        /\ MaxLag * MaxFaults \in Nat
    BY SlackFacts, BoundAssumption DEF LeftInv, IInv
  <2>4. Slack <= Overlap
    BY <2>3, BoundAssumption DEF OverlapCovers
  <2> QED
    BY <2>1, <2>2, <2>3, <2>4, LogType, BoundAssumption
    DEF LeftInv, IInv, TypeOK, LoopOK
<1> QED
  BY <1>1, <1>2, <1>3, PTL DEF Spec
-----------------------------------------------------------------------------
(* The totals of a challenge are sums over a set of logs.  A fold takes its *)
(* elements in the order CHOOSE gives; that no order matters, and that one  *)
(* more log adds its own weight, is shown here of finite sets of any size,  *)
(* from a smallest set that would be a counterexample.                      *)

\* Among subsets of a finite set, any that has a property has a smallest.
LEMMA Smallest ==
  ASSUME NEW T, IsFiniteSet(T), NEW Bad \in SUBSET SUBSET T, Bad # {}
  PROVE  \E s \in Bad : \A r \in Bad : r \subseteq s => r = s
<1>1. IsWellFoundedOn(StrictSubsetOrdering(T), SUBSET T)
  BY FS_StrictSubsetOrderingWellFounded, FS_FiniteSubsetsOfFinite
<1>2. PICK s \in Bad : \A r \in Bad : <<r, s>> \notin StrictSubsetOrdering(T)
  BY <1>1, WFMin
<1>3. ASSUME NEW r \in Bad, r \subseteq s PROVE r = s
  BY <1>2, <1>3 DEF StrictSubsetOrdering
<1> QED
  BY <1>3

\* A total of weights over the subsets of T, whichever element is added last.
Additive(g, W, T) ==
  /\ g \in [SUBSET T -> Nat]
  /\ g[{}] = 0
  /\ \A s \in SUBSET T : \A x \in s : g[s] = W[x] + g[s \ {x}]

LEMMA AdditiveExtends ==
  ASSUME NEW T, NEW W, NEW x \in T, \A y \in T : W[y] \in Nat,
         NEW g, Additive(g, W, T \ {x})
  PROVE  \E h : Additive(h, W, T)
<1> DEFINE h == [s \in SUBSET T |->
                   IF x \in s THEN W[x] + g[s \ {x}] ELSE g[s]]
<1>1. \A s \in SUBSET T : /\ s \ {x} \in SUBSET (T \ {x})
                          /\ x \notin s => s \in SUBSET (T \ {x})
  OBVIOUS
<1>2. \A s \in SUBSET (T \ {x}) : g[s] \in Nat
  BY DEF Additive
<1>3. h \in [SUBSET T -> Nat]
  BY <1>1, <1>2
<1>4. h[{}] = 0
  BY DEF Additive
<1>5. ASSUME NEW s \in SUBSET T, NEW y \in s
      PROVE  h[s] = W[y] + h[s \ {y}]
  <2>1. CASE y = x
    BY <1>1, <2>1
  <2>2. CASE y # x /\ x \notin s
    <3>1. g[s] = W[y] + g[s \ {y}]
      BY <1>1, <2>2 DEF Additive
    <3> QED
      BY <2>2, <3>1
  <2>3. CASE y # x /\ x \in s
    <3> DEFINE r == s \ {x}
    <3>1. r \in SUBSET (T \ {x}) /\ y \in r /\ r \ {y} \in SUBSET (T \ {x})
      BY <1>1, <2>3
    <3>2. g[r] = W[y] + g[r \ {y}]
      BY <3>1 DEF Additive
    <3>3. g[r \ {y}] \in Nat /\ g[r] \in Nat
      BY <1>2, <3>1
    <3>4. (s \ {y}) \ {x} = r \ {y} /\ x \in s \ {y} /\ s \ {y} \in SUBSET T
      BY <2>3
    <3>5. h[s] = W[x] + g[r] /\ h[s \ {y}] = W[x] + g[r \ {y}]
      BY <2>3, <3>4
    <3> HIDE DEF h, r
    <3>6. W[x] \in Nat /\ W[y] \in Nat
      OBVIOUS
    <3> QED
      BY <3>2, <3>3, <3>5, <3>6
  <2> QED
    BY <2>1, <2>2, <2>3
<1> HIDE DEF h
<1>6. Additive(h, W, T)
  BY <1>3, <1>4, <1>5 DEF Additive
<1> QED
  BY <1>6

\* Weights on a finite set have a total.
LEMMA AdditiveExists ==
  ASSUME NEW T, IsFiniteSet(T), NEW W, \A x \in T : W[x] \in Nat
  PROVE  \E g : Additive(g, W, T)
<1> DEFINE Bad == {s \in SUBSET T : ~\E g : Additive(g, W, s)}
<1> SUFFICES ASSUME Bad # {} PROVE FALSE
  OBVIOUS
<1>1. PICK s \in Bad : \A r \in Bad : r \subseteq s => r = s
  <2>1. Bad \in SUBSET SUBSET T
    OBVIOUS
  <2> HIDE DEF Bad
  <2> QED
    BY <2>1, Smallest
<1>2. CASE s = {}
  <2>1. Additive([r \in {{}} |-> 0], W, {})
    BY DEF Additive
  <2> QED
    BY <1>2, <2>1
<1>3. CASE s # {}
  <2>1. PICK x \in s : TRUE
    BY <1>3
  <2>2. s \ {x} \notin Bad /\ s \ {x} \in SUBSET T
    BY <1>1, <2>1
  <2>3. PICK g : Additive(g, W, s \ {x})
    BY <2>2
  <2>4. \A y \in s : W[y] \in Nat
    OBVIOUS
  <2>5. \E h : Additive(h, W, s)
    BY <2>1, <2>3, <2>4, AdditiveExtends
  <2> QED
    BY <2>5
<1> QED
  BY <1>2, <1>3

\* The total as the fold computes it: one element at a time, in the order that
\* CHOOSE takes them.
Folded(iter, W, T) ==
  iter = [s \in SUBSET T |->
            IF s = {} THEN 0
            ELSE W[CHOOSE x \in s : TRUE] + iter[s \ {CHOOSE x \in s : TRUE}]]

\* The fold's order does not matter: it is the total.
LEMMA AdditiveUnique ==
  ASSUME NEW T, IsFiniteSet(T), NEW W, NEW g, Additive(g, W, T),
         NEW iter, Folded(iter, W, T)
  PROVE  iter = g
<1>0. /\ iter = [s \in SUBSET T |-> iter[s]]
      /\ \A s \in SUBSET T :
           iter[s] = IF s = {} THEN 0
                     ELSE W[CHOOSE x \in s : TRUE]
                            + iter[s \ {CHOOSE x \in s : TRUE}]
  <2> DEFINE F == [s \in SUBSET T |->
                     IF s = {} THEN 0
                     ELSE W[CHOOSE x \in s : TRUE]
                            + iter[s \ {CHOOSE x \in s : TRUE}]]
  <2>1. iter = F
    BY DEF Folded
  <2>2. /\ F = [s \in SUBSET T |-> F[s]]
        /\ \A s \in SUBSET T :
             F[s] = IF s = {} THEN 0
                    ELSE W[CHOOSE x \in s : TRUE]
                           + iter[s \ {CHOOSE x \in s : TRUE}]
    OBVIOUS
  <2> HIDE DEF F
  <2> QED
    BY <2>1, <2>2
<1> DEFINE Bad == {s \in SUBSET T : iter[s] # g[s]}
<1>1. ASSUME Bad # {} PROVE FALSE
  <2>1. PICK s \in Bad : \A r \in Bad : r \subseteq s => r = s
    <3>1. Bad \in SUBSET SUBSET T
      OBVIOUS
    <3> HIDE DEF Bad
    <3> QED
      BY <1>1, <3>1, Smallest
  <2>2. s # {}
    BY <1>0, <2>1 DEF Additive
  <2> DEFINE x == CHOOSE y \in s : TRUE
  <2>3. x \in s
    BY <2>2
  <2>4. iter[s] = W[x] + iter[s \ {x}]
    BY <1>0, <2>1, <2>2
  <2> HIDE DEF x
  <2>5. s \ {x} \in SUBSET T /\ s \ {x} \notin Bad
    BY <2>1, <2>3
  <2>6. iter[s \ {x}] = g[s \ {x}]
    BY <2>5
  <2>7. g[s] = W[x] + g[s \ {x}]
    BY <2>3 DEF Additive
  <2> QED
    BY <2>4, <2>6, <2>7
<1>2. \A s \in SUBSET T : iter[s] = g[s]
  BY <1>1
<1>3. g = [s \in SUBSET T |-> g[s]]
  BY DEF Additive
<1> HIDE DEF Bad
<1> QED
  BY <1>0, <1>2, <1>3

LEMMA AdditiveFolded ==
  ASSUME NEW T, NEW W, NEW g, Additive(g, W, T)
  PROVE  Folded(g, W, T)
<1> DEFINE F == [s \in SUBSET T |->
                   IF s = {} THEN 0
                   ELSE W[CHOOSE x \in s : TRUE]
                          + g[s \ {CHOOSE x \in s : TRUE}]]
<1>1. ASSUME NEW s \in SUBSET T
      PROVE  g[s] = F[s]
  <2>1. CASE s = {}
    BY <2>1 DEF Additive
  <2>2. CASE s # {}
    <3> DEFINE x == CHOOSE y \in s : TRUE
    <3>1. x \in s
      BY <2>2
    <3>2. F[s] = W[x] + g[s \ {x}]
      BY <2>2
    <3> HIDE DEF x, F
    <3> QED
      BY <3>1, <3>2 DEF Additive
  <2> QED
    BY <2>1, <2>2
<1>2. g = [s \in SUBSET T |-> g[s]] /\ F = [s \in SUBSET T |-> F[s]]
  BY DEF Additive
<1>3. g = F
  <2> HIDE DEF F
  <2> QED
    BY <1>1, <1>2
<1> QED
  BY <1>3 DEF Folded

\* A total of a set is a total of its parts.
LEMMA AdditiveRestrict ==
  ASSUME NEW U, NEW T \in SUBSET U, NEW W, NEW g, Additive(g, W, U)
  PROVE  Additive([s \in SUBSET T |-> g[s]], W, T)
<1> DEFINE h == [s \in SUBSET T |-> g[s]]
<1>1. \A s \in SUBSET T : s \in SUBSET U /\ h[s] = g[s] /\ h[s] \in Nat
  BY DEF Additive
<1>2. h \in [SUBSET T -> Nat] /\ h[{}] = 0
  BY <1>1 DEF Additive
<1>3. ASSUME NEW s \in SUBSET T, NEW y \in s
      PROVE  h[s] = W[y] + h[s \ {y}]
  <2>1. g[s] = W[y] + g[s \ {y}]
    BY <1>1 DEF Additive
  <2>2. s \ {y} \in SUBSET T
    OBVIOUS
  <2> QED
    BY <1>1, <2>1, <2>2
<1> HIDE DEF h
<1>4. Additive(h, W, T)
  BY <1>2, <1>3 DEF Additive
<1> QED
  BY <1>4 DEF h

\* Weights are not negative: a part totals no more than the whole.
LEMMA AdditiveMonotone ==
  ASSUME NEW U, IsFiniteSet(U), NEW T \in SUBSET U, NEW W,
         \A x \in U : W[x] \in Nat, NEW g, Additive(g, W, U)
  PROVE  g[T] <= g[U]
<1> DEFINE Bad == {s \in SUBSET U : T \subseteq s /\ ~(g[T] <= g[s])}
<1>1. ASSUME Bad # {} PROVE FALSE
  <2>1. PICK s \in Bad : \A r \in Bad : r \subseteq s => r = s
    <3>1. Bad \in SUBSET SUBSET U
      OBVIOUS
    <3> HIDE DEF Bad
    <3> QED
      BY <1>1, <3>1, Smallest
  <2>2. g[T] \in Nat /\ \A r \in SUBSET U : g[r] \in Nat
    BY DEF Additive
  <2>3. PICK x \in s : x \notin T
    <3>1. T \subseteq s /\ s # T
      BY <2>1, <2>2
    <3> QED
      BY <3>1
  <2>4. s \ {x} \in SUBSET U /\ T \subseteq s \ {x} /\ s \ {x} \notin Bad
    BY <2>1, <2>3
  <2>5. g[T] <= g[s \ {x}]
    BY <2>4
  <2>6. g[s] = W[x] + g[s \ {x}] /\ W[x] \in Nat
    BY <2>1, <2>3 DEF Additive
  <2> QED
    BY <2>1, <2>2, <2>4, <2>5, <2>6
<1>2. U \notin Bad
  BY <1>1
<1> QED
  BY <1>2

\* The sums of the totals, and the weights they add.
SizeSum(T) == MapThenSumSet(LAMBDA l : History[l].size, T)
AcqSum(T) == MapThenSumSet(LAMBDA l : History[l].acq, T)
Sizes == [l \in Logs |-> History[l].size]
Acqs == [l \in Logs |-> History[l].acq]

\* The fold of FiniteSetsExt over a finite set of logs is the total of their
\* sizes.
LEMMA SizeSumTotal ==
  ASSUME NEW T \in SUBSET Logs, IsFiniteSet(T), NEW g, Additive(g, Sizes, T)
  PROVE  SizeSum(T) = g[T]
<1> DEFINE Step(iter) ==
             [s \in SUBSET T |->
                IF s = {} THEN 0
                ELSE History[CHOOSE x \in s : TRUE].size
                       + iter[s \ {CHOOSE x \in s : TRUE}]]
           sum == CHOOSE iter : iter = Step(iter)
<1>1. SizeSum(T) = sum[T]
  BY DEF SizeSum, MapThenSumSet, MapThenFoldSet
<1>2. \A iter : iter = Step(iter) <=> Folded(iter, Sizes, T)
  <2> SUFFICES ASSUME NEW iter
               PROVE  iter = Step(iter) <=> Folded(iter, Sizes, T)
    OBVIOUS
  <2>1. \A s \in SUBSET T : s # {} =>
          History[CHOOSE x \in s : TRUE].size = Sizes[CHOOSE x \in s : TRUE]
    <3> SUFFICES ASSUME NEW s \in SUBSET T, s # {}
                 PROVE  History[CHOOSE x \in s : TRUE].size
                          = Sizes[CHOOSE x \in s : TRUE]
      OBVIOUS
    <3>1. (CHOOSE x \in s : TRUE) \in Logs
      OBVIOUS
    <3> QED
      BY <3>1 DEF Sizes
  <2>2. Step(iter) = [s \in SUBSET T |->
                        IF s = {} THEN 0
                        ELSE Sizes[CHOOSE x \in s : TRUE]
                               + iter[s \ {CHOOSE x \in s : TRUE}]]
    BY <2>1
  <2> HIDE DEF Step
  <2> QED
    BY <2>2 DEF Folded
<1>3. Folded(sum, Sizes, T)
  <2>1. g = Step(g)
    BY <1>2, AdditiveFolded
  <2>2. sum = Step(sum)
    <3> HIDE DEF Step
    <3> QED
      BY <2>1
  <2> HIDE DEF sum, Step
  <2> QED
    BY <1>2, <2>2
<1>4. sum = g
  BY <1>3, AdditiveUnique
<1> QED
  BY <1>1, <1>4

\* The fold of FiniteSetsExt over a finite set of logs is the total of their
\* acquired collateral.
LEMMA AcqSumTotal ==
  ASSUME NEW T \in SUBSET Logs, IsFiniteSet(T), NEW g, Additive(g, Acqs, T)
  PROVE  AcqSum(T) = g[T]
<1> DEFINE Step(iter) ==
             [s \in SUBSET T |->
                IF s = {} THEN 0
                ELSE History[CHOOSE x \in s : TRUE].acq
                       + iter[s \ {CHOOSE x \in s : TRUE}]]
           sum == CHOOSE iter : iter = Step(iter)
<1>1. AcqSum(T) = sum[T]
  BY DEF AcqSum, MapThenSumSet, MapThenFoldSet
<1>2. \A iter : iter = Step(iter) <=> Folded(iter, Acqs, T)
  <2> SUFFICES ASSUME NEW iter
               PROVE  iter = Step(iter) <=> Folded(iter, Acqs, T)
    OBVIOUS
  <2>1. \A s \in SUBSET T : s # {} =>
          History[CHOOSE x \in s : TRUE].acq = Acqs[CHOOSE x \in s : TRUE]
    <3> SUFFICES ASSUME NEW s \in SUBSET T, s # {}
                 PROVE  History[CHOOSE x \in s : TRUE].acq
                          = Acqs[CHOOSE x \in s : TRUE]
      OBVIOUS
    <3>1. (CHOOSE x \in s : TRUE) \in Logs
      OBVIOUS
    <3> QED
      BY <3>1 DEF Acqs
  <2>2. Step(iter) = [s \in SUBSET T |->
                        IF s = {} THEN 0
                        ELSE Acqs[CHOOSE x \in s : TRUE]
                               + iter[s \ {CHOOSE x \in s : TRUE}]]
    BY <2>1
  <2> HIDE DEF Step
  <2> QED
    BY <2>2 DEF Folded
<1>3. Folded(sum, Acqs, T)
  <2>1. g = Step(g)
    BY <1>2, AdditiveFolded
  <2>2. sum = Step(sum)
    <3> HIDE DEF Step
    <3> QED
      BY <2>1
  <2> HIDE DEF sum, Step
  <2> QED
    BY <1>2, <2>2
<1>4. sum = g
  BY <1>3, AdditiveUnique
<1> QED
  BY <1>1, <1>4

\* So it is for each of its parts.
LEMMA SizeSumParts ==
  ASSUME NEW U \in SUBSET Logs, IsFiniteSet(U)
  PROVE  \E g : /\ Additive(g, Sizes, U)
                /\ \A r \in SUBSET U : SizeSum(r) = g[r]
<1>1. \A l \in U : Sizes[l] \in Nat
  BY LogType DEF Sizes
<1>2. PICK g : Additive(g, Sizes, U)
  BY <1>1, AdditiveExists
<1>3. ASSUME NEW r \in SUBSET U PROVE SizeSum(r) = g[r]
  <2> DEFINE h == [s \in SUBSET r |-> g[s]]
  <2>1. Additive(h, Sizes, r) /\ h[r] = g[r]
    BY <1>2, AdditiveRestrict
  <2>2. IsFiniteSet(r) /\ r \in SUBSET Logs
    BY FS_Subset
  <2> HIDE DEF h
  <2> QED
    BY <2>1, <2>2, SizeSumTotal
<1> QED
  BY <1>2, <1>3

\* The sum of no logs, its type, and what one more log adds to it.
LEMMA SizeSumFacts ==
  ASSUME NEW T \in SUBSET Logs, IsFiniteSet(T)
  PROVE  /\ SizeSum({}) = 0
         /\ SizeSum(T) \in Nat
         /\ \A x \in Logs \ T :
              SizeSum(T \cup {x}) = SizeSum(T) + History[x].size
<1>1. PICK g : Additive(g, Sizes, T) /\ \A r \in SUBSET T : SizeSum(r) = g[r]
  BY SizeSumParts
<1>2. SizeSum({}) = 0 /\ SizeSum(T) \in Nat
  BY <1>1 DEF Additive
<1>3. ASSUME NEW x \in Logs \ T
      PROVE  SizeSum(T \cup {x}) = SizeSum(T) + History[x].size
  <2> DEFINE U == T \cup {x}
  <2>1. IsFiniteSet(U) /\ U \in SUBSET Logs
    BY FS_AddElement
  <2>2. T \in SUBSET U /\ x \in U /\ U \ {x} = T
    BY <1>3
  <2>3. PICK h : Additive(h, Sizes, U) /\ \A r \in SUBSET U : SizeSum(r) = h[r]
    BY <2>1, SizeSumParts
  <2>4. h[U] = Sizes[x] + h[T] /\ h[T] \in Nat
    BY <2>2, <2>3 DEF Additive
  <2>5. Sizes[x] = History[x].size /\ History[x].size \in Nat
    BY LogType DEF Sizes
  <2> QED
    BY <2>2, <2>3, <2>4, <2>5
<1> QED
  BY <1>2, <1>3

\* So it is for each of its parts.
LEMMA AcqSumParts ==
  ASSUME NEW U \in SUBSET Logs, IsFiniteSet(U)
  PROVE  \E g : /\ Additive(g, Acqs, U)
                /\ \A r \in SUBSET U : AcqSum(r) = g[r]
<1>1. \A l \in U : Acqs[l] \in Nat
  BY LogType DEF Acqs
<1>2. PICK g : Additive(g, Acqs, U)
  BY <1>1, AdditiveExists
<1>3. ASSUME NEW r \in SUBSET U PROVE AcqSum(r) = g[r]
  <2> DEFINE h == [s \in SUBSET r |-> g[s]]
  <2>1. Additive(h, Acqs, r) /\ h[r] = g[r]
    BY <1>2, AdditiveRestrict
  <2>2. IsFiniteSet(r) /\ r \in SUBSET Logs
    BY FS_Subset
  <2> HIDE DEF h
  <2> QED
    BY <2>1, <2>2, AcqSumTotal
<1> QED
  BY <1>2, <1>3

\* The sum of no logs, its type, and what one more log adds to it.
LEMMA AcqSumFacts ==
  ASSUME NEW T \in SUBSET Logs, IsFiniteSet(T)
  PROVE  /\ AcqSum({}) = 0
         /\ AcqSum(T) \in Nat
         /\ \A x \in Logs \ T :
              AcqSum(T \cup {x}) = AcqSum(T) + History[x].acq
<1>1. PICK g : Additive(g, Acqs, T) /\ \A r \in SUBSET T : AcqSum(r) = g[r]
  BY AcqSumParts
<1>2. AcqSum({}) = 0 /\ AcqSum(T) \in Nat
  BY <1>1 DEF Additive
<1>3. ASSUME NEW x \in Logs \ T
      PROVE  AcqSum(T \cup {x}) = AcqSum(T) + History[x].acq
  <2> DEFINE U == T \cup {x}
  <2>1. IsFiniteSet(U) /\ U \in SUBSET Logs
    BY FS_AddElement
  <2>2. T \in SUBSET U /\ x \in U /\ U \ {x} = T
    BY <1>3
  <2>3. PICK h : Additive(h, Acqs, U) /\ \A r \in SUBSET U : AcqSum(r) = h[r]
    BY <2>1, AcqSumParts
  <2>4. h[U] = Acqs[x] + h[T] /\ h[T] \in Nat
    BY <2>2, <2>3 DEF Additive
  <2>5. Acqs[x] = History[x].acq /\ History[x].acq \in Nat
    BY LogType DEF Acqs
  <2> QED
    BY <2>2, <2>3, <2>4, <2>5
<1> QED
  BY <1>2, <1>3

\* Fewer logs sum up to no more.
LEMMA SizeSumMonotone ==
  ASSUME NEW U \in SUBSET Logs, IsFiniteSet(U), NEW T \in SUBSET U
  PROVE  SizeSum(T) <= SizeSum(U)
<1>1. PICK g : Additive(g, Sizes, U) /\ \A r \in SUBSET U : SizeSum(r) = g[r]
  BY SizeSumParts
<1>2. \A l \in U : Sizes[l] \in Nat
  BY LogType DEF Sizes
<1>3. g[T] <= g[U]
  BY <1>1, <1>2, AdditiveMonotone
<1> QED
  BY <1>1, <1>3
-----------------------------------------------------------------------------
\* The logs applied to one challenge.
Own(c) == Applied \cap BidLogsOf(c)

(* TotalsMatchBids is inductive with two more facts: finitely many logs are *)
(* applied, and only to challenges that have a row, so that a row opened    *)
(* later starts from sums over no log.                                      *)
TotalsInv ==
  /\ IsFiniteSet(Applied)
  /\ \A l \in Applied : History[l].chal \in DOMAIN chals
  /\ \A c \in DOMAIN chals :
       /\ chals[c].bids = Cardinality(Own(c))
       /\ chals[c].filled = SizeSum(Own(c))
       /\ chals[c].acq = AcqSum(Own(c))

LEMMA NoLogs ==
  SizeSum({}) = 0 /\ AcqSum({}) = 0 /\ Cardinality({}) = 0
<1>1. IsFiniteSet({}) /\ {} \in SUBSET Logs /\ Cardinality({}) = 0
  BY FS_EmptySet
<1> QED
  BY <1>1, SizeSumFacts, AcqSumFacts

LEMMA TotalsInit == Init => TotalsInv
<1> SUFFICES ASSUME Init PROVE TotalsInv
  OBVIOUS
<1>1. Applied = {}
  BY BookInit DEF Book!Init
<1>2. DOMAIN chals = {}
  BY DEF Init
<1> QED
  BY <1>1, <1>2, FS_EmptySet DEF TotalsInv

LEMMA TotalsStep ==
  ASSUME WritesComplete
  PROVE  IInv /\ TotalsInv /\ [Next]_vars => TotalsInv'
<1> SUFFICES ASSUME IInv, TotalsInv, [Next]_vars PROVE TotalsInv'
  OBVIOUS
<1>0. Applied \subseteq BidLogs /\ BidLogs \subseteq Logs
  BY DEF Applied, BidLogs
<1>1. CASE /\ Applied' = Applied
           /\ \A d \in DOMAIN chals : RowKept(d)
           /\ \/ DOMAIN chals' = DOMAIN chals
              \/ \E l \in Logs \ BidLogs :
                   /\ History[l].chal \notin DOMAIN chals
                   /\ DOMAIN chals' = DOMAIN chals \cup {History[l].chal}
                   /\ \E ok \in BOOLEAN :
                        chals'[History[l].chal] = FreshRow(l, ok)
  <2>1. \A c : Own(c)' = Own(c)
    BY <1>1 DEF Own
  <2>2. /\ IsFiniteSet(Applied')
        /\ \A l \in Applied' : History[l].chal \in DOMAIN chals'
    BY <1>1 DEF TotalsInv, RowKept
  <2> SUFFICES ASSUME NEW c \in DOMAIN chals'
               PROVE  /\ chals'[c].bids = Cardinality(Own(c))
                      /\ chals'[c].filled = SizeSum(Own(c))
                      /\ chals'[c].acq = AcqSum(Own(c))
    BY <2>1, <2>2 DEF TotalsInv
  <2>3. CASE c \in DOMAIN chals
    BY <1>1, <2>3 DEF TotalsInv, RowKept
  <2>4. CASE c \notin DOMAIN chals
    <3>1. Own(c) = {}
      BY <2>4 DEF TotalsInv, Own, BidLogsOf
    <3>2. PICK l \in Logs, ok \in BOOLEAN : chals'[c] = FreshRow(l, ok)
      BY <1>1, <2>4
    <3>3. chals'[c].bids = 0 /\ chals'[c].filled = 0 /\ chals'[c].acq = 0
      BY <3>2 DEF FreshRow
    <3> QED
      BY <3>1, <3>3, NoLogs
  <2> QED
    BY <2>3, <2>4
<1>2. ASSUME NEW l \in BidLogs,
             /\ l \notin Applied /\ Applied' = Applied \cup {l}
             /\ History[l].chal \in DOMAIN chals
             /\ DOMAIN chals' = DOMAIN chals
             /\ chals'[History[l].chal] = CountedRow(l, chals[History[l].chal])
             /\ \A d \in DOMAIN chals :
                  d # History[l].chal => chals'[d] = chals[d]
      PROVE  TotalsInv'
  <2> DEFINE e == History[l].chal
  <2>1. /\ IsFiniteSet(Applied')
        /\ \A m \in Applied' : History[m].chal \in DOMAIN chals'
    BY <1>2, FS_AddElement DEF TotalsInv
  <2> DEFINE Grown(c) == IF c = e THEN Own(e) \cup {l} ELSE Own(c)
  <2>2. \A c : Own(c)' = Grown(c)
    BY <1>2 DEF Own, BidLogsOf
  <2>3. l \notin Own(e)
    BY <1>2 DEF Own
  <2>4. IsFiniteSet(Own(e)) /\ Own(e) \in SUBSET Logs /\ l \in Logs
    BY <1>0, FS_Subset DEF TotalsInv, Own
  <2>5. /\ SizeSum(Own(e) \cup {l}) = SizeSum(Own(e)) + History[l].size
        /\ AcqSum(Own(e) \cup {l}) = AcqSum(Own(e)) + History[l].acq
        /\ Cardinality(Own(e) \cup {l}) = Cardinality(Own(e)) + 1
    BY <2>3, <2>4, SizeSumFacts, AcqSumFacts, FS_AddElement
  <2>6. /\ chals'[e].bids = chals[e].bids + 1
        /\ chals'[e].filled = chals[e].filled + History[l].size
        /\ chals'[e].acq = chals[e].acq + History[l].acq
    BY <1>2 DEF CountedRow
  <2>7. /\ chals'[e].bids = Cardinality(Grown(e))
        /\ chals'[e].filled = SizeSum(Grown(e))
        /\ chals'[e].acq = AcqSum(Grown(e))
    BY <1>2, <2>5, <2>6 DEF TotalsInv
  <2> HIDE DEF Grown
  <2> SUFFICES ASSUME NEW c \in DOMAIN chals
               PROVE  /\ chals'[c].bids = Cardinality(Grown(c))
                      /\ chals'[c].filled = SizeSum(Grown(c))
                      /\ chals'[c].acq = AcqSum(Grown(c))
    BY <1>2, <2>1, <2>2 DEF TotalsInv
  <2>8. CASE c = e
    BY <2>7, <2>8
  <2>9. CASE c # e
    BY <1>2, <2>9 DEF TotalsInv, Grown
  <2> QED
    BY <2>8, <2>9
<1> QED
  BY <1>1, <1>2, AppliedSteps

\* With complete writes, the totals of every challenge are those of the logs
\* applied to it, however many they are and however often they are rescanned.
THEOREM TotalsAreOfBids ==
  ASSUME WritesComplete PROVE Spec => []TotalsMatchBids
<1>1. Init => IInv /\ TotalsInv
  BY IInit, TotalsInit
<1>2. IInv /\ TotalsInv /\ [Next]_vars => IInv' /\ TotalsInv'
  BY IStep, TotalsStep DEF WritesComplete
<1>3. TotalsInv => TotalsMatchBids
  BY DEF TotalsInv, TotalsMatchBids, Own, SizeSum, AcqSum
<1> QED
  BY <1>1, <1>2, <1>3, PTL DEF Spec

\* "don't advance twice" holds of the scan alone: without a failure between
\* the two writes, no rescan counts a log again.
THEOREM ScanAdvancesOnce ==
  ASSUME WritesComplete, \A c \in Challenges : IsFiniteSet(BidLogsOf(c))
  PROVE  Spec => []AdvancedOnce
<1>1. Init => IInv /\ TotalsInv
  BY IInit, TotalsInit
<1>2. IInv /\ TotalsInv /\ [Next]_vars => IInv' /\ TotalsInv'
  BY IStep, TotalsStep DEF WritesComplete
<1>3. IInv /\ TotalsInv => AdvancedOnce
  <2> SUFFICES ASSUME IInv, TotalsInv, NEW c \in DOMAIN chals
               PROVE  chals[c].bids <= Cardinality(BidLogsOf(c))
    BY DEF AdvancedOnce
  <2>1. c \in Challenges
    BY DEF IInv, TypeOK, TablesOK
  <2>2. Cardinality(Own(c)) <= Cardinality(BidLogsOf(c))
    BY <2>1, FS_Subset DEF Own
  <2> QED
    BY <2>2 DEF TotalsInv
<1> QED
  BY <1>1, <1>2, <1>3, PTL DEF Spec
-----------------------------------------------------------------------------
(* FinalStatusInOrder needs the failures that skip a log out of the way: a  *)
(* block or a challenge row that is given up for the tick puts a bid behind *)
(* a later one.  Of the chain it needs that no two logs share their place,  *)
(* and of the hub that a challenge is started before its bids, which are    *)
(* finitely many and taken only while some of the challenge is left.        *)
HubInOrder ==
  /\ \A l, m \in Logs : l # m => Before(l, m) \/ Before(m, l)
  /\ \A l \in BidLogs :
       \E s \in Logs \ BidLogs :
         History[s].chal = History[l].chal /\ Before(s, l)
  /\ \A s \in Logs \ BidLogs :
       LET own == BidLogsOf(History[s].chal)
       IN  /\ IsFiniteSet(own)
           /\ \A m \in own :
                SizeSum({k \in own : Before(k, m)}) < History[s].size

NoneSkipped ==
  /\ WritesComplete
  /\ Faults \cap {"GetBlock", "UpsertChallenge"} = {}
  /\ Overlap <= Base

\* What a tick has fetched is of its window, and of no block before cur.
TickInv ==
  /\ Base <= last
  /\ \A m \in todo : /\ cur <= History[m].block
                     /\ History[m].block \in WindowFrom .. target

\* A bid applied before an earlier one of its challenge has left that one
\* behind the window for good: no later tick applies it.
LateNever ==
  \A l, m \in BidLogs :
    /\ History[l].chal = History[m].chal
    /\ Before(l, m) /\ m \in Applied /\ l \notin Applied
    => l \notin todo /\ History[l].block < WindowFrom

\* A bid the tick has passed without applying it is on a challenge that no
\* log ahead of the tick opens.
PassedUnopened ==
  todo # {} =>
    \A l \in BidLogs :
      /\ History[l].block \in WindowFrom .. target
      /\ l \notin Applied /\ l \notin todo
      => /\ History[l].chal \notin DOMAIN chals
         /\ \A s \in todo \ BidLogs : History[s].chal # History[l].chal

\* The status of a closed challenge is that of its last log, an applied one.
ClosedByLast ==
  \A c \in DOMAIN chals :
    chals[c].status # "Active" =>
      \E l \in Own(c) :
        /\ chals[c].status = FinalStatusName(History[l].kind)
        /\ \A m \in BidLogsOf(c) \ {l} : Before(m, l)

OrderInv ==
  /\ IInv /\ TotalsInv
  /\ TickInv /\ LateNever /\ PassedUnopened /\ ClosedByLast

\* The order of the chain, as far as the scan depends on it.
LEMMA BeforeFacts ==
  ASSUME NEW k \in Logs, NEW l \in Logs, NEW m \in Logs
  PROVE  /\ Before(k, l) /\ Before(l, m) => Before(k, m)
         /\ ~(Before(k, l) /\ Before(l, k))
         /\ Before(k, l) => History[k].block <= History[l].block
<1>1. /\ History[k].block \in Nat /\ History[k].idx \in Nat
      /\ History[l].block \in Nat /\ History[l].idx \in Nat
      /\ History[m].block \in Nat /\ History[m].idx \in Nat
  BY LogType
<1> QED
  BY <1>1 DEF Before

\* No log the tick still has to handle comes before the current one.
LEMMA CurrentFirst ==
  ASSUME TypeOK, TickInv, NEW l \in Logs, Current(l), NEW m \in Logs,
         Before(m, l)
  PROVE  m \notin todo
<1> SUFFICES ASSUME m \in todo PROVE FALSE
  OBVIOUS
<1>1. /\ History[m].block \in Nat /\ History[m].idx \in Nat
      /\ History[l].block \in Nat /\ History[l].idx \in Nat
  BY LogType
<1>2. History[l].block = cur /\ cur <= History[m].block
  BY DEF Current, TickInv
<1>3. m # l
  BY BeforeFacts
<1>4. History[m].block = cur => History[l].idx < History[m].idx
  BY <1>3 DEF Current
<1> QED
  BY <1>1, <1>2, <1>4 DEF Before

\* As last_block moves on, so does the window.
LEMMA WindowMoves ==
  ASSUME NoneSkipped, TypeOK, TickInv
  PROVE  /\ WindowFrom \in Nat
         /\ last' \in Nat /\ last <= last' =>
              WindowFrom' \in Nat /\ WindowFrom <= WindowFrom'
<1>1. /\ last \in Nat /\ Overlap \in Nat /\ Base \in Nat
      /\ Overlap <= Base /\ Base <= last
  BY BoundAssumption DEF TypeOK, LoopOK, NoneSkipped, TickInv
<1>2. \A p, q \in Nat : Overlap <= p /\ p <= q =>
        /\ p + 1 > Overlap /\ q + 1 > Overlap
        /\ p + 1 - Overlap \in Nat /\ q + 1 - Overlap \in Nat
        /\ p + 1 - Overlap <= q + 1 - Overlap
  BY <1>1
<1>3. Overlap <= last /\ last <= last
  BY <1>1
<1>4. WindowFrom = last + 1 - Overlap /\ WindowFrom \in Nat
  BY <1>1, <1>2, <1>3 DEF WindowFrom
<1>5. ASSUME last' \in Nat, last <= last'
      PROVE  WindowFrom' \in Nat /\ WindowFrom <= WindowFrom'
  <2>1. last' + 1 > Overlap
    BY <1>1, <1>2, <1>3, <1>5
  <2>2. WindowFrom' = last' + 1 - Overlap
    BY <2>1 DEF WindowFrom
  <2> QED
    BY <1>1, <1>2, <1>3, <1>4, <1>5, <2>2
<1> QED
  BY <1>4, <1>5

\* What a step does to the tick: leave its logs alone, fetch a window, end
\* it, or handle the current log; no step gives a log up.
LEMMA TickSteps ==
  ASSUME NoneSkipped, TypeOK, [Next]_vars
  PROVE  \/ UNCHANGED <<chals, last, target, todo>> /\ cur' = cur
         \/ UNCHANGED <<chals, last, target, todo>> /\ FetchBlock
         \/ /\ UNCHANGED <<chals, last>> /\ target' = tip /\ cur' = 0
            /\ todo' = FetchedLogs
         \/ chals' = chals /\ todo' = {} /\ last' \in {last, target}
         \/ \E l \in Logs :
              /\ \/ StartedAgain(l) \/ StartedBackfill(l) \/ StartedNew(l)
                 \/ BidSkip(l) \/ BidCount(l)
              /\ Current(l) /\ todo' = todo \ {l}
              /\ UNCHANGED <<last, target, cur>>
<1>0. SoundReads
  BY DEF NoneSkipped, WritesComplete
<1>1. /\ ~Spend("GetBlock") /\ ~Spend("UpsertChallenge")
      /\ ~Spend("GetChallenge")
  BY DEF Spend, NoneSkipped, WritesComplete, SoundReads
<1>2. CASE Mine \/ StoreBid \/ StoreBidFails \/ UNCHANGED vars
  BY <1>2 DEF Mine, StoreBid, StoreBidFails, vars, tables, loop
<1>3. CASE FetchBlock
  BY <1>3 DEF FetchBlock, tables, loop
<1>4. CASE StartTick
  BY <1>4 DEF StartTick, tables
<1>5. CASE StartTickLied \/ Commit \/ Restart
  BY <1>5 DEF StartTickLied, Commit, Restart, tables
<1>6. ~SkipBlock
  BY <1>1 DEF SkipBlock
<1>7. ASSUME NEW l \in Logs, Handle(l)
      PROVE  /\ \/ StartedAgain(l) \/ StartedBackfill(l) \/ StartedNew(l)
                \/ BidSkip(l) \/ BidCount(l)
             /\ Current(l) /\ todo' = todo \ {l}
             /\ UNCHANGED <<last, target, cur>>
  <2>1. ~HandlerFails(l)
    BY <1>1 DEF HandlerFails
  <2>2. Current(l) /\ Handled(l)
    BY <1>0, <1>7, StartedReads
    DEF Handle, StartedAgain, StartedBackfill, StartedNew, StartedFresh,
        HandlerFails, BidSkip, BidCount, Count
  <2> QED
    BY <1>0, <1>7, <2>1, <2>2, StartedReads DEF Handle, Handled, loop
<1> QED
  BY <1>2, <1>3, <1>4, <1>5, <1>6, <1>7 DEF Next, Scan, Idle

LEMMA TickStep ==
  ASSUME NoneSkipped, TypeOK, TypeOK', TickInv, [Next]_vars
  PROVE  TickInv' /\ last <= last' /\ WindowFrom <= WindowFrom'
<1>1. /\ last \in Nat /\ last' \in Nat /\ target \in Nat /\ tip \in Nat
      /\ last <= target /\ Base \in Nat
  BY BoundAssumption DEF TypeOK, LoopOK
<1>2. last <= last' /\ Base <= last'
  BY <1>1, TickSteps DEF TickInv, StartedAgain
<1>3. last' = last => WindowFrom' = WindowFrom
  BY DEF WindowFrom
<1>4. ASSUME NEW m \in todo'
      PROVE  /\ cur' <= History[m].block
             /\ History[m].block \in WindowFrom' .. target'
  <2>1. CASE /\ UNCHANGED <<last, target, cur>> /\ todo' \subseteq todo
    BY <1>3, <1>4, <2>1 DEF TickInv
  <2>2. CASE UNCHANGED <<last, target, todo>> /\ FetchBlock
    BY <1>3, <1>4, <2>2 DEF TickInv, FetchBlock, NextGroup
  <2>3. CASE /\ last' = last /\ target' = tip /\ cur' = 0
             /\ todo' = FetchedLogs
    <3>1. m \in Logs /\ History[m].block \in WindowFrom .. tip
      BY <1>4, <2>3 DEF FetchedLogs
    <3> QED
      BY <1>3, <2>3, <3>1, LogType
  <2>4. CASE todo' = {}
    BY <1>4, <2>4
  <2> QED
    BY <2>1, <2>2, <2>3, <2>4, TickSteps
<1> QED
  BY <1>1, <1>2, <1>4, WindowMoves DEF TickInv
-----------------------------------------------------------------------------
\* What is applied stays applied, and one that joins is the current log.
LEMMA AppliedGrows ==
  ASSUME NoneSkipped, IInv, [Next]_vars
  PROVE  /\ Applied \subseteq Applied'
         /\ \A l \in Applied' \ Applied :
              /\ l \in BidLogs /\ l \in Logs /\ BidCount(l) /\ Current(l)
              /\ History[l].chal \in DOMAIN chals
<1>1. WritesComplete
  BY DEF NoneSkipped
<1>2. Applied' = Applied \/ \E l \in BidLogs : /\ BidCount(l)
                                              /\ Applied' = Applied \cup {l}
  BY <1>1, AppliedSteps
<1> QED
  BY <1>2 DEF BidCount, BidLogs

\* A log applied now: its earlier ones are applied, or behind the window.
LEMMA LateStep ==
  ASSUME NoneSkipped, OrderInv, TypeOK', [Next]_vars
  PROVE  LateNever'
<1> SUFFICES ASSUME NEW l \in BidLogs, NEW m \in BidLogs,
                    History[l].chal = History[m].chal, Before(l, m),
                    m \in Applied', l \notin Applied'
             PROVE  l \notin todo' /\ History[l].block < WindowFrom'
  BY DEF LateNever
<1>1. /\ l \notin Applied /\ l \in Logs /\ m \in Logs
      /\ IInv /\ TypeOK /\ TickInv
  BY AppliedGrows DEF OrderInv, BidLogs, IInv
<1>2. l \notin todo /\ History[l].block < WindowFrom
  <2>1. CASE m \in Applied
    BY <1>1, <2>1 DEF OrderInv, LateNever
  <2>2. CASE m \notin Applied
    <3>1. Current(m) /\ History[m].chal \in DOMAIN chals
      BY <1>1, <2>2, AppliedGrows
    <3>2. l \notin todo
      BY <1>1, <3>1, CurrentFirst
    <3>3. m \in todo /\ History[m].block \in WindowFrom .. target
      BY <1>1, <3>1 DEF Current, TickInv
    <3>4. ~(History[l].block \in WindowFrom .. target)
      BY <1>1, <3>1, <3>2, <3>3 DEF OrderInv, PassedUnopened
    <3>5. /\ History[l].block \in Nat /\ History[m].block \in Nat
          /\ History[l].block <= History[m].block
      BY <1>1, LogType, BeforeFacts
    <3>6. target \in Nat /\ WindowFrom \in Nat
      BY <1>1, WindowMoves DEF TypeOK, LoopOK
    <3> QED
      BY <3>2, <3>3, <3>4, <3>5, <3>6
  <2> QED
    BY <2>1, <2>2
<1>3. /\ WindowFrom <= WindowFrom' /\ WindowFrom \in Nat
      /\ WindowFrom' \in Nat /\ History[l].block \in Nat
  BY <1>1, TickStep, WindowMoves, LogType DEF TypeOK, LoopOK
<1>4. l \notin FetchedLogs
  BY <1>2, <1>3 DEF FetchedLogs
<1>5. todo' \subseteq todo \/ todo' = FetchedLogs
  BY <1>1, TickSteps
<1> QED
  BY <1>2, <1>3, <1>4, <1>5

\* A tick passes a bid unapplied only when nothing has opened its challenge,
\* and nothing ahead of the tick will.
LEMMA PassedStep ==
  ASSUME NoneSkipped, HubInOrder, OrderInv, TypeOK', [Next]_vars
  PROVE  PassedUnopened'
<1> SUFFICES ASSUME todo' # {}, NEW l \in BidLogs,
                    History[l].block \in WindowFrom' .. target',
                    l \notin Applied', l \notin todo'
             PROVE  /\ History[l].chal \notin DOMAIN chals'
                    /\ \A s \in todo' \ BidLogs :
                         History[s].chal # History[l].chal
  BY DEF PassedUnopened
<1>1. /\ l \notin Applied /\ l \in Logs
      /\ IInv /\ TypeOK /\ TickInv /\ SoundReads
  BY AppliedGrows DEF OrderInv, BidLogs, IInv, NoneSkipped, WritesComplete
<1>2. last' = last => WindowFrom' = WindowFrom
  BY DEF WindowFrom
<1>3. CASE UNCHANGED <<chals, last, target, todo>>
  BY <1>1, <1>2, <1>3 DEF OrderInv, PassedUnopened
<1>4. CASE /\ UNCHANGED <<chals, last>> /\ target' = tip
           /\ todo' = FetchedLogs
  BY <1>1, <1>2, <1>4 DEF FetchedLogs
<1>5. ASSUME NEW h \in Logs,
             \/ StartedAgain(h) \/ StartedBackfill(h) \/ StartedNew(h)
             \/ BidSkip(h) \/ BidCount(h),
             Current(h), todo' = todo \ {h},
             UNCHANGED <<last, target, cur>>
      PROVE  /\ History[l].chal \notin DOMAIN chals'
             /\ \A s \in todo' \ BidLogs :
                  History[s].chal # History[l].chal
  <2>1. h \in todo /\ History[l].block \in WindowFrom .. target
    BY <1>2, <1>5 DEF Current
  <2>2. CASE h # l
    <3>1. /\ History[l].chal \notin DOMAIN chals
          /\ \A s \in todo \ BidLogs : History[s].chal # History[l].chal
      BY <1>1, <1>5, <2>1, <2>2 DEF OrderInv, PassedUnopened
    <3>2. CASE BidSkip(h) \/ BidCount(h)
      <4>1. BidSkip(h) => chals' = chals
        BY DEF BidSkip, tables
      <4>2. BidCount(h) => DOMAIN chals' = DOMAIN chals
        BY <1>1, CountSteps
      <4> QED
        BY <1>5, <3>1, <3>2, <4>1, <4>2
    <3>3. CASE StartedAgain(h) \/ StartedBackfill(h) \/ StartedNew(h)
      <4>1. /\ h \in Logs \ BidLogs
            /\ \/ DOMAIN chals' = DOMAIN chals
               \/ DOMAIN chals' = DOMAIN chals \cup {History[h].chal}
        BY <1>1, <3>3, StartedKeeps
      <4>2. History[h].chal # History[l].chal
        BY <2>1, <3>1, <4>1
      <4> QED
        BY <1>5, <3>1, <4>1, <4>2
    <3> QED
      BY <1>5, <3>2, <3>3
  <2>3. CASE h = l
    <3>1. ~BidCount(h)
      <4>1. BidCount(h) => pend' = h
        BY DEF BidCount, Count
      <4>2. pend' = l => l \in Applied'
        BY DEF Applied
      <4> QED
        BY <2>3, <4>1, <4>2
    <3>2. ~(StartedAgain(h) \/ StartedBackfill(h) \/ StartedNew(h))
      BY <2>3 DEF BidLogs, StartedAgain, StartedBackfill, StartedNew, StartedFresh
    <3>3. BidSkip(h)
      BY <1>5, <3>1, <3>2
    <3>4. History[l].chal \notin DOMAIN chals /\ chals' = chals
      BY <1>1, <2>3, <3>3 DEF BidSkip, Applied, tables
    <3>5. ASSUME NEW s \in todo' \ BidLogs, History[s].chal = History[l].chal
          PROVE  FALSE
      <4>1. PICK o \in Logs \ BidLogs :
              History[o].chal = History[l].chal /\ Before(o, l)
        BY DEF HubInOrder
      <4>2. s \in Logs \ BidLogs /\ s \in todo
        BY <1>1, <1>5, <3>5 DEF TypeOK, LoopOK
      <4>3. s = o
        BY <3>5, <4>1, <4>2, HubAssumption
      <4> QED
        BY <1>1, <1>5, <2>3, <4>1, <4>2, <4>3, CurrentFirst
    <3> QED
      BY <3>4, <3>5
  <2> QED
    BY <2>2, <2>3
<1> QED
  BY <1>1, <1>3, <1>4, <1>5, TickSteps

\* While the tick is at a bid, those applied to its challenge came before it.
LEMMA OwnBefore ==
  ASSUME HubInOrder, OrderInv, NEW l \in BidLogs, Current(l), l \notin Applied,
         NEW k \in Own(History[l].chal)
  PROVE  Before(k, l)
<1>1. /\ k \in BidLogs /\ k \in Applied /\ k \in Logs /\ l \in Logs
      /\ History[k].chal = History[l].chal /\ k # l /\ l \in todo
  BY DEF Own, BidLogsOf, BidLogs, Current
<1>2. Before(k, l) \/ Before(l, k)
  BY <1>1 DEF HubInOrder
<1> QED
  BY <1>1, <1>2 DEF OrderInv, LateNever

\* The bid that fills its challenge is the challenge's last: a later one
\* would have been taken with nothing left.
LEMMA FilledByLast ==
  ASSUME HubInOrder, OrderInv, NEW l \in BidLogs, Current(l), l \notin Applied,
         History[l].chal \in DOMAIN chals,
         chals[History[l].chal].filled + History[l].size
           >= chals[History[l].chal].size,
         NEW m \in BidLogsOf(History[l].chal), m # l
  PROVE  Before(m, l)
<1> DEFINE c == History[l].chal
           before == {k \in BidLogsOf(c) : Before(k, m)}
           own == Own(c) \cup {l}
<1> SUFFICES ASSUME Before(l, m) PROVE FALSE
  BY DEF HubInOrder, BidLogsOf, BidLogs
<1>1. l \in Logs /\ m \in Logs /\ l \in BidLogsOf(c)
  BY DEF BidLogsOf, BidLogs
<1>2. PICK s \in Logs \ BidLogs :
        History[s].chal = c /\ History[s].size = chals[c].size
  BY DEF OrderInv, IInv, RowsOpened
<1>3. IsFiniteSet(BidLogsOf(c)) /\ SizeSum(before) < History[s].size
  BY <1>2 DEF HubInOrder
<1>4. before \in SUBSET Logs /\ IsFiniteSet(before)
  BY <1>3, FS_Subset DEF BidLogsOf, BidLogs
<1>5. own \in SUBSET before
  <2>1. \A k \in Own(c) : k \in BidLogsOf(c) /\ k \in Logs /\ Before(k, l)
    BY OwnBefore DEF Own, BidLogsOf, BidLogs
  <2> QED
    BY <1>1, <2>1, BeforeFacts
<1>6. SizeSum(own) = SizeSum(Own(c)) + History[l].size
  <2>1. /\ IsFiniteSet(Own(c)) /\ Own(c) \in SUBSET Logs
        /\ l \in Logs \ Own(c)
    BY <1>1, <1>3, FS_Subset DEF Own, BidLogsOf, BidLogs
  <2> QED
    BY <2>1, SizeSumFacts
<1>7. chals[c].filled = SizeSum(Own(c))
  BY DEF OrderInv, TotalsInv
<1>8. SizeSum(own) <= SizeSum(before) /\ SizeSum(before) \in Nat
  BY <1>4, <1>5, SizeSumMonotone, SizeSumFacts
<1>9. SizeSum(own) \in Nat /\ History[s].size \in Nat
  <2>1. own \in SUBSET Logs /\ IsFiniteSet(own)
    BY <1>4, <1>5, FS_Subset
  <2> HIDE DEF own
  <2> QED
    BY <1>2, <2>1, SizeSumFacts, LogType
<1> HIDE DEF own, before
<1>10. SizeSum(own) >= History[s].size
  BY <1>2, <1>6, <1>7
<1> QED
  BY <1>3, <1>8, <1>9, <1>10

LEMMA ClosedStep ==
  ASSUME NoneSkipped, HubInOrder, OrderInv, [Next]_vars
  PROVE  ClosedByLast'
<1>1. WritesComplete /\ IInv
  BY DEF NoneSkipped, OrderInv
<1>2. \A c : Own(c) \subseteq Own(c)'
  BY <1>1, AppliedGrows DEF Own, BidLogsOf
<1> SUFFICES ASSUME NEW c \in DOMAIN chals', chals'[c].status # "Active"
             PROVE  \E l \in Own(c)' :
                      /\ chals'[c].status = FinalStatusName(History[l].kind)
                      /\ \A m \in BidLogsOf(c) \ {l} : Before(m, l)
  BY DEF ClosedByLast, BidLogsOf
<1>3. CASE c \in DOMAIN chals /\ chals'[c].status = chals[c].status
  BY <1>2, <1>3 DEF OrderInv, ClosedByLast
<1>4. ASSUME NEW l \in Logs, NEW ok \in BOOLEAN, chals'[c] = FreshRow(l, ok)
      PROVE  FALSE
  BY <1>4 DEF FreshRow
<1>5. ASSUME NEW l \in BidLogs, BidCount(l), l \notin Applied,
             Applied' = Applied \cup {l}, c = History[l].chal,
             c \in DOMAIN chals, chals'[c] = CountedRow(l, chals[c]),
             chals'[c].status # chals[c].status
      PROVE  \E k \in Own(c)' :
               /\ chals'[c].status = FinalStatusName(History[k].kind)
               /\ \A m \in BidLogsOf(c) \ {k} : Before(m, k)
  <2>1. Current(l)
    BY <1>5 DEF BidCount
  <2>2. chals'[c].status = StatusAfter(l, chals[c])
    BY <1>5 DEF CountedRow
  <2>3. /\ chals[c].filled + History[l].size >= chals[c].size
        /\ chals'[c].status = FinalStatusName(History[l].kind)
    BY <1>5, <2>2 DEF StatusAfter
  <2>4. \A m \in BidLogsOf(c) \ {l} : Before(m, l)
    BY <1>5, <2>1, <2>3, FilledByLast
  <2>5. l \in Own(c)'
    BY <1>5 DEF Own, BidLogsOf
  <2> QED
    BY <2>3, <2>4, <2>5
<1>6. CASE \E l \in BidLogs :
             /\ BidCount(l) /\ l \notin Applied
             /\ Applied' = Applied \cup {l}
             /\ History[l].chal \in DOMAIN chals
             /\ DOMAIN chals' = DOMAIN chals
             /\ chals'[History[l].chal] =
                  CountedRow(l, chals[History[l].chal])
             /\ \A d \in DOMAIN chals :
                  d # History[l].chal => chals'[d] = chals[d]
  BY <1>3, <1>5, <1>6
<1>7. CASE /\ Applied' = Applied
           /\ \A d \in DOMAIN chals : RowKept(d)
           /\ \/ DOMAIN chals' = DOMAIN chals
              \/ \E l \in Logs \ BidLogs :
                   /\ History[l].chal \notin DOMAIN chals
                   /\ DOMAIN chals' = DOMAIN chals \cup {History[l].chal}
                   /\ \E ok \in BOOLEAN :
                        chals'[History[l].chal] = FreshRow(l, ok)
  <2>1. CASE c \in DOMAIN chals
    BY <1>3, <1>7, <2>1 DEF RowKept
  <2>2. CASE c \notin DOMAIN chals
    BY <1>4, <1>7, <2>2
  <2> QED
    BY <2>1, <2>2
<1> QED
  BY <1>1, <1>6, <1>7, AppliedSteps

LEMMA OrderInit == Init => OrderInv
<1> SUFFICES ASSUME Init PROVE OrderInv
  OBVIOUS
<1>1. Applied = {}
  BY BookInit DEF Book!Init
<1>2. DOMAIN chals = {} /\ todo = {} /\ last = Base
  BY DEF Init
<1> QED
  BY <1>1, <1>2, IInit, TotalsInit, BoundAssumption
  DEF OrderInv, TickInv, LateNever, PassedUnopened, ClosedByLast

\* When no failure gives a log up for the tick and the hub keeps its order,
\* the status of a closed challenge is that of its last bid on the chain,
\* whatever a racer hides, hydration fails or the process restarts between.
THEOREM FinalStatusOrdered ==
  ASSUME NoneSkipped, HubInOrder PROVE Spec => []FinalStatusInOrder
<1>1. Init => OrderInv
  BY OrderInit
<1>2. OrderInv /\ [Next]_vars => OrderInv'
  <2> SUFFICES ASSUME OrderInv, [Next]_vars PROVE OrderInv'
    OBVIOUS
  <2>1. IInv' /\ TotalsInv'
    BY IStep, TotalsStep DEF OrderInv, NoneSkipped, WritesComplete
  <2>2. TypeOK /\ TypeOK' /\ TickInv
    BY <2>1 DEF OrderInv, IInv
  <2>3. TickInv'
    BY <2>2, TickStep
  <2> QED
    BY <2>1, <2>2, <2>3, LateStep, PassedStep, ClosedStep DEF OrderInv
<1>3. OrderInv => FinalStatusInOrder
  BY DEF OrderInv, ClosedByLast, FinalStatusInOrder, Own
<1> QED
  BY <1>1, <1>2, <1>3, PTL DEF Spec
=============================================================================
