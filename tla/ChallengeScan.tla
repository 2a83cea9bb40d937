--------------------------- MODULE ChallengeScan ---------------------------
(***************************************************************************)
(* The challenge side of the indexer: indexer/challenges.go on top of      *)
(* store/challenges.go, driven by the tick of indexer/loop.go.             *)
(*                                                                         *)
(* One tick fetches the MintingHub logs of a window of blocks that         *)
(* overlaps the windows before it, and applies them to two tables:         *)
(*   chals   challenge id -> row     (UpsertChallenge)                     *)
(*   bids    <<challenge, n>> -> row (UpsertBid)                           *)
(* A bid log costs two writes, first the challenge row, then the bid row;  *)
(* the second is what later rescans look up to skip the log.               *)
(*                                                                         *)
(* Every call that can fail is a member of Faults, named after the call;   *)
(* a fault is spent from a budget, so that the runs stay finite and the    *)
(* liveness runs can say "finitely many failures".                         *)
(*                                                                         *)
(* A failed eth_blockNumber or eth_getLogs ends the tick before anything   *)
(* is written: a stuttering step.  A window longer than maxBlockRange is   *)
(* scanned in ascending chunks, which visit the logs in the same order as  *)
(* one chunk (TickLoop has the chunks).                                    *)
(*                                                                         *)
(* Definitions marked "Variant" are no part of the specification: they are *)
(* the slips the properties are tried against (README, mutations).         *)
(***************************************************************************)
EXTENDS Integers, FiniteSetsExt

CONSTANTS
  Challenges, \* (position, number) pairs
  History,    \* the hub's logs: a sequence of Events
  Base,       \* last_block as the bootstrap left it
  MaxBlock,   \* bound: the chain ends here
  Overlap,    \* overlap, the blocks a tick scans again
  MaxLag,     \* bound: blocks the chain may grow between two ticks
  Faults,     \* the calls that may fail
  MaxFaults   \* bound: how many failures a behaviour has

Logs == DOMAIN History
Kinds == {"Started", "Averted", "Succeeded"}
Event == [kind: Kinds, chal: Challenges, size: Nat, acq: Nat,
          block: Nat, tx: Nat, idx: Nat]
BidLogs == {l \in Logs : History[l].kind # "Started"}
BidLogsOf(c) == {l \in BidLogs : History[l].chal = c}
Key(l) == <<History[l].tx, History[l].idx>>

Calls == {"GetLogs",          \* a racer answers [] instead of the logs
          "GetBlock",         \* eth_getBlockByNumber fails
          "HydratePosition",  \* no price and period for the position
          "GetChallenge",     \* the SELECT of the row fails
          "BidExistsByLog",   \* the idempotency SELECT fails
          "UpsertChallenge", "UpsertBid", "SetLastBlock",
          "stop",             \* the process ends between two handlers
          "kill"}             \* the process ends inside a bid handler

ASSUME HistoryAssumption ==
  /\ Logs \subseteq Nat \ {0}
  /\ History \in [Logs -> Event]

\* The EVM gives each log its own (transaction, logIndex).
ASSUME KeyAssumption ==
  \A l, m \in Logs : Key(l) = Key(m) => l = m

\* "ChallengeStarted is one event per (position, number)"; an Averted log
\* carries no acquired collateral.
ASSUME HubAssumption ==
  /\ \A l, m \in Logs \ BidLogs : History[l].chal = History[m].chal => l = m
  /\ \A l \in Logs : History[l].kind = "Averted" => History[l].acq = 0

ASSUME BoundAssumption ==
  /\ Base \in Nat \ {0} /\ MaxBlock \in Nat /\ Overlap \in Nat
  /\ MaxLag \in Nat /\ MaxFaults \in Nat
  /\ Faults \subseteq Calls

VARIABLES
  chals,      \* table challenges
  bids,       \* table bids
  last,       \* meta.last_block
  tip,        \* newest block deep enough to index (head - safetyDepth)
  phase,      \* "scan": a tick is in ScanChallenges, else "idle"
  target,     \* the tick's last block
  todo,       \* logs fetched and not handled yet
  cur,        \* block whose senders and timestamp are at hand, 0: none
  pend,       \* log counted on its challenge row, bid row not written, 0: none
  faultsLeft

tables == <<chals, bids>>
loop == <<last, tip, phase, target>>
vars == <<chals, bids, last, tip, phase, target, todo, cur, pend, faultsLeft>>
-----------------------------------------------------------------------------
Spend(call) ==
  /\ call \in Faults
  /\ faultsLeft > 0
  /\ faultsLeft' = faultsLeft - 1

SpendBoth(a, b) ==
  /\ {a, b} \subseteq Faults
  /\ faultsLeft > 1
  /\ faultsLeft' = faultsLeft - 2

\* INSERT ... ON CONFLICT(id) DO UPDATE
Upsert(table, id, row) ==
  [k \in DOMAIN table \cup {id} |-> IF k = id THEN row ELSE table[k]]

\* Ascending block, then ascending logIndex.
Before(l, m) ==
  \/ History[l].block < History[m].block
  \/ History[l].block = History[m].block /\ History[l].idx < History[m].idx

\* The handler that runs now is the one of log l: the group of its block is
\* sorted by logIndex.
Current(l) ==
  /\ phase = "scan"
  /\ pend = 0
  /\ l \in todo
  /\ History[l].block = cur
  /\ \A m \in todo \ {l} :
       History[m].block = cur => History[l].idx < History[m].idx

\* Variant: the lookup is gone.
SeenNever(l) == FALSE

\* BidExistsByLog: some bid row carries this log's (txHash, logIndex).
Seen(l) == \E b \in DOMAIN bids : bids[b].key = Key(l)

\* Variant: only the new blocks are scanned.
WindowNoOverlap == last + 1

\* First block of the tick's window.
WindowFrom == IF last + 1 > Overlap THEN last + 1 - Overlap ELSE last + 1

FetchedLogs == {l \in Logs : History[l].block \in WindowFrom .. tip}
-----------------------------------------------------------------------------
Init ==
  /\ chals = << >> /\ bids = << >>
  /\ last = Base /\ tip = Base
  /\ phase = "idle" /\ target = Base
  /\ todo = {} /\ cur = 0 /\ pend = 0
  /\ faultsLeft = MaxFaults

\* The chain grows; the indexer never lags more than MaxLag behind.
Mine ==
  /\ tip < MaxBlock
  /\ tip - last < MaxLag
  /\ tip' = tip + 1
  /\ UNCHANGED <<tables, last, phase, target, todo, cur, pend, faultsLeft>>

\* A tick with new blocks fetches its window's logs.
StartTick ==
  /\ phase = "idle"
  /\ last < tip
  /\ phase' = "scan"
  /\ target' = tip
  /\ todo' = FetchedLogs
  /\ cur' = 0
  /\ UNCHANGED <<tables, last, tip, pend, faultsLeft>>

\* The same, the answer coming from a racer that returns [] without error.
StartTickLied ==
  /\ phase = "idle"
  /\ last < tip
  /\ Spend("GetLogs")
  /\ phase' = "scan"
  /\ target' = tip
  /\ todo' = {}
  /\ cur' = 0
  /\ UNCHANGED <<tables, last, tip, pend>>

\* Variant: groups in the order of Go's map iteration.
NextGroupAny(b) ==
  /\ phase = "scan"
  /\ pend = 0
  /\ \A l \in todo : History[l].block # cur
  /\ \E l \in todo : History[l].block = b

\* The next block group: no log of the current block is left.
NextGroup(b) ==
  /\ phase = "scan"
  /\ pend = 0
  /\ \A l \in todo : History[l].block # cur
  /\ \E l \in todo : History[l].block = b
  /\ \A l \in todo : b <= History[l].block

\* GetBlock answers: the handlers of the block's logs may run.
FetchBlock ==
  /\ \E l \in todo : NextGroup(History[l].block) /\ cur' = History[l].block
  /\ UNCHANGED <<tables, loop, todo, pend, faultsLeft>>

\* GetBlock fails: the scan goes on with the next block.
SkipBlock ==
  /\ \E l \in todo :
       /\ NextGroup(History[l].block)
       /\ todo' = {m \in todo : History[m].block # History[l].block}
  /\ Spend("GetBlock")
  /\ UNCHANGED <<tables, loop, cur, pend>>
-----------------------------------------------------------------------------
\* A handler that writes nothing has run.
Handled(l) ==
  /\ todo' = todo \ {l}
  /\ UNCHANGED <<loop, cur>>

FreshRow(l, complete) ==
  [size |-> History[l].size, filled |-> 0, bids |-> 0, acq |-> 0,
   status |-> "Active", complete |-> complete]

\* Variants: the backfill writes a fresh row, or a fresh status.
BackfilledAsFresh(l, row) == FreshRow(l, TRUE)

BackfilledActive(l, row) ==
  [row EXCEPT !.status = "Active", !.complete = TRUE]

\* The row rebuilt from the log and the position, with the existing row's
\* bid-derived columns.
BackfilledRow(l, row) ==
  [size |-> History[l].size, filled |-> row.filled, bids |-> row.bids,
   acq |-> row.acq, status |-> row.status, complete |-> TRUE]

\* Variant: any existing row is taken for populated.
StartedAgainAny(l) ==
  /\ Current(l)
  /\ History[l].kind = "Started"
  /\ History[l].chal \in DOMAIN chals
  /\ Handled(l)
  /\ UNCHANGED <<tables, pend, faultsLeft>>

\* handleStarted on a fully populated row.
StartedAgain(l) ==
  /\ Current(l)
  /\ History[l].kind = "Started"
  /\ History[l].chal \in DOMAIN chals
  /\ chals[History[l].chal].complete
  /\ Handled(l)
  /\ UNCHANGED <<tables, pend, faultsLeft>>

\* handleStarted on a row an earlier scan left without price or period.
StartedBackfill(l) ==
  LET c == History[l].chal
  IN  /\ Current(l)
      /\ History[l].kind = "Started"
      /\ c \in DOMAIN chals
      /\ ~chals[c].complete
      /\ \/ /\ chals' = Upsert(chals, c, BackfilledRow(l, chals[c]))
            /\ UNCHANGED faultsLeft
         \/ /\ Spend("HydratePosition")
            /\ UNCHANGED chals
      /\ Handled(l)
      /\ UNCHANGED <<bids, pend>>

\* handleStarted with no row at hand, because there is none or because
\* GetChallenge fails and its error is dropped; with the position or, when it
\* is not in its table nor hydrates, without price and period.
StartedFresh(l, isRead, hasPosition) ==
  LET c == History[l].chal
  IN  /\ Current(l)
      /\ History[l].kind = "Started"
      /\ isRead => c \notin DOMAIN chals
      /\ \/ isRead /\ hasPosition /\ UNCHANGED faultsLeft
         \/ isRead /\ ~hasPosition /\ Spend("HydratePosition")
         \/ ~isRead /\ hasPosition /\ Spend("GetChallenge")
         \/ /\ ~isRead /\ ~hasPosition
            /\ SpendBoth("GetChallenge", "HydratePosition")
      /\ chals' = Upsert(chals, c, FreshRow(l, hasPosition))
      /\ Handled(l)
      /\ UNCHANGED <<bids, pend>>

\* The challenge is unknown.
StartedNew(l) == StartedFresh(l, TRUE, TRUE) \/ StartedFresh(l, TRUE, FALSE)

\* It may be known: its row is replaced, in the second case by a blank one.
StartedUnread(l) ==
  StartedFresh(l, FALSE, TRUE) \/ StartedFresh(l, FALSE, FALSE)

\* A handler returns an error before its first write takes effect: the read
\* of a bid handler's row, or the UPSERT of the challenge row.
HandlerFails(l) ==
  /\ Current(l)
  /\ \/ Spend("UpsertChallenge")
     \/ Spend("GetChallenge") /\ l \in BidLogs
  /\ Handled(l)
  /\ UNCHANGED <<tables, pend>>
-----------------------------------------------------------------------------
FinalStatusName(kind) == IF kind = "Averted" THEN "Averted" ELSE "Success"

\* Variant: a challenge filled exactly is still open.
StatusStrict(l, row) ==
  IF row.filled + History[l].size > row.size
    THEN FinalStatusName(History[l].kind) ELSE row.status

StatusAfter(l, row) ==
  IF row.filled + History[l].size >= row.size
    THEN FinalStatusName(History[l].kind) ELSE row.status

\* What a bid log adds to its challenge's row.
CountedRow(l, row) ==
  [size |-> row.size, filled |-> row.filled + History[l].size,
   bids |-> row.bids + 1, acq |-> row.acq + History[l].acq,
   status |-> StatusAfter(l, row), complete |-> row.complete]

\* handleAverted and handleSucceeded on a log that has its bid row, or on a
\* challenge nobody opened (an error the scan logs).
BidSkip(l) ==
  /\ Current(l)
  /\ l \in BidLogs
  /\ Seen(l) \/ History[l].chal \notin DOMAIN chals
  /\ Handled(l)
  /\ UNCHANGED <<tables, pend, faultsLeft>>

\* The first write: the challenge row advances.
Count(l) ==
  LET c == History[l].chal
  IN  /\ chals' = Upsert(chals, c, CountedRow(l, chals[c]))
      /\ pend' = l
      /\ Handled(l)
      /\ UNCHANGED bids

\* The log has no bid row, or the idempotency SELECT fails and its error is
\* dropped, so that a log which has one counts again.
BidCount(l) ==
  /\ Current(l)
  /\ l \in BidLogs
  /\ \/ ~Seen(l) /\ UNCHANGED faultsLeft
     \/ Spend("BidExistsByLog")
  /\ History[l].chal \in DOMAIN chals
  /\ Count(l)

\* Variant: the row carries no logIndex, like the bids of the bootstrap.
BidRowNoIndex(l) ==
  [key |-> <<History[l].tx, 0>>, kind |-> History[l].kind,
   filled |-> History[l].size, size |-> chals[History[l].chal].size,
   priced |-> TRUE]

\* An Averted bid is priced from the row's liqPrice, "0" when it has none; a
\* Succeeded bid carries its price.  size is the row's challengeSize.
BidRow(l) ==
  LET e == History[l]
      row == chals[e.chal]
  IN  [key    |-> Key(l),
       kind   |-> e.kind,
       filled |-> IF e.kind = "Averted" THEN e.size ELSE e.acq,
       size   |-> IF e.kind = "Averted" THEN row.size ELSE e.size,
       priced |-> e.kind = "Succeeded" \/ row.complete]

\* bidIDApi: challenge and 0-indexed number of the bid within it.
BidId(l) == <<History[l].chal, chals[History[l].chal].bids - 1>>

\* The second write: the bid row, which marks the log as done.
StoreBid ==
  /\ pend # 0
  /\ bids' = Upsert(bids, BidId(pend), BidRow(pend))
  /\ pend' = 0
  /\ UNCHANGED <<chals, loop, todo, cur, faultsLeft>>

\* UpsertBid fails: the error is logged, the challenge row stays advanced.
StoreBidFails ==
  /\ pend # 0
  /\ Spend("UpsertBid")
  /\ pend' = 0
  /\ UNCHANGED <<tables, loop, todo, cur>>
-----------------------------------------------------------------------------
\* The window is done: last_block moves to the tick's target.
Commit ==
  /\ phase = "scan"
  /\ todo = {} /\ pend = 0
  /\ phase' = "idle"
  /\ \/ last' = target /\ UNCHANGED faultsLeft
     \/ Spend("SetLastBlock") /\ UNCHANGED last
  /\ UNCHANGED <<tables, tip, target, todo, cur, pend>>

\* The process ends and starts again: only the tables and last_block stay.
Restart ==
  /\ phase = "scan"
  /\ IF pend = 0 THEN Spend("stop") ELSE Spend("kill")
  /\ phase' = "idle"
  /\ todo' = {} /\ cur' = 0 /\ pend' = 0
  /\ UNCHANGED <<tables, last, tip, target>>

Handle(l) ==
  \/ StartedAgain(l) \/ StartedBackfill(l) \/ StartedNew(l)
  \/ StartedUnread(l)
  \/ HandlerFails(l)
  \/ BidSkip(l) \/ BidCount(l)

Scan ==
  \/ StartTick \/ StartTickLied \/ FetchBlock \/ SkipBlock
  \/ \E l \in Logs : Handle(l)
  \/ StoreBid \/ StoreBidFails
  \/ Commit

\* The bounded chain has ended and all of it is scanned: ticks do nothing.
Idle ==
  /\ phase = "idle" /\ last = tip /\ tip = MaxBlock
  /\ UNCHANGED vars

Next == Mine \/ Scan \/ Restart \/ Idle

Spec == Init /\ [][Next]_vars

\* The ticker fires and the scan loop runs on; the chain keeps growing.
FairSpec == Spec /\ WF_vars(Scan) /\ WF_vars(Mine)
-----------------------------------------------------------------------------
Row == [size: Nat, filled: Nat, bids: Nat, acq: Nat,
        status: {"Active", "Averted", "Success"}, complete: BOOLEAN]
Bid == [key: Nat \X Nat, kind: Kinds, filled: Nat, size: Nat, priced: BOOLEAN]

TablesOK ==
  /\ DOMAIN chals \subseteq Challenges /\ chals \in [DOMAIN chals -> Row]
  /\ DOMAIN bids \subseteq Challenges \X Nat /\ bids \in [DOMAIN bids -> Bid]

LoopOK ==
  /\ last \in Nat /\ tip \in Nat /\ target \in Nat
  /\ last <= target /\ target <= tip
  /\ phase \in {"idle", "scan"}
  /\ todo \subseteq Logs /\ cur \in Nat /\ faultsLeft \in Nat
  /\ phase = "idle" => todo = {}

PendOK ==
  /\ pend \in BidLogs \cup {0}
  /\ pend # 0 => /\ phase = "scan"
                 /\ History[pend].chal \in DOMAIN chals
                 /\ chals[History[pend].chal].bids > 0

\* Every variable has its type; between ticks nothing is in flight, and a
\* counted log waits for its bid row only while its challenge is known.
TypeOK == TablesOK /\ LoopOK /\ PendOK

\* Two bid rows never stand for the same on-chain log, and a log between
\* its two writes has no row yet ("a given on-chain log produces exactly one
\* bid"): the lookup by (txHash, logIndex) against the id by bid number.
OneBidPerLog ==
  /\ \A b, d \in DOMAIN bids : bids[b].key = bids[d].key => b = d
  /\ pend # 0 => ~Seen(pend)

\* Bid ids stay below their challenge's Bids counter, so that the next id
\* handed out is always new: why UpsertBid never hits its ON CONFLICT.
BidNumbersBelowCount ==
  \A b \in DOMAIN bids :
    /\ b[1] \in DOMAIN chals
    /\ b[2] < chals[b[1]].bids
    /\ pend # 0 /\ History[pend].chal = b[1] => b[2] < chals[b[1]].bids - 1

\* A row exists only for a challenge the hub announced, and its size stays
\* the announced one whatever the bids take from it.
RowsOpened ==
  \A c \in DOMAIN chals :
    \E l \in Logs \ BidLogs : /\ History[l].chal = c
                             /\ History[l].size = chals[c].size

\* Logs whose bid row is stored, or about to be.
Applied == {l \in BidLogs : Seen(l) \/ l = pend}

\* The totals of a challenge row are those of the logs applied to it: the
\* rescans of the overlap add nothing and lose nothing.
TotalsMatchBids ==
  \A c \in DOMAIN chals :
    LET own == Applied \cap BidLogsOf(c)
    IN  /\ chals[c].bids = Cardinality(own)
        /\ chals[c].filled = MapThenSumSet(LAMBDA l : History[l].size, own)
        /\ chals[c].acq = MapThenSumSet(LAMBDA l : History[l].acq, own)

\* "partial fills and final status flip happen in the right order": the
\* status of a closed challenge is that of its last log in chain order.
FinalStatusInOrder ==
  \A c \in DOMAIN chals :
    chals[c].status # "Active" =>
      \E l \in BidLogsOf(c) :
        /\ chals[c].status = FinalStatusName(History[l].kind)
        /\ \A m \in BidLogsOf(c) \ {l} : Before(m, l)

\* A log leaves the re-scan window only once its bid row is stored: a fault
\* in one tick is made good by a later one.
NoLogLeftBehind ==
  \A l \in BidLogs : History[l].block + Overlap <= last => Seen(l)

\* "so cur.Bids/FilledSize don't advance twice": a challenge row has at most
\* as many bids as the hub emitted for it.
AdvancedOnce ==
  \A c \in DOMAIN chals : chals[c].bids <= Cardinality(BidLogsOf(c))

\* No step rewrites or drops a stored bid.
BidRowKept ==
  \A b \in DOMAIN bids : b \in DOMAIN bids' /\ bids'[b] = bids[b]
BidRowsKept == [][BidRowKept]_vars

\* handleStarted "must NOT clobber Bids / FilledSize / Status": no step takes
\* back what the bids of a challenge have added to it, nor empties a row that
\* was fully populated.
Progress ==
  \A c \in DOMAIN chals :
    /\ c \in DOMAIN chals'
    /\ chals'[c].size = chals[c].size
    /\ chals'[c].bids >= chals[c].bids
    /\ chals'[c].filled >= chals[c].filled
    /\ chals'[c].acq >= chals[c].acq
    /\ chals[c].complete => chals'[c].complete
    /\ chals[c].status # "Active" => chals'[c].status # "Active"
ProgressKept == [][Progress]_vars

\* Each log is applied exactly once: the abstract book of the challenges.
BookRow(row) == [size |-> row.size, filled |-> row.filled,
                 acq |-> row.acq, status |-> row.status]
BookOf == [c \in DOMAIN chals |-> BookRow(chals[c])]

Book == INSTANCE ChallengeBook WITH book <- BookOf, applied <- Applied
ImplementsBook == Book!Spec

\* Whatever failed, every bid the hub emitted ends up in the bids table.
EveryLogRecorded == <>[](\A l \in BidLogs : Seen(l))
=============================================================================
