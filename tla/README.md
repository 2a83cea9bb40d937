# zchf-grenadier, specified in TLA+

zchf-grenadier is one Go process that keeps a copy of the Frankencoin V2 state
in SQLite and serves it over HTTP. It reads the chain through a balancer that
races several public RPC endpoints, seeds its tables from peers, and refreshes
some of them from peers on a ticker. Paths below are relative to the repository.

This directory holds TLA+ models of its stateful parts, TLC configurations that
check them on small instances, and proofs that TLAPS checks for every value of
the constants. `PROJECT.json` is the index: components, runs, the mutations each
property is tried against, the source lines of each definition, the divergences
found, the hazards and the theorems.

    tlc -config scan_book.cfg MCChallengeScan.tla
    tlapm ChallengeScan_proofs.tla

## 1. The system

| component | source | state | operations | model |
|---|---|---|---|---|
| tick loop | `src/indexer/loop.go` | `meta.last_block`, `known`, `knownDirty` | `tick`, `KnownAddresses` | TickLoop |
| position bootstrap | `src/indexer/bootstrap.go` | `positions`, `last_block` | `Bootstrap` | TickLoop, PositionRows |
| discovery, refresh | `src/indexer/discover.go`, `refresh.go`, `getlogs_chunked.go` | `positions` | `Discover`, `Refresh` | TickLoop, PositionRows |
| position store | `src/store/store.go` | `positions`, `meta` | `Upsert` (a merge), `BulkUpsert` | PositionRows, TickLoop |
| challenge indexer | `src/indexer/challenges.go` | `challenges`, `bids` | `ScanChallenges`, three handlers | ChallengeScan, ChallengeBook |
| challenge bootstrap | `src/indexer/bootstrap_challenges.go` | the same, a marker | `BootstrapChallenges` | ChallengeBoot |
| challenge store | `src/store/challenges.go` | the two tables | upserts, `GetChallenge`, `BidExistsByLog` | ChallengeScan, ChallengeBoot |
| governance refresh | `src/indexer/bootstrap_governance.go`, `sources.go` | five tables | `refreshGovernanceOnce`, four sources | Governance |
| governance store | `src/store/governance.go` | five tables | `BulkUpsert*` | Governance |
| price cache | `src/chain/prices.go` | `bySymbol`, `lastFill`, `inflight` | `Get`, `All`, `refresh` | PriceCache |
| RPC response cache | `src/transport/balanced.go` | `cache`, `sf`, `lastBlock` | `CallRaw`, `putCache`, `recordBlockResp` | RpcCache |
| RPC races | `src/transport/balanced.go` | wins, breakers, sticky endpoint | races, drainers | RpcRace, in part |
| multicall | `src/chain/multicall.go` | none | encode, decode | Aggregate3 (decoder) |
| hydration, client | `src/chain/hydrate.go`, `client.go`, `abi.go` | a metadata cache | `HydratePosition`, `BlockNumber`, `GetLogs` | PositionRows, RpcCache, in part |
| curated lists | `src/store/curate.go` | none | `Curate`, `Monitored` | PositionRows (`Monitored`) |
| HTTP API, NEAR proxy | `src/api` | none of their own | read-only handlers | not modelled |
| process | `src/main.go`, `src/config/config.go` | none | bootstraps, loops, shutdown | as starts and restarts |

How they interact. `main.run` seeds positions and challenges, runs the first
governance refresh, starts the indexer's goroutine, the governance goroutine and
the HTTP server. A tick of the indexer asks the balancer for the head and, chunk
by chunk, calls Discover, Refresh and ScanChallenges; these ask for logs and
hydrate positions through `chain.Client`, which goes through the balancer, and
write to the store, one transaction per call. HTTP handlers read the store and
call the price cache, each in a goroutine of its own. The balancer is shared by
the indexer and the requests; nothing else but SQLite is shared between loops.

What is hard about it:

- **Rescans.** Every tick scans the last 300 blocks again, on purpose: an
  endpoint that answers `[]` must not cost a log. So each log is handled many
  times, and must count once.
- **Two writes per log, two per seed, two per leadrate.** Each is a transaction;
  the pair is not. On a signal `run` returns without waiting for the indexer
  (`src/main.go:123-130`), so a pair can be cut.
- **Dropped errors.** The scan logs a handler's error and goes on, some handlers,
  the seed and Upsert drop the error of a SELECT, and `last_block` moves all the same.
- **Answers that lag or lie.** Heads and peers' lists may be old, an empty
  answer may be false, and the mirror that is asked first may never be renewed.
- **Reads at "latest".** Discover and Refresh go by the block of an event, but
  hydrate at whatever block the endpoint that won is at, in no order, and Upsert
  merges the result with a row that an earlier or later read has left.
- **Two writers of one table.** The seed and the scan both write challenges and
  bids; the window of the first scan reaches back behind the seed.
- **Overlap in time.** Requests meet in the price cache; races of several
  callers and the drainers of earlier races meet in the balancer's records.

The full list, each at its line, is under "hazards" in `PROJECT.json`.

What makes each part correct, in one line: a log counts once and ends up
recorded (challenges); the seed loses no challenge, whatever cuts or repeats it (challenge
bootstrap); `last_block` never claims a block that was not covered, never moves
back and gets on (tick loop); no row is older than a log that was passed, what
is monitored is alive and what is alive is monitored (positions); one fetch at a
time, nobody stranded, nothing goes back (prices); nothing from before a purge
is served after it, one race per miss (response cache); only earned wins promote
and only own failures are punished, every call returns (races); a failed source
leaves its table, pairs match, all the other sources get what is served (governance).

## 2. Modules

`*_proofs` modules hold theorems and extend the module they are about; `MC*`
modules give constants that a .cfg cannot write. Definitions marked "Variant" are
no part of a specification: each is a definition as a slip in the code
would make it (a lookup forgotten, a window without overlap, a missing reset),
and a property is only kept if some variant breaks it; `PROJECT.json`, "mutants",
has the pairs.

### ChallengeScan, ChallengeBook, MCChallengeScan

ChallengeScan is `ScanChallenges` on top of the two tables. `History` is the
chain's sequence of hub events, with block, transaction and log index;
`chals` and `bids` are the tables, `last` is `last_block`; `phase`, `target`,
`todo`, `cur` and `pend` are the local state of a tick under way.

| action | code |
|---|---|
| StartTick, StartTickLied | the window of `tick`, the fetch and sort of `ScanChallenges`; Lied: a racer's `[]` |
| FetchBlock, SkipBlock | the block's timestamp and senders, or the `continue` when `GetBlock` fails |
| StartedAgain, StartedBackfill | `handleStarted` on a full, an incomplete row |
| StartedFresh | the same with no row at hand (StartedNew: there is none, StartedUnread: `GetChallenge` failed), with the position or without |
| BidSkip | `handleAverted`, `handleSucceeded` on a log already recorded or without row |
| BidCount, then StoreBid | their two writes, `UpsertChallenge` and `UpsertBid`, on a new log or one that `BidExistsByLog` could not look up |
| HandlerFails, StoreBidFails | an error of the first, of the second write |
| Commit | `SetLastBlock`, which may fail |
| Restart | the process ends (between handlers: "stop", inside one: "kill") and starts from the tables |

A row keeps what bids change (size, filled, number of bids, acquired collateral,
status) and `complete`: price and period are there. `priced` in a bid row says the
same of the bid's price. Big integers are small naturals; times, names and
owners are left out, no property depends on them. `Faults` names the calls that
may fail in a run and `MaxFaults` bounds how often.

ChallengeBook is the abstract specification: a book of challenges in which each
log is opened or applied at most once. The refinement maps the book to the rows
without `complete` and without the counter of bids, and `applied` to the logs
that are stored or between their writes.

### ChallengeBoot, MCChallengeBoot

ChallengeBoot extends ChallengeScan by the start of the process: its own
variables are the `meta` marker, how far `BootstrapChallenges` is, and the heights
of the two lists at hand. `PeerChals[h]` and `PeerBids[h]` are what a peer serves
that has indexed the chain up to h; the two requests may be answered by peers of
different heights, and those need not be at `last_block`.

| action | code |
|---|---|
| AlreadySeeded, StartSeed | the marker is set, return (line 80), or it is not, or `GetMeta` failed and its error is dropped |
| FetchChallenges, FetchChallengesFails | the head and the first peer's list, or a return without marker |
| FetchBids | the official API's bids, or none |
| StoreChals, StoreSeedBids, Mark | the three writes; after a failure of one the rest is not done |
| StopOutsideTick, StopInTick | the process ends in the bootstrap or between ticks, inside a tick |
| Tick | a step of ChallengeScan's tick, whatever became of the seed |

`blanked` is history: the challenges whose row was written last
by StartedFresh with neither row nor position.
`convertBid` is modelled by what it does to the key of a bid: the logIndex is 0.
As in ChallengeScan, `Base` is `last_block` at the first start: positions are
seeded before challenges.

### TickLoop, MCTickLoop

The loop around the stages. `positions` and `last` are the tables, `known` and
`dirty` the cache that Refresh filters by, `proc` says where the process is:
in Bootstrap (`boot`, and `mark` between its two writes), between ticks, or in a
stage. `scanned` is a history variable: blocks a peer's list covered or all
three stages were asked for. A stage answers for the chunk `from .. ChunkTo` or
fails and ends the tick; ChallengeScan has the inside of the third. DiscoverLied
is the answer `[]` of a racer that has not got the logs (`loop.go:17-23`): nothing
is stored and the tick goes on.

BootSeed lets the list of the peer be up to `PeerLag` blocks old, and the head
that is read afterwards up to `HeadLag`; StartTick lets its head be as old, older
than `last_block` too, which is where the early return of `tick` matters.
Discover may lose any subset of the positions to hydration. Mine holds the chain
back while `last_block` is `MaxLag` behind: `MaxLag` is what a tick, or the time
the process is down, may cost.

### PositionRows, MCPositionRows

The rows of `positions` against the state of the positions on the chain. The
chain mines blocks with logs (a trade, a forced sale, a denial) that change a
position's balance or close it. A row keeps `asOf`, the block its fields were
read at; it stands for the fields that every hydration replaces, so that
"older than a log" can be said. `closed` and `collateral` are kept apart, and so
are the fields on which Upsert has a say: `denied`, which is only ever added;
`api`, for those that hydration does not read; `created`, which Refresh leaves
empty; and the balance, which is kept when the new one is 0.

| action | code |
|---|---|
| BootSeed, BootResume | `Bootstrap` with an empty table, with a full one |
| StartTick, DiscoverOne | `Discover`: the logs of the window in order, each hydrated and upserted |
| StartRefresh, RefreshOne | `Refresh`: the known positions its topics touch, in map order |
| StartTickLied, StartRefreshLied | the same two with a racer's `[]`: nothing to do, and `last_block` moves on |
| HydrateFails | a position that cannot be hydrated is passed over |
| StageFails, Commit, Restart | as in TickLoop, with one chunk |

A read is answered as of any block from `head - Lag` on. The balance is a call
of its own whose failure leaves it 0. Upsert's own read of the old row
(`getPositionLocked`) may fail or not decode, which it takes for no row: then
nothing is carried forward. `Monitored` is the query behind
`/positions/monitored`. History are `seedAt`; `blind`, the positions without a
balance since `balanceOf` failed with none known or none readable; and `unmerged`,
those whose row was replaced unread the last time.

### PriceCache

A step is one critical section of `pc.mu` or one wait. A channel is the number
of the fetch it was made for, so `closed` is a set of numbers. Clients are
request goroutines; GetHit, GetMiss and All are the entries, Claim and Join the
two ways through `refresh`, FetchOk and FetchFails the end of a fetch, Release
the deferred block, Wake and GiveUp the end of a wait, Answer the second look
at the table. `stamped`, `soon` and `unlisted` are history.

### RpcRace

A call is up to `MaxRetries` races. A race picks its racers (`Picks`, any sample of
the fanout's size), its goroutines end in any order (RequestEnds), and the caller
takes results until the first success (Win) or the last failure (Loss). After a win
the rest is left to a drainer (Drain, DrainerEnds), which goes on while its caller
starts other races. RecordWin and RecordFail are `recordWin` and `recordFail`. Time
is kept as what it decides: a breaker is zero, open or past; whether a failure opens
it (a rate limit, a high error average) is a choice. `started` is `len(racers)` and
`taken` the loop's `i`, from which the drainer's count is computed as in the code;
what is still to come is in `racers`, which the code does not count. `streak` is
history.

### RpcCache

What is in front of the races; a race is here one step that answers, from an
endpoint that may lag, or fails. A caller looks into the cache (Call), leads or
joins a flight (Do); the leader looks again (RecheckHit, RecheckMiss), races
(Answer, RaceFails), for `eth_blockNumber` records the block under one mutex
(Record) and purges under another (Purge), and stores (Put). BlockNumberSeen is
`Client.BlockNumber` answering from LastSeenBlock. `Kept` is what `putCache` may
leave of a full cache: map order decides. An entry's `stored` and a caller's
`since` count purges and are history, and so is
`served`, the callers for whose key an answer was cached while they were between
their miss and their flight. Time passes only while everyone waits for
the network.

### Governance

Per source: the peer it asks, what has come, how many of its tables are
replaced, its outcome. A table's rows are the version of the truth they show.
leadrate has two tables, which a grenadier peer sends at once and the official
API from two endpoints; they are replaced in two transactions. Peers are tried
in order, except that minters are decoded and stored after the choice of the
peer, without a second chance (GiveUp). `mirror` is what the grenadier peer
serves: any older version, at first the empty table. It may take the truth and
need not: it runs this program, whose first peer is that mirror itself
(`sources.go:52-53`). `by` is history.

### Aggregate3

The answer of `aggregate3` is encoded as the ABI says, and decoded byte by byte
as `decodeAggregate3Result` does, because a wrong offset points between words.

## 3. Runs

All run within a minute and a half.

| run | asks | properties |
|---|---|---|
| scan_book | do rescans, failed ticks and restarts between handlers leave each log counted once, in order? | TotalsMatchBids, FinalStatusInOrder, ImplementsBook |
| scan_crash | what survives a kill between two writes, a skipped block, a failed write? | OneBidPerLog, NoLogLeftBehind, BidRowsKept, ProgressKept, EveryLogRecorded |
| scan_seeded | wherever the seed is cut or repeated and whichever call fails: is the history complete, no bid without its challenge for good, and every row priced in the end? | AnnouncedKnown, OrphansAwaited, SeededRowsCompleted |
| tick_loop | does `last_block` claim only what was covered, move, and only forward; does the overlap make up for `[]` and failures; is the cache the table? | MarkerCovered, NoPositionMissed, KnownFresh, MarkerForward, CatchesUp |
| position_rows | do hydrations in any order, from endpoints that lag and with failing and false answers, leave rows that are current and a list that is right? | EventsRead, VetoedUnlisted, AliveListed, SeedKept |
| price_cache | do overlapping requests over a slow or dead upstream stay safe and get served? | OneFlight, NobodyStranded, RetryAfterTTL, TableForward, Served |
| rpc_race | are wins and failures recorded soundly while races and drainers overlap? | StickyEarned, StickyHealthy, DrainerCounts, OnlyFailuresPunished, CallsReturn, RacesEnd |
| rpc_cache | do purges, flights and a full cache keep answers young and callers answered? | ServedSincePurge, RaceOnce, EntriesBounded, HeadNear, CallsAnswered |
| governance | do failing, lagging and half-answering peers and crashes leave the tables sound? | PairOfOnePeer, FailedUntouched, OnlyMirrorsGoBack, CatchesUp |
| v_seeded_twice, v_sold, v_aggregate | each refutes one statement of a comment, see section 6 | AdvancedOnce, SoldUnlisted, AnswerDecoded |

Each stateful component's type invariant is proved for every value of the constants
(section 4), so the runs are kept for what the proofs do not have or rest on.

The bounds, and why they are enough:

- *Scan.* Two challenges, six logs in three blocks: two bids of one transaction,
  bids of two challenges in one block, a challenge opened in the block of another
  one's bid, a bid that fills its challenge exactly, one that opens and closes it
  at once. A third challenge would not touch the rows of the other two. Overlap 2
  or 4 blocks for 300; scan_crash has `Overlap >= MaxLag * MaxFaults`, so that two
  spoilt ticks in a row still leave the log in the window of a third. That is the
  relation the code relies on: 300 blocks are an hour, a tick comes every
  12 s. Where it fails, a log is lost; section 6 says when. scan_book leaves
  out "kill", "UpsertBid" and "GetBlock", because its properties are about
  what holds between such accidents, and scan_crash brings them back for the
  properties that survive them.
- *Seed.* A challenge that opens and is averted before `last_block`, in the first
  window (Overlap 3), one that opens after it, and a transaction that finishes both.
  A peer may be one block behind or ahead. Every call of the bootstrap and of the
  scan may fail, the three SELECTs included, twice in all: enough for a seed that is
  cut and a second one that is cut elsewhere, for a restart whose read of the marker
  fails, for a failed seed and a failing scan, or for a ChallengeStarted whose row
  and position are both unread. v_seeded_twice has no faults at all.
- *Position rows.* Two positions opened in different blocks, Overlap 3, Depth 1 and
  Lag 1 for 300, 5 and what endpoints lag, PeerLag and MaxLag 1, two logs of any
  kind, balances 0 and 1 (the code compares with "0" only), two faults of any kind,
  `[]` and a failed read of the old row included. The overlap is just what these can
  delay, `PeerLag + MaxLag * MaxFaults`. With an overlap of 1 TLC finds a violation.
  Two logs suffice for a read that is newer than one log and older than the next,
  and for a window that meets a log twice.
- *Tick loop.* Chunks of 2 blocks (`MaxRange` 1, both ends inclusive), windows of
  several chunks, a position before the seed, one in the seed's lag, one after.
  PeerLag 1, MaxLag 3, two faults and Overlap 7, which is again just
  `PeerLag + MaxLag * MaxFaults`: with one block less TLC finds a position lost.
  `WindowAssumption`: the chain is older than the overlap, and a peer's list lags
  by no more than the overlap.
- *Price cache.* Two goroutines, four requests, a TTL of 2 ticks in 4 of time:
  a table expires while a fetch flies. One symbol suffices, it is listed or not.
- *Races.* Two endpoints, two callers, two races under way, three calls of up to
  two attempts: a drainer of each race can meet a later race of each caller.
  `PromoteWins` is 2.
- *Response cache.* Two callers, a key of each kind (the head, one that a block
  changes, one that none does), room for two entries, so that the third evicts.
  `TTL` 1 and `HeadMaxAge` 2: an entry can expire while LastSeenBlock is good, and
  both within the clock's 3. Three calls: one whose race is on while the others'
  answers purge and fill the cache.
- *Governance.* Two versions of the truth, two faults, a source for each kind of
  storing (one step, two tables, ponder); delegations is broken for good. holders
  goes the way of delegations.

Deadlock is checked in every run: where the bounded instance has nothing left to
do (the chain has ended, the last call has returned) an explicit stuttering action
(Idle, Quiet, Done) says so, and any other stop would be reported.

Fairness. In each case it is what the code's scheduling gives:

- Scan, tick loop: goroutines run on and the ticker fires (`WF` of the scan and of
  the stages); the chain grows (`WF(Mine)`). For CatchesUp a tick is also told,
  now and then, the newest head: races are won by the fastest endpoint of a random
  sample. Failures need no fairness, they are finite by MaxFaults; that is
  the meaning of "after finitely many failures". A restart counts as one.
- Price cache: goroutines run on, the HTTP client's timeout ends every fetch. A
  request's context need never be done, so Served does not rest on GiveUp.
- Seed: as the scan; the bootstrap has time limits and returns. Every call of it
  may fail, which SeededRowsCompleted lets happen finitely often.
- Response cache: a flight goes on and its race ends by its budget. Not fair:
  calls and time.
- Races: every request ends by its context, goroutines run on. Not fair: attempt
  timeouts, breakers, sticky TTL.
- Governance: ticker and timeouts. Not fair: that the mirror takes the truth;
  nothing in this code makes it.

## 4. Proofs

Each `_proofs` module proves its component's safety for every value of the
constants, from their assumptions (History is a sequence of events with unique
(transaction, logIndex); a challenge is started once; an averted log acquires
nothing; windows and lags as in section 3; endpoints are finite).

| theorem | says | further assumption |
|---|---|---|
| ChallengeScan_proofs: TypeCorrect | types | none |
| BidsUnique, BidNumbersSound, BidsKept, ProgressNeverLost | one row per log, fresh ids, no row rewritten, no progress lost | SoundReads: the two SELECTs whose errors are dropped do not fail |
| BookImplemented, TotalsAreOfBids | ChallengeScan implements ChallengeBook; a row's totals are the sums over the logs applied to it | WritesComplete: also no kill or failure between the two writes |
| ScanAdvancesOnce | no row counts more bids than the hub emitted (AdvancedOnce, which v_seeded_twice refutes, for the scan without the seed) | WritesComplete; a challenge has finitely many bids |
| FinalStatusOrdered | the status of a closed challenge is that of its last bid | NoneSkipped: WritesComplete, and no `GetBlock` or `UpsertChallenge` fails; the overlap is not longer than the chain before the seed. HubInOrder: see below |
| NothingLeftBehind | no bid log leaves the window unrecorded | SoundReads; OverlapCovers: see below |
| ChallengeBoot_proofs: BootTypeCorrect | types, and no tick runs before the bootstrap returns | none |
| SeedComplete, OrphansAreAwaited | a marker means every challenge before the window is there; a bid without its challenge is of one that the next window announces | NearPeers: a peer lags by no more than the overlap, which reaches no further than the chain; StartsHandled: in a tick the logs, a block and `UpsertChallenge` do not fail |
| TickLoop_proofs: TypeCorrect, CacheFresh, MarkerNeverBack | types, cache is the table, `last_block` goes forward, but for a repeated seed | none |
| MarkerNeverAhead | all below `last_block - overlap` was covered | SeedAtomic: the seed is not cut between its writes |
| NoneMissed | no position there is missing | SeedAtomic; LagCovered: see below |
| PositionRows_proofs: TypeCorrect, SeedIsKept | types; only a write that could not read the old row loses what it held | none |
| EventsAreRead, VetoesUnlist, AliveAreListed | the other safety of position_rows | LagCovered: see below |
| PriceCache_proofs: TypeCorrect, SingleFlight, NoneStranded, RetriesSpaced, NewerRowsOnly | the safety of price_cache | none |
| RpcRace_proofs: TypeCorrect, StickyIsEarned, StickyIsHealthy, DrainersTakeAll, OnlyFailuresCount, NobodyWaits | the safety of rpc_race, and what its liveness needs of safety | none |
| RpcCache_proofs: TypeCorrect, CacheBounded, RacesOnce, ServesSincePurge, HeadIsNear, NobodyWaitsInVain | the safety of rpc_cache, and what its liveness needs of safety | none |
| Governance_proofs: TypeCorrect, PairsMatch, FailuresTouchNothing, OfficialNeverOlder | the safety of governance | none |

"None" means beyond the module's own ASSUMEs. Those that say something about
the world or the configuration: PositionRows, `WindowAssumption`, that an
endpoint lags by no more than `safetyDepth` and a peer's list by no more than the
overlap; RpcCache, that `CallTTL` is not above `blockCacheMaxAge` (`CacheAssumption`; they
are 2 s and 20 s) and `MaxCacheEntries` not below ten (`DropAssumption`).

LagCovered says that the overlap is as long as all the failures together can
delay a read, the lag of the seed's list included (`PeerLag + MaxLag * MaxFaults <=
Overlap`; in TickLoop also that a head lags by no more than `MaxLag`, and that
`safetyDepth` is not above the overlap). A racer's `[]` is such a failure; without
the hypothesis NoneMissed is false, as it is of the code: with an overlap shorter
by one TLC finds a position that is lost for good (section 6). Like OverlapCovers
it assumes nothing of when and where the failures strike.

OverlapCovers says that the overlap is as long as all the failures together can
delay a log (`MaxLag * MaxFaults <= Overlap <= Base + 1`; nothing but the budget is
assumed of when and where they strike), that the logs are newer than the seed, and
that the hub starts a challenge before its bids. HubInOrder says the last of these,
that no two logs share block and logIndex, and that the hub takes a bid only while
some of the challenge is left: what was bid before is less than its size. The
constants of scan_crash satisfy the first, those of scan_book the second.

NoneSkipped is as weak as it can be in its faults: with any single one of
"GetBlock", "UpsertChallenge", "kill", "UpsertBid", "GetChallenge" and
"BidExistsByLog" added to scan_book, TLC finds FinalStatusInOrder violated.

SeedAtomic and WritesComplete are necessary, see section 6: a stop between the two
writes of the seed leaves `last_block` unset, one between the two writes of a log
leaves a count without a row. So is StartsHandled: the scan moves `last_block`
over a block it skipped, and if the skips last as long as the window a
ChallengeStarted is lost.

The invariants the proofs rest on:

- *Scan.* OneBidPerLog is not inductive: a new row must not land on an old
  one's id. `IInv` adds BidNumbersBelowCount (ids in use are below the counter,
  strictly below while a log is between its writes), and RowsOpened, without
  which the backfill could change a row's size. For the book it is enough that a
  step adds to `applied` only a log that is not Seen.
- *Totals.* TotalsInv: finitely many logs are applied, only to challenges with a
  row, and the row's totals are their sums. A sum is a fold, which takes its
  elements in the order CHOOSE gives. What it does was shown without induction:
  the parts of a finite set on which a fold and an additive function differ have
  a smallest member (LEMMA Smallest), and in that
  one an element can be taken out. SizeSumFacts, SizeSumMonotone and AcqSumFacts are
  all the invariant needs of it.
- *Final status.* LateNever: if a bid is applied before an earlier one of its challenge,
  that one is behind the window for good. PassedUnopened: within a tick a bid is
  passed unapplied only if nothing has opened its challenge nor will in this tick.
  So what is applied when a bid fills its challenge came before it, and were
  another bid later, the hub would have taken it with nothing left: the sums up to
  it already reach the challenge's size.
- *Left behind.* Debt: a log that is not recorded is behind `last_block` by less
  than the failures so far can have delayed it (`Slack`, MaxLag for each), and if
  this tick's target is further ahead, the tick still has to handle it. A failure
  adds MaxLag to the slack, and a commit moves `last_block` by no more. A bid that
  is skipped because its challenge is unknown is paid for by the failure that lost
  the ChallengeStarted.
- *Seed.* AnnouncedKnown is not inductive, because the marker and `last_block` are
  both set late. ListReaches: the list at hand is no older than the window, and
  once it is stored OldKnown holds, that what no tick will fetch any more is in the
  table. Window: in a tick, what it fetched is in the table or still to do, so
  that OldKnown holds when `last_block` moves. OrphanInv: a bid is of a challenge
  that is known or whose announcement no tick has passed. No step deletes a row, so
  that a seed repeated by mistake takes back neither.
- *Tick loop.* CacheInv: the bootstrap writes only while the cache is dirty.
  ForwardInv: a tick under way aims past `last_block`, a seed not before it.
  CoverInv: while a tick runs, all before the chunk it is at is covered; then
  Commit needs no more than `from > target`. OwedInv: a missing position opened no
  further behind `last_block`, or behind the target once its chunk is passed, than
  the failures so far can have delayed it (`Delay`, MaxLag for each, and PeerLag for
  the seed); a failure pays for the tick that it spoils, and LagInv says that a tick
  moves `last_block` by no more than that.
- *Position rows.* ReadInv: a log that its row is too old for is behind `last_block`
  by less than the delay of the failures so far, and in a tick it is still to do or
  the target is no further ahead; FoundInv says the same of a position without row.
  A hydration is at `head - Lag` or later, which is not before `target`
  because Lag is at most Depth: so a read can go back, but not behind a log that
  was passed. ClosedInv: a row as old as a denial shows it; as Merge keeps
  neither `closed` nor `asOf`, the two go together. For AliveListed: a balance changes
  only where its position opens or emits a log (ChangeInv), nothing is older than its
  opening (OpenInv), and a row's empty balance was read at its block (TruthInv); so a
  row that shows 0 is of a position that was empty at some block since `last_block`,
  less that delay, or one that is `blind`.
- *Price cache.* FlightInv ties the channel in place to the one goroutine that
  flies, and its number to the table's; WaitInv ties waiters to channels;
  StampInv: a goroutine about to refresh has seen its own stamp expire.
- *Races.* EarnedInv: everyone but the sticky endpoint has no streak. SlotInv: a
  race belongs to one caller. Counts: `started - taken` is the number of results
  still to come, and a drainer's count is; `started` starts as the size of a sample
  (PicksCount) and every result taken adds one. AwaitInv: a race holds at least one
  racer (`Picks` are not empty, with every breaker open too) and no cancellation.
- *Response cache.* ServeInv: an entry that a block may change was stored after the
  last purge, and no caller has seen more purges than there were. NearInv: what is
  in the cache, in `lastBlock` or in a flight is behind the head by no more than the
  endpoint was plus the time since, a block a tick of the clock, and an entry lives
  no longer than LastSeenBlock. OnceInv: a flight that is past its second look has
  no fresh entry, so a caller that was overtaken finds the entry at its second look.
  Bounded: if `putCache` drops, it drops at least one.
- *Governance.* OutcomeInv and PairInv say where the rows of a source under way
  came from, VersionInv that what an official peer sent is not older than the
  table it will replace.

TLC agrees with each of these on the instances of section 3.

Model-checked only: all liveness (EveryLogRecorded, SeededRowsCompleted, CatchesUp
of both modules, Served, CallsReturn, RacesEnd, CallsAnswered), as TLAPS does not
reason about fairness and ENABLED here. Of what these rest on, the safety part is proved:
NoLogLeftBehind, AnnouncedKnown, NoneStranded, NobodyWaits, NobodyWaitsInVain.
Every safety property of a passing run is a theorem. Aggregate3, a decoder without
state, is checked on its answers.

## 5. Not modelled

- Formatting, JSON, HTTP, ABI decoding of single fields, SQL reads of the API.
- What a seed that is repeated over rows the ticks have advanced does to their
  counts is modelled, no property is about it: section 6 says what it undoes.
- Of the position rows: owner and `updated_block`, and the failure of single calls
  of a hydration but `balanceOf`. At most one log of a position per block. A
  peer's rows are taken for a true summary at its height.
- An endpoint that claims a block above the head: `last_block` would pass it, and
  nothing takes it back before the chain gets there. Heads here may lag, not lead.
- Scores: latency and error averages are only weights of a random sample, and
  the floating-point sums of `weightedSample` are left out.
- ponder's pages count as one answer of one version.
- That the first start ends the process when no peer answers.
- The framework's HTTP cache and rate limiter, and the NEAR proxy, which keeps
  no state.
- `Curate` and `Active`, which select by fields that the rows of the model do not
  have, and the encoder of multicall.

## 6. Where the code and its comments part

Shown by a run:

- **v_seeded_twice**: a bid from the API has no logIndex (`bootstrap_challenges.go:178`;
  `store/challenges.go:79-81` knows it), so `BidExistsByLog` does not find it. The
  first scan goes back 300 blocks behind the seed and counts every bid there again,
  which `challenges.go:213-216` excludes. No fault is needed, only a recent bid.
- **v_sold**: `Upsert` keeps the old balance when the new one is "0"
  (`store.go:173`), and 0 is what Refresh reads when the collateral was sold. The
  position stays monitored with a balance it does not have, though
  `refresh.go:19-22` has the topic for that very case.
- **v_aggregate**: the decoder takes the offset of the array (always 32) for its
  length (`src/chain/multicall.go:106`, its own comment at 94-95 gives the layout)
  and rejects the batches of 18, 1 and 3 that `hydrate.go` sends. As the code
  stands, hydration fails; the other modules treat hydration as a call that answers
  or fails a bounded number of times, and what they promise of positions is for the
  decoder repaired: with every hydration failing Discover stores nothing, no row is
  refreshed and a challenge row stays incomplete.

Read in the code while modelling, not shown by a run:

- *Challenges.* A kill between `UpsertChallenge` and `UpsertBid`
  (`challenges.go:250`, `:285`) makes the next scan count the log again, which the
  comment at 213-216 excludes; nothing repairs the row. A failed `GetChallenge` in
  `handleStarted` replaces a row by a fresh one (149), against "must NOT clobber"
  (144-145); a dropped error of `BidExistsByLog` (217) counts a log twice. This is
  why SoundReads is an assumption. If `GetPosition` and `HydratePosition` have no
  position either, the fresh row has no price and period although the old one had
  (149-192), and once the log is older than the overlap nothing completes it;
  SeededRowsCompleted excuses that row and no other. An averted bid handled while
  its row has no price keeps price "0" (257; 254-255 expects the price). A block
  that was skipped (81) is applied after later ones, so a final status may be
  another log's than the last one's (26-27 says the order is kept). The
  `challengeSize` of a succeeded bid is the bid's own size (371), that of an averted
  one the challenge's.
- *Challenge bootstrap.* After a seed that failed before the marker the ticks run
  all the same, and a failed `GetMeta` is taken for no marker
  (`bootstrap_challenges.go:79`); the next seed overwrites rows that they advanced, so a
  counter may go back and a bid number be used twice. `main.go:84` says that the
  marker is set to the head in any case; `bootstrap_challenges.go:67-73` does not.
- *Tick loop.* A stop between `BulkUpsert` and `SetLastBlock` (`bootstrap.go:92`,
  `:95`) is taken for "already seeded - resume from last_block" (66); without
  last_block the loop starts at the head and blocks are never scanned. The overlap
  heals an empty answer only if the next good scan comes within 300 blocks; a
  catch-up over more blocks in one tick with an empty answer loses the logs for good
  (`loop.go:17-20` against 173), positions and denials among them: NoPositionMissed,
  EventsRead, VetoedUnlisted and AliveListed hold within the delays that the overlap
  covers and not beyond. A position whose hydration fails for as long as the overlap
  is lost too (`discover.go:44`).
- *Position rows.* When the overlap finds a seeded position again, Discover writes
  the opening event's owner over the present one and its block number over the API's
  time stamp (`discover.go:50-53`). A failed or undecodable read of the old row
  makes Upsert replace it by the bare hydration (`store.go:278-288`): the denial,
  the API's fields and, if `balanceOf` failed too, the balance are gone; SeedKept
  and AliveListed name the positions concerned. A failed `HydrateERC20` blanks the
  collateral's name and decimals, which Upsert does not carry forward
  (`hydrate.go:141-153`). A position discovered live keeps the annual interest 0
  that hydration does not read, and `Curate` prefers the cheapest.
- *Prices.* A symbol that upstream does not list, or any symbol before the first
  good fetch, is fetched for again at every request (`prices.go:100`): "stamp
  lastFill even on failure" (160-164) spares only symbols the table has. A request
  that looked before another one's refresh ended fetches again right after it
  (67-68). RetryAfterTTL is stated with these two excluded.
- *Races.* The fastest answer wins alone, `[]` too (`balanced.go:601`); the comment
  at 60-62 wants two others to agree or fail. The caller's own cancellation is
  recorded against the racers; a later failure may shorten a rate limit's
  cool-down (380).
- *Response cache.* An answer fetched before a new head's purge is stored after it
  and served for `CallTTL`; ServedSincePurge allows that one and no other.
  LastSeenBlock is refreshed by answers to `eth_blockNumber` only; the comment
  (442-445) also names getLogs, getBlock and a background ping, which does not
  exist. With `MaxCacheEntries` below ten a tenth of the entries is none, and a full
  cache grows (777-792).
- *Governance.* When leadrate's second table fails, the first is already replaced,
  although "we just don't touch its table" (68-70); FailedUntouched is stated for
  the last table. A fresh peer's empty list empties a table, an old mirror takes
  tables back; OnlyMirrorsGoBack says nothing else does. The mirror that is asked
  first runs this program and asks itself first (`sources.go:52-53`, `README.md:5`):
  once it is up it stores its own old tables at every tick and never gets to the
  official API, and whoever asks it first stays as old. CatchesUp promises no more.
  A minters body that does not decode is not asked of the next peer
  (`sources.go:145-154`). `/governance/leadrate` reads its two tables in two queries
  (`api.go:462-476`).

## 7. Plan

Written so far, in this order: ChallengeScan with ChallengeBook, TickLoop,
PriceCache, RpcRace, Governance, Aggregate3, ChallengeBoot, PositionRows,
RpcCache. Next, most important first:

1. Owner and creation in PositionRows, with a property for what Discover writes
   over a seeded row (`discover.go:50-53`), and several chunks.
2. RpcCache over RpcRace: its race step shown to be what a call of RpcRace does.
3. **Curate** (`curate.go`) as operators against a reference definition, and
   `compareDigitStrings` of the NEAR proxy.
4. The encoder of multicall, and Aggregate3 for both.
5. A property for what a repeated seed takes back of a row's progress.
6. Proofs: NoLogLeftBehind under a bound on consecutive failures instead of all of
   them; what of the scan's theorems survives a seed that is already behind it
   (ChallengeBoot); that CallsAnswered's flights are RpcRace's calls.
