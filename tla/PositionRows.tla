---------------------------- MODULE PositionRows ----------------------------
(***************************************************************************)
(* The rows of the table positions and the state of the positions on the   *)
(* chain: store.BulkUpsert and store.Upsert, and their callers Bootstrap,  *)
(* Discover and Refresh, each of which writes what HydratePosition read at *)
(* "latest" from the endpoint that won, not at the block of the event.     *)
(* Monitored is the list that /positions/monitored serves.                 *)
(*                                                                         *)
(* A row keeps the block its fields were read at, in place of the fields   *)
(* that every hydration replaces, and those on which Upsert has a say.     *)
(* A tick has one chunk here (TickLoop has several), and Refresh filters   *)
(* by the table (TickLoop's KnownFresh).                                   *)
(*                                                                         *)
(* Definitions marked "Variant" are no part of the specification.          *)
(***************************************************************************)
EXTENDS Integers, FiniteSets

CONSTANTS
  Positions,
  OpenBlock,  \* the block of each position's PositionOpened event
  FirstHead,  \* head of the chain when the process first starts
  MaxBlock,   \* bound: the chain ends here
  MaxBalance, \* bound: the largest collateral balance
  MaxLogs,    \* bound: how many logs the positions emit
  Overlap,    \* overlap
  Depth,      \* safetyDepth
  Lag,        \* bound: how far an endpoint may lag behind
  PeerLag,    \* bound: how far a peer's list of positions may lag behind
  MaxLag,     \* bound: how far last_block may fall behind a tick's target
  Faults,     \* the steps that may fail
  MaxFaults   \* bound: how many failures a behaviour has

Steps == {"HydratePosition", "balanceOf", "stage", "crash",
          "GetLogs",     \* a racer answers [] instead of the logs
          "getPosition"} \* Upsert's SELECT of the row fails, or its decoding
Kinds == {"MintingUpdate", "ForcedSale", "PositionDenied"}

ASSUME ChainAssumption ==
  /\ OpenBlock \in [Positions -> Nat \ {0}]
  /\ FirstHead \in Nat \ {0} /\ MaxBlock \in Nat /\ FirstHead <= MaxBlock
  /\ MaxBalance \in Nat \ {0} /\ MaxLogs \in Nat
  /\ Lag \in Nat /\ PeerLag \in Nat /\ MaxLag \in Nat /\ MaxFaults \in Nat
  /\ Faults \subseteq Steps

\* The chain is older than the re-scan window, also to an endpoint that lags,
\* a peer's list is no more out of date than that window reaches back, and an
\* endpoint no more than safetyDepth.
ASSUME WindowAssumption ==
  /\ Overlap \in Nat /\ Depth \in Nat
  /\ Overlap + Lag < FirstHead /\ Depth + Lag < FirstHead
  /\ PeerLag <= Overlap
  /\ Lag <= Depth

VARIABLES
  head,      \* newest block of the chain
  logs,      \* the logs of the positions
  balance,   \* collateral of each position at each block, the future as now
  rows,      \* table positions
  last,      \* meta.last_block, 0: not set
  seedAt,    \* history: the block of the last seed, 0: none
  stage,     \* where the process is
  from,      \* first block of this tick
  target,    \* last block of this tick
  todo,      \* positions the stage is still to hydrate
  blind,     \* history: positions without a balance since a failed balanceOf
  unmerged,  \* history: positions whose row was replaced unread the last time
  faultsLeft

chain == <<head, logs, balance>>
tickVars == <<from, target>>
vars == <<chain, rows, last, seedAt, stage, tickVars, todo, blind, unmerged,
          faultsLeft>>

Log == [pos : Positions, block : Nat, kind : Kinds]

\* closed, denied and created are the row's fields; api stands for those that
\* only a peer's list has: annualInterestPPM, parent, limitForClones, ...
\* A balance that is 0 and one that could not be read are the same to the code.
Row == [asOf : Nat, closed : BOOLEAN, denied : BOOLEAN, api : BOOLEAN,
        created : {"none", "api", "log"}, collateral : Nat]
-----------------------------------------------------------------------------
Spend(step) ==
  /\ step \in Faults
  /\ faultsLeft > 0
  /\ faultsLeft' = faultsLeft - 1

SpendBoth(a, b) ==
  /\ {a, b} \subseteq Faults
  /\ faultsLeft > 1
  /\ faultsLeft' = faultsLeft - 2

DeniedBy(p, b) ==
  \E l \in logs : l.pos = p /\ l.kind = "PositionDenied" /\ l.block <= b

OpenedIn(a, b) == {p \in Positions : OpenBlock[p] \in a .. b}

Init ==
  /\ head = FirstHead
  /\ logs = {}
  /\ balance = [p \in Positions |->
                  [b \in 0 .. MaxBlock |-> IF b < OpenBlock[p] THEN 0 ELSE 1]]
  /\ rows = [p \in {} |-> {}]
  /\ last = 0 /\ seedAt = 0
  /\ stage = "boot"
  /\ from = 0 /\ target = 0
  /\ todo = {} /\ blind = {} /\ unmerged = {}
  /\ faultsLeft = MaxFaults

\* Variant: a tick goes up to the head it is told.
TargetHead(h) == h

\* A tick's target, safetyDepth behind the head it was told.
TargetOf(h) == IF h > Depth THEN h - Depth ELSE h

\* A block, while the indexer is not MaxLag behind, with at most one log of an
\* open position: a trade, a forced sale, or governance denies and closes it.
Mine ==
  /\ head < MaxBlock
  /\ last = 0 \/ TargetOf(head + 1) <= last + MaxLag
  /\ head' = head + 1
  /\ \/ UNCHANGED <<logs, balance>>
     \/ /\ Cardinality(logs) < MaxLogs
        /\ \E p \in OpenedIn(1, head') : \E kind \in Kinds :
             /\ logs' = logs \cup {[pos |-> p, block |-> head', kind |-> kind]}
             /\ IF kind = "PositionDenied"
                THEN UNCHANGED balance
                ELSE \E v \in 0 .. MaxBalance :
                       balance' = [balance EXCEPT ![p] =
                                     [b \in 0 .. MaxBlock |->
                                        IF b < head' THEN @[b] ELSE v]]
  /\ UNCHANGED <<rows, last, seedAt, stage, tickVars, todo, blind, unmerged,
                 faultsLeft>>
-----------------------------------------------------------------------------
\* convertAPI: a peer that has seen block h has every field.
SeedRow(p, h) ==
  [asOf |-> h, closed |-> DeniedBy(p, h), denied |-> DeniedBy(p, h),
   api |-> TRUE, created |-> "api", collateral |-> balance[p][h]]

\* HydratePosition at block g: denied, created and the api's fields are not
\* among what it reads.
Hydrated(p, g, created, collateral) ==
  [asOf |-> g, closed |-> DeniedBy(p, g), denied |-> FALSE,
   api |-> FALSE, created |-> created, collateral |-> collateral]

\* Variant: the new row as it comes.
MergeNone(old, new) == new

\* Variant: all is carried forward but the balance.
MergeBlank(old, new) ==
  [asOf |-> new.asOf, closed |-> new.closed,
   denied |-> new.denied \/ old.denied, api |-> new.api \/ old.api,
   created |-> IF new.created = "none" THEN old.created ELSE new.created,
   collateral |-> new.collateral]

\* What Upsert carries forward from the old row.
Merge(old, new) ==
  [asOf |-> new.asOf, closed |-> new.closed,
   denied |-> new.denied \/ old.denied, api |-> new.api \/ old.api,
   created |-> IF new.created = "none" THEN old.created ELSE new.created,
   collateral |-> IF new.collateral = 0 THEN old.collateral
                                        ELSE new.collateral]

\* Upsert, its read of the old row succeeding or not: getPositionLocked takes
\* a failure for a row that does not exist.
Upsert(p, new, isRead) ==
  /\ rows' = [q \in DOMAIN rows \cup {p} |->
                IF q # p THEN rows[q]
                ELSE IF isRead /\ p \in DOMAIN rows
                     THEN Merge(rows[p], new) ELSE new]
  /\ unmerged' = IF isRead THEN unmerged \ {p} ELSE unmerged \cup {p}

\* A balance is at hand, read now or kept in the old row.
Sighted(p, hasBalance, isRead) ==
  hasBalance \/ (isRead /\ p \in DOMAIN rows /\ rows[p].collateral > 0)

\* One position is hydrated, from an endpoint that may lag, and upserted.
\* The balance is a second call, whose failure leaves it empty.
HydrateAndUpsert(p, created) ==
  /\ \E g \in (head - Lag) .. head : \E hasBalance, isRead \in BOOLEAN :
       /\ \/ hasBalance /\ isRead /\ UNCHANGED faultsLeft
          \/ ~hasBalance /\ isRead /\ Spend("balanceOf")
          \/ hasBalance /\ ~isRead /\ Spend("getPosition")
          \/ ~hasBalance /\ ~isRead /\ SpendBoth("balanceOf", "getPosition")
       /\ Upsert(p, Hydrated(p, g, created,
                            IF hasBalance THEN balance[p][g] ELSE 0), isRead)
       /\ blind' = IF hasBalance THEN blind \ {p}
                   ELSE IF Sighted(p, hasBalance, isRead) THEN blind
                   ELSE blind \cup {p}
  /\ todo' = todo \ {p}

\* Bootstrap: only an empty table is seeded, from the list of a peer, and
\* last_block set to the head it was told; the two writes are one step here
\* (TickLoop takes them apart).
BootSeed ==
  /\ stage = "boot" /\ DOMAIN rows = {}
  /\ \E h \in (head - PeerLag) .. head :
       rows' = [p \in OpenedIn(1, h) |-> SeedRow(p, h)]
  /\ last' \in (head - Lag) .. head /\ seedAt' = last'
  /\ blind' = {} /\ unmerged' = {}
  /\ stage' = "idle"
  /\ UNCHANGED <<chain, tickVars, todo, faultsLeft>>

BootResume ==
  /\ stage = "boot" /\ DOMAIN rows # {}
  /\ stage' = "idle"
  /\ UNCHANGED <<chain, rows, last, seedAt, tickVars, todo, blind, unmerged,
                 faultsLeft>>
-----------------------------------------------------------------------------
FromOf(l) == IF l + 1 > Overlap THEN l + 1 - Overlap ELSE l + 1

\* The window of a tick.
Window ==
  /\ \E h \in (head - Lag) .. head :
       /\ h > 0 /\ last < TargetOf(h)
       /\ target' = TargetOf(h)
  /\ from' = FromOf(last)

\* tick, up to the logs that Discover finds.
StartTick ==
  /\ stage = "idle"
  /\ Window
  /\ todo' = OpenedIn(from', target')
  /\ stage' = "discover"
  /\ UNCHANGED <<chain, rows, last, seedAt, blind, unmerged, faultsLeft>>

\* The same, the answer coming from a racer that returns [] without error.
StartTickLied ==
  /\ stage = "idle"
  /\ Window
  /\ Spend("GetLogs")
  /\ todo' = {}
  /\ stage' = "discover"
  /\ UNCHANGED <<chain, rows, last, seedAt, blind, unmerged>>

\* Discover takes its logs in the order of the chain.
FirstOf(ps) == {p \in ps : \A q \in ps : OpenBlock[p] <= OpenBlock[q]}

\* Discover: a new position, or one the overlap finds again.
DiscoverOne ==
  /\ stage = "discover"
  /\ \E p \in FirstOf(todo) : HydrateAndUpsert(p, "log")
  /\ UNCHANGED <<chain, last, seedAt, stage, tickVars>>

\* Variant: without the hub's address in the filter.
WatchedPositions == {"MintingUpdate", "PositionDenied"}

\* Variant: without the topic of denials.
WatchedTrades == {"MintingUpdate", "ForcedSale"}

\* The topics that Refresh asks for.
Watched == {"MintingUpdate", "PositionDenied", "ForcedSale"}

Touched ==
  {p \in DOMAIN rows :
     \E l \in logs : l.pos = p /\ l.block \in from .. target /\ l.kind \in Watched}

\* Refresh gets its logs: the known positions among them are hydrated.
StartRefresh ==
  /\ stage = "discover" /\ todo = {}
  /\ todo' = Touched
  /\ stage' = "refresh"
  /\ UNCHANGED <<chain, rows, last, seedAt, tickVars, blind, unmerged, faultsLeft>>

\* The same, the answer coming from a racer that returns [] without error:
\* Refresh has nothing to do, and last_block moves on.
StartRefreshLied ==
  /\ stage = "discover" /\ todo = {}
  /\ Spend("GetLogs")
  /\ stage' = "refresh"
  /\ UNCHANGED <<chain, rows, last, seedAt, tickVars, todo, blind, unmerged>>

\* Refresh takes its positions in no order.
RefreshOne ==
  /\ stage = "refresh"
  /\ \E p \in todo : HydrateAndUpsert(p, "none")
  /\ UNCHANGED <<chain, last, seedAt, stage, tickVars>>

\* A position that cannot be hydrated is passed over.
HydrateFails ==
  /\ stage \in {"discover", "refresh"}
  /\ \E p \in IF stage = "discover" THEN FirstOf(todo) ELSE todo :
       todo' = todo \ {p}
  /\ Spend("HydratePosition")
  /\ UNCHANGED <<chain, rows, last, seedAt, stage, tickVars, blind, unmerged>>

\* The end of the tick.
Commit ==
  /\ stage = "refresh" /\ todo = {}
  /\ last' = target
  /\ stage' = "idle"
  /\ UNCHANGED <<chain, rows, seedAt, tickVars, todo, blind, unmerged, faultsLeft>>

\* A getLogs of the tick or its last write fails.
StageFails ==
  /\ stage \in {"discover", "refresh"} /\ todo = {}
  /\ Spend("stage")
  /\ stage' = "idle"
  /\ UNCHANGED <<chain, rows, last, seedAt, tickVars, todo, blind, unmerged>>

\* The process ends anywhere, and starts over.
Restart ==
  /\ stage # "boot"
  /\ Spend("crash")
  /\ stage' = "boot"
  /\ todo' = {} /\ from' = 0 /\ target' = 0
  /\ UNCHANGED <<chain, rows, last, seedAt, blind, unmerged>>

\* The bounded chain has ended.
Idle ==
  /\ stage = "idle" /\ head = MaxBlock /\ last >= TargetOf(head)
  /\ UNCHANGED vars

Tick ==
  \/ StartTick \/ StartTickLied \/ DiscoverOne
  \/ StartRefresh \/ StartRefreshLied \/ RefreshOne
  \/ HydrateFails \/ Commit \/ StageFails

Next == Mine \/ BootSeed \/ BootResume \/ Tick \/ Restart \/ Idle

Spec == Init /\ [][Next]_vars
-----------------------------------------------------------------------------
\* store.Monitored.
Monitored ==
  {p \in DOMAIN rows :
     ~rows[p].closed /\ ~rows[p].denied /\ rows[p].collateral > 0}

TypeOK ==
  /\ head \in Nat /\ last \in Nat /\ seedAt \in Nat
  /\ from \in Nat /\ target \in Nat /\ faultsLeft \in Nat
  /\ logs \subseteq Log
  /\ balance \in [Positions -> [0 .. MaxBlock -> Nat]]
  /\ DOMAIN rows \subseteq Positions
  /\ rows \in [DOMAIN rows -> Row]
  /\ stage \in {"boot", "idle", "discover", "refresh"}
  /\ todo \subseteq Positions /\ blind \subseteq Positions
  /\ unmerged \subseteq Positions

\* The seed is behind: some tick has ended since.
Ticked == last # seedAt

\* The blocks that the failures so far may have delayed a read by: each costs
\* a tick, and all of them together what the seed's list lacked.
Delay ==
  IF faultsLeft = MaxFaults THEN 0
  ELSE PeerLag + MaxLag * (MaxFaults - faultsLeft)

\* Whatever order the rows are hydrated in, from endpoints that lag, twice in
\* the overlap, with restarts: no row is older than a log of its position
\* that last_block has passed, and a racer's false [], a failed stage or a
\* failed hydration puts that off by one tick each; the overlap makes up for
\* them (loop.go, lines 17-23).
EventsRead ==
  Ticked => \A l \in logs :
    l.pos \in DOMAIN rows /\ l.block + Delay <= last =>
      rows[l.pos].asOf >= l.block

\* So a position whose denial last_block has passed is monitored no more,
\* with the same delay, also when a failed read of its row has lost the
\* denial that Upsert calls sticky.
VetoedUnlisted ==
  Ticked => \A l \in logs :
    l.kind = "PositionDenied" /\ l.block + Delay <= last =>
      l.pos \notin Monitored

AliveSince(p, b) == \A c \in b .. head : balance[p][c] > 0 /\ ~DeniedBy(p, c)

\* And every position that has been open and backed since then is on the
\* list, whichever answers were [], unless its balance failed to be read
\* while none was known, or the row that knew one failed to be read as well.
AliveListed ==
  Ticked => \A p \in Positions \ blind :
    AliveSince(p, last - Delay) => p \in Monitored

\* No hydration reads a denial or the fields that only the seed has, but only
\* a write whose read of the old row failed takes them back.
SeedKept ==
  [][\A p \in DOMAIN rows \ unmerged' :
       /\ p \in DOMAIN rows'
       /\ rows[p].denied => rows'[p].denied
       /\ rows[p].api => rows'[p].api]_rows

\* refresh.go has the topic ForcedSale so that no position whose collateral
\* was sold lingers in the list (lines 19-22).
SoldUnlisted ==
  Ticked => \A l \in logs :
    /\ l.kind = "ForcedSale" /\ l.block + Delay <= last
    /\ \A c \in (last - Delay) .. head : balance[l.pos][c] = 0
    => l.pos \notin Monitored
=============================================================================
