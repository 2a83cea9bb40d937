------------------------ MODULE PositionRows_proofs ------------------------
(***************************************************************************)
(* What PositionRows guarantees for every set of positions, every chain,   *)
(* lag, depth and overlap, and for every number of failures: for three of  *)
(* the results, as many as the overlap makes up for.                       *)
(***************************************************************************)
EXTENDS PositionRows, TLAPS

ChainOK ==
  /\ head \in Nat /\ head >= FirstHead
  /\ logs \subseteq Log
  /\ \A l \in logs : l.block <= head
  /\ balance \in [Positions -> [0 .. MaxBlock -> Nat]]
  /\ head <= MaxBlock

RowsOK ==
  /\ DOMAIN rows \subseteq Positions
  /\ rows \in [DOMAIN rows -> Row]

Active == {"discover", "refresh"}

\* A tick under way ends beyond last_block and safetyDepth behind the head,
\* which is never more than MaxLag beyond that.
WindowOK ==
  /\ last \in Nat /\ seedAt \in Nat
  /\ from \in Nat /\ target \in Nat /\ faultsLeft \in Nat
  /\ stage \in {"boot", "idle"} \cup Active
  /\ todo \subseteq Positions /\ unmerged \subseteq Positions
  /\ blind \subseteq Positions
  /\ faultsLeft <= MaxFaults
  /\ seedAt <= last /\ last <= head
  /\ last # seedAt => last + Depth <= head
  /\ stage # "boot" \/ DOMAIN rows # {} => last # 0
  /\ last # 0 => last + Lag >= FirstHead /\ head <= last + MaxLag + Depth
  /\ stage \in Active => /\ last < target /\ target + Depth <= head
                         /\ from = last + 1 - Overlap

LEMMA SpendType ==
  ASSUME faultsLeft \in Nat, faultsLeft <= MaxFaults
  PROVE  /\ \A step : Spend(step) =>
              faultsLeft' \in Nat /\ faultsLeft' <= MaxFaults
         /\ \A a, b : SpendBoth(a, b) =>
              faultsLeft' \in Nat /\ faultsLeft' <= MaxFaults
BY ChainAssumption DEF Spend, SpendBoth

LEMMA HydratedType ==
  ASSUME NEW p, NEW g \in Nat, NEW c \in {"none", "log"}, NEW v \in Nat
  PROVE  /\ Hydrated(p, g, c, v) \in Row
         /\ Hydrated(p, g, c, v).asOf = g
         /\ Hydrated(p, g, c, v).closed = DeniedBy(p, g)
<1>1. DeniedBy(p, g) \in BOOLEAN
  BY DEF DeniedBy
<1> QED
  BY <1>1 DEF Hydrated, Row

\* A merge keeps what is new of the block and of closed, and what is old of
\* the fields that no hydration reads.
LEMMA MergeFacts ==
  ASSUME NEW old \in Row, NEW new \in Row
  PROVE  /\ Merge(old, new) \in Row
         /\ Merge(old, new).asOf = new.asOf
         /\ Merge(old, new).closed = new.closed
         /\ old.denied => Merge(old, new).denied
         /\ old.api => Merge(old, new).api
BY DEF Merge, Row

\* What an upsert of a hydrated row does to the table.
LEMMA UpsertFacts ==
  ASSUME RowsOK, NEW p \in Positions, NEW new \in Row, NEW isRead \in BOOLEAN,
         Upsert(p, new, isRead)
  PROVE  /\ RowsOK'
         /\ DOMAIN rows' = DOMAIN rows \cup {p}
         /\ \A q \in DOMAIN rows \ {p} : rows'[q] = rows[q]
         /\ rows'[p].asOf = new.asOf /\ rows'[p].closed = new.closed
         /\ isRead /\ p \in DOMAIN rows =>
              /\ rows[p].denied => rows'[p].denied
              /\ rows[p].api => rows'[p].api
<1>1. DOMAIN rows' = DOMAIN rows \cup {p}
  BY DEF Upsert
<1>2. \A q \in DOMAIN rows \ {p} : rows'[q] = rows[q]
  BY DEF Upsert
<1>3. rows'[p] = IF isRead /\ p \in DOMAIN rows
                 THEN Merge(rows[p], new) ELSE new
  BY DEF Upsert
<1>4. p \in DOMAIN rows => rows[p] \in Row
  BY DEF RowsOK
<1>5. rows'[p] \in Row
  BY <1>3, <1>4, MergeFacts
<1>6. rows' = [q \in DOMAIN rows' |-> rows'[q]]
  BY DEF Upsert
<1>7. \A q \in DOMAIN rows' : rows'[q] \in Row
  BY <1>1, <1>2, <1>5 DEF RowsOK
<1>8. RowsOK'
  BY <1>1, <1>6, <1>7 DEF RowsOK
<1> QED
  BY <1>1, <1>2, <1>3, <1>4, <1>8, MergeFacts

\* What the hydration of one position does, whatever its endpoint and its
\* second call.
LEMMA HydrateFacts ==
  ASSUME ChainOK, RowsOK, WindowOK, NEW p \in Positions,
         NEW c \in {"none", "log"}, HydrateAndUpsert(p, c), stage \in Active
  PROVE  /\ RowsOK'
         /\ faultsLeft' \in Nat /\ faultsLeft' <= MaxFaults
         /\ blind' \subseteq Positions /\ unmerged' \subseteq Positions
         /\ DOMAIN rows' = DOMAIN rows \cup {p}
         /\ \A q \in DOMAIN rows \ {p} : rows'[q] = rows[q]
         /\ rows'[p].asOf \in Nat
         /\ rows'[p].asOf >= target /\ rows'[p].asOf <= head
         /\ rows'[p].closed = DeniedBy(p, rows'[p].asOf)
         /\ p \in DOMAIN rows \ unmerged' =>
              /\ rows[p].denied => rows'[p].denied
              /\ rows[p].api => rows'[p].api
         /\ \A q \in Positions \ {p} : q \in unmerged' <=> q \in unmerged
         /\ todo' = todo \ {p}
<1>1. PICK g \in (head - Lag) .. head, hasBalance \in BOOLEAN,
           isRead \in BOOLEAN :
        /\ \/ UNCHANGED faultsLeft
           \/ \E step : Spend(step)
           \/ SpendBoth("balanceOf", "getPosition")
        /\ Upsert(p, Hydrated(p, g, c,
                              IF hasBalance THEN balance[p][g] ELSE 0), isRead)
        /\ blind' = IF hasBalance THEN blind \ {p}
                    ELSE IF Sighted(p, hasBalance, isRead) THEN blind
                    ELSE blind \cup {p}
  BY DEF HydrateAndUpsert
<1>2. g \in Nat /\ g >= target /\ g <= head
  BY ChainAssumption, WindowAssumption DEF ChainOK, WindowOK, Active
<1>3. g \in 0 .. MaxBlock
  <2>1. MaxBlock \in Nat /\ head \in Nat /\ head <= MaxBlock
    BY ChainAssumption DEF ChainOK
  <2> QED
    BY <1>2, <2>1
<1>4. balance[p][g] \in Nat
  BY <1>3 DEF ChainOK
<1>5. PICK v \in Nat : Upsert(p, Hydrated(p, g, c, v), isRead)
  BY <1>1, <1>4
<1>6. /\ faultsLeft' \in Nat /\ faultsLeft' <= MaxFaults
      /\ blind' \subseteq Positions
  BY <1>1, SpendType DEF WindowOK
<1>7. /\ Hydrated(p, g, c, v) \in Row
      /\ Hydrated(p, g, c, v).asOf = g
      /\ Hydrated(p, g, c, v).closed = DeniedBy(p, g)
  BY <1>2, HydratedType
<1>8. unmerged' = IF isRead THEN unmerged \ {p} ELSE unmerged \cup {p}
  BY <1>5 DEF Upsert
<1>9. todo' = todo \ {p}
  BY DEF HydrateAndUpsert
<1>10. unmerged' \subseteq Positions
  BY <1>8 DEF WindowOK
<1> QED
  BY <1>2, <1>5, <1>6, <1>7, <1>8, <1>9, <1>10, UpsertFacts
-----------------------------------------------------------------------------
TypeInv == ChainOK /\ RowsOK /\ WindowOK

LEMMA TypeInit == Init => TypeInv
<1> SUFFICES ASSUME Init PROVE TypeInv
  OBVIOUS
<1>1. ChainOK
  BY ChainAssumption DEF Init, ChainOK, Log
<1>2. RowsOK
  BY DEF Init, RowsOK
<1>3. WindowOK
  BY ChainAssumption DEF Init, WindowOK, Active
<1> QED
  BY <1>1, <1>2, <1>3 DEF TypeInv

\* The actions that leave the chain alone.
LEMMA ChainStill ==
  ASSUME BootSeed \/ BootResume \/ Tick \/ Restart \/ UNCHANGED vars
  PROVE  UNCHANGED chain
BY DEF BootSeed, BootResume, Tick, Restart, vars, StartTick, StartTickLied,
       DiscoverOne, StartRefresh, StartRefreshLied, RefreshOne, HydrateFails,
       Commit, StageFails

\* A block adds one log at most, above the old head.
LEMMA MineFacts ==
  ASSUME ChainOK, Mine
  PROVE  /\ head' = head + 1 /\ ChainOK'
         /\ logs \subseteq logs'
         /\ \A l \in logs' \ logs : l.block = head + 1
         /\ UNCHANGED <<rows, last, seedAt, stage, from, target, todo, unmerged,
                        blind, faultsLeft>>
<1>1. head' = head + 1 /\ head' \in Nat /\ head' <= MaxBlock /\ head' > head
  BY ChainAssumption DEF Mine, ChainOK
<1>2. CASE UNCHANGED <<logs, balance>>
  <2>1. \A l \in logs : l.block \in Nat
    BY DEF ChainOK, Log
  <2> QED
    BY <1>1, <1>2, <2>1, ChainAssumption DEF Mine, ChainOK, tickVars
<1>3. ASSUME NEW p \in OpenedIn(1, head'), NEW kind \in Kinds,
             logs' = logs \cup {[pos |-> p, block |-> head', kind |-> kind]},
             IF kind = "PositionDenied"
             THEN UNCHANGED balance
             ELSE \E v \in 0 .. MaxBalance :
                    balance' = [balance EXCEPT ![p] =
                                  [b \in 0 .. MaxBlock |->
                                     IF b < head' THEN @[b] ELSE v]]
      PROVE  /\ ChainOK' /\ logs \subseteq logs'
             /\ \A l \in logs' \ logs : l.block = head + 1
  <2>1. p \in Positions
    BY DEF OpenedIn
  <2>2. [pos |-> p, block |-> head', kind |-> kind] \in Log
    BY <1>1, <2>1 DEF Log
  <2>3. \A l \in logs : l.block \in Nat
    BY DEF ChainOK, Log
  <2>4. logs' \subseteq Log /\ \A l \in logs' : l.block <= head'
    BY <1>1, <1>3, <2>2, <2>3 DEF ChainOK
  <2>5. balance' \in [Positions -> [0 .. MaxBlock -> Nat]]
    <3>1. CASE UNCHANGED balance
      BY <3>1 DEF ChainOK
    <3>2. ASSUME NEW v \in 0 .. MaxBalance,
                 balance' = [balance EXCEPT ![p] =
                               [b \in 0 .. MaxBlock |->
                                  IF b < head' THEN @[b] ELSE v]]
          PROVE  balance' \in [Positions -> [0 .. MaxBlock -> Nat]]
      <4>1. v \in Nat
        BY ChainAssumption
      <4>2. [b \in 0 .. MaxBlock |-> IF b < head' THEN balance[p][b] ELSE v]
              \in [0 .. MaxBlock -> Nat]
        BY <2>1, <4>1 DEF ChainOK
      <4> QED
        BY <3>2, <4>2, <2>1 DEF ChainOK
    <3> QED
      BY <1>3, <3>1, <3>2
  <2>6. \A l \in logs' \ logs : l.block = head + 1
    BY <1>1, <1>3
  <2>7. ChainOK'
    BY <1>1, <2>4, <2>5, ChainAssumption DEF ChainOK
  <2> QED
    BY <1>3, <2>6, <2>7
<1>4. UNCHANGED <<rows, last, seedAt, stage, from, target, todo, unmerged,
                  blind, faultsLeft>>
  BY DEF Mine, tickVars
<1> QED
  BY <1>1, <1>2, <1>3, <1>4 DEF Mine

LEMMA SeedRowType ==
  ASSUME ChainOK, NEW p \in Positions, NEW h \in Nat, h <= head
  PROVE  /\ SeedRow(p, h) \in Row
         /\ SeedRow(p, h).asOf = h
         /\ SeedRow(p, h).closed = DeniedBy(p, h)
<1>1. DeniedBy(p, h) \in BOOLEAN
  BY DEF DeniedBy
<1>2. h \in 0 .. MaxBlock
  <2>1. MaxBlock \in Nat /\ head \in Nat /\ head <= MaxBlock
    BY ChainAssumption DEF ChainOK
  <2> QED
    BY <2>1
<1>3. balance[p][h] \in Nat
  BY <1>2 DEF ChainOK
<1> QED
  BY <1>1, <1>3 DEF SeedRow, Row

\* A seed's rows are as old as the peer's list.
LEMMA SeedFacts ==
  ASSUME ChainOK, BootSeed
  PROVE  \E h \in Nat :
           /\ h <= head /\ h >= head - PeerLag
           /\ rows' = [p \in OpenedIn(1, h) |-> SeedRow(p, h)]
           /\ RowsOK'
           /\ \A p \in DOMAIN rows' :
                rows'[p].asOf = h /\ rows'[p].closed = DeniedBy(p, h)
<1>1. PICK h \in (head - PeerLag) .. head :
        rows' = [p \in OpenedIn(1, h) |-> SeedRow(p, h)]
  BY DEF BootSeed
<1>2. h \in Nat /\ h <= head /\ h >= head - PeerLag
  BY ChainAssumption, WindowAssumption DEF ChainOK
<1>3. OpenedIn(1, h) \subseteq Positions
  BY DEF OpenedIn
<1>4. \A p \in OpenedIn(1, h) :
        /\ SeedRow(p, h) \in Row
        /\ SeedRow(p, h).asOf = h
        /\ SeedRow(p, h).closed = DeniedBy(p, h)
  BY <1>2, <1>3, SeedRowType
<1>5. RowsOK'
  BY <1>1, <1>3, <1>4 DEF RowsOK
<1> QED
  BY <1>1, <1>2, <1>4, <1>5
-----------------------------------------------------------------------------
\* What the window of a starting tick is, whatever head it was told.
LEMMA WindowFacts ==
  ASSUME ChainOK, WindowOK, stage # "boot", Window
  PROVE  /\ target' \in Nat /\ target' > last /\ target' + Depth <= head
         /\ target' <= last + MaxLag
         /\ from' = last + 1 - Overlap /\ from' \in Nat
         /\ last > Overlap
<1>1. PICK h \in (head - Lag) .. head :
        h > 0 /\ last < TargetOf(h) /\ target' = TargetOf(h)
  BY DEF Window
<1>2. h \in Nat /\ h <= head
  BY <1>1, ChainAssumption DEF ChainOK
<1>3. /\ last \in Nat /\ last > Depth /\ last > Overlap
      /\ head <= last + MaxLag + Depth
  BY ChainAssumption, WindowAssumption DEF WindowOK
<1>4. h > Depth
  BY <1>1, <1>2, <1>3, WindowAssumption DEF TargetOf
<1>5. target' = h - Depth
  BY <1>1, <1>2, <1>4, WindowAssumption DEF TargetOf
<1>6. target' \in Nat /\ target' > last /\ target' + Depth <= head
  BY <1>1, <1>2, <1>3, <1>5, WindowAssumption DEF ChainOK
<1>7. target' <= last + MaxLag
  BY <1>2, <1>3, <1>5, ChainAssumption, WindowAssumption DEF ChainOK
<1>8. from' = last + 1 - Overlap /\ from' \in Nat
  BY <1>3, WindowAssumption DEF Window, FromOf
<1> QED
  BY <1>3, <1>6, <1>7, <1>8

\* What a tick starts with, its logs true or not.
LEMMA StartTickFacts ==
  ASSUME ChainOK, WindowOK, StartTick \/ StartTickLied
  PROVE  /\ target' \in Nat /\ target' > last /\ target' + Depth <= head
         /\ target' <= last + MaxLag
         /\ from' = last + 1 - Overlap /\ from' \in Nat /\ last > Overlap
         /\ todo' \subseteq Positions
         /\ \A p \in todo' : OpenBlock[p] <= target'
         /\ stage = "idle" /\ stage' = "discover"
         /\ faultsLeft' \in Nat /\ faultsLeft' <= MaxFaults
         /\ UNCHANGED <<head, logs, balance, rows, last, seedAt, unmerged, blind>>
<1>1. stage = "idle" /\ Window
  BY DEF StartTick, StartTickLied
<1>2. /\ todo' \subseteq Positions
      /\ \A p \in todo' : OpenBlock[p] <= target'
  BY DEF StartTick, StartTickLied, OpenedIn
<1>3. faultsLeft' \in Nat /\ faultsLeft' <= MaxFaults
  BY SpendType DEF StartTick, StartTickLied, WindowOK
<1>4. stage' = "discover"
  BY DEF StartTick, StartTickLied
<1>5. UNCHANGED <<head, logs, balance, rows, last, seedAt, unmerged, blind>>
  BY DEF StartTick, StartTickLied, chain
<1> QED
  BY <1>1, <1>2, <1>3, <1>4, <1>5, WindowFacts

LEMMA TypeStep == TypeInv /\ [Next]_vars => TypeInv'
<1> SUFFICES ASSUME ChainOK, RowsOK, WindowOK, [Next]_vars PROVE TypeInv'
  BY DEF TypeInv
<1>1. CASE Mine
  <2>1. ChainOK' /\ head' = head + 1
    BY <1>1, MineFacts
  <2>2. UNCHANGED <<rows, last, seedAt, stage, from, target, todo, unmerged,
                    blind, faultsLeft>>
    BY <1>1, MineFacts
  <2>3. RowsOK'
    BY <2>2 DEF RowsOK
  <2>4. last # 0 => head + 1 <= last + MaxLag + Depth
    BY <1>1, <2>1, ChainAssumption, WindowAssumption
    DEF Mine, TargetOf, ChainOK, WindowOK
  <2>5. WindowOK'
    BY <2>1, <2>2, <2>4, WindowAssumption DEF WindowOK, ChainOK, Active
  <2> QED
    BY <2>1, <2>3, <2>5 DEF TypeInv
<1>2. CASE ~Mine
  <2>1. UNCHANGED <<head, logs, balance>>
    BY <1>2, ChainStill DEF Next, Idle, chain
  <2>2. ChainOK'
    BY <2>1 DEF ChainOK
  <2>3. CASE BootSeed
    <3>1. RowsOK' /\ DOMAIN rows' \subseteq Positions
      BY <2>3, SeedFacts DEF RowsOK
    <3>2. last' \in (head - Lag) .. head /\ seedAt' = last'
      BY <2>3 DEF BootSeed
    <3>3. /\ last' \in Nat /\ last' <= head /\ last' # 0
          /\ last' + Lag >= FirstHead /\ head <= last' + MaxLag + Depth
      <4>1. /\ head \in Nat /\ head >= FirstHead /\ FirstHead \in Nat
            /\ Lag \in Nat /\ Depth \in Nat /\ MaxLag \in Nat
            /\ Depth + Lag < FirstHead /\ Lag <= Depth
        BY ChainAssumption, WindowAssumption DEF ChainOK
      <4>2. \A h, f, g, d, m \in Nat : h >= f /\ d + g < f /\ g <= d =>
              \A n \in (h - g) .. h : /\ n \in Nat /\ n <= h /\ n # 0
                                     /\ n + g >= f /\ h <= n + m + d
        OBVIOUS
      <4> QED
        BY <3>2, <4>1, <4>2
    <3>4. /\ stage' = "idle" /\ blind' = {} /\ unmerged' = {}
          /\ UNCHANGED <<from, target, todo, faultsLeft>>
      BY <2>3 DEF BootSeed, tickVars
    <3>5. WindowOK'
      BY <2>1, <3>2, <3>3, <3>4 DEF WindowOK, Active
    <3> QED
      BY <2>2, <3>1, <3>5 DEF TypeInv
  <2>4. CASE StartTick \/ StartTickLied
    <3>1. RowsOK'
      BY <2>4, StartTickFacts DEF RowsOK
    <3>2. WindowOK'
      BY <2>4, StartTickFacts DEF WindowOK, Active
    <3> QED
      BY <2>2, <3>1, <3>2 DEF TypeInv
  <2>5. CASE DiscoverOne \/ RefreshOne
    <3>1. PICK p \in todo, c \in {"none", "log"} : HydrateAndUpsert(p, c)
      BY <2>5 DEF DiscoverOne, RefreshOne, FirstOf
    <3>2. stage \in Active /\ p \in Positions
      BY <2>5, <3>1 DEF DiscoverOne, RefreshOne, Active, WindowOK
    <3>3. /\ RowsOK' /\ faultsLeft' \in Nat /\ faultsLeft' <= MaxFaults
          /\ blind' \subseteq Positions /\ unmerged' \subseteq Positions
          /\ todo' = todo \ {p}
      BY <3>1, <3>2, HydrateFacts
    <3>4. UNCHANGED <<last, seedAt, stage, from, target>>
      BY <2>5 DEF DiscoverOne, RefreshOne, tickVars
    <3>5. WindowOK'
      BY <2>1, <3>2, <3>3, <3>4 DEF WindowOK, Active
    <3> QED
      BY <2>2, <3>3, <3>5 DEF TypeInv
  <2>6. CASE BootResume \/ StartRefresh \/ StartRefreshLied \/ HydrateFails
               \/ Commit \/ StageFails \/ Restart \/ UNCHANGED vars
    <3>1. UNCHANGED <<rows, seedAt, blind, unmerged>>
      BY <2>6 DEF BootResume, StartRefresh, StartRefreshLied, HydrateFails,
                  Commit, StageFails, Restart, vars
    <3>2. RowsOK'
      BY <3>1 DEF RowsOK
    <3>3. faultsLeft' \in Nat /\ faultsLeft' <= MaxFaults
      BY <2>6, SpendType
      DEF BootResume, StartRefresh, StartRefreshLied, HydrateFails, Commit,
          StageFails, Restart, vars, WindowOK
    <3>4. WindowOK'
      <4>1. CASE BootResume \/ UNCHANGED vars
        BY <2>1, <3>1, <3>3, <4>1 DEF BootResume, vars, tickVars, WindowOK, Active
      <4>2. CASE StartRefresh \/ StartRefreshLied
        <5>1. Touched \subseteq Positions
          BY DEF Touched, RowsOK
        <5>2. todo' \subseteq Positions /\ stage = "discover" /\ stage' = "refresh"
          BY <4>2, <5>1 DEF StartRefresh, StartRefreshLied, WindowOK
        <5>3. UNCHANGED <<last, from, target>>
          BY <4>2 DEF StartRefresh, StartRefreshLied, tickVars
        <5> QED
          BY <2>1, <3>1, <3>3, <5>2, <5>3 DEF WindowOK, Active
      <4>3. CASE HydrateFails
        <5>1. todo' \subseteq Positions
          BY <4>3 DEF HydrateFails, WindowOK
        <5>2. UNCHANGED <<last, stage, from, target>>
          BY <4>3 DEF HydrateFails, tickVars
        <5> QED
          BY <2>1, <3>1, <3>3, <5>1, <5>2 DEF WindowOK, Active
      <4>4. CASE Commit
        <5>1. /\ last' = target /\ stage' = "idle" /\ stage \in Active
              /\ UNCHANGED <<from, target, todo>>
          BY <4>4 DEF Commit, tickVars, Active
        <5>2. /\ target \in Nat /\ last \in Nat /\ last < target
              /\ target + Depth <= head /\ last # 0
              /\ last + Lag >= FirstHead /\ head <= last + MaxLag + Depth
              /\ seedAt <= last /\ seedAt \in Nat
          BY <5>1 DEF WindowOK, Active
        <5>3. /\ target <= head /\ target # 0 /\ seedAt <= target
              /\ target + Lag >= FirstHead /\ head <= target + MaxLag + Depth
          BY <5>2, ChainAssumption, WindowAssumption DEF ChainOK
        <5> QED
          BY <2>1, <3>1, <3>3, <5>1, <5>2, <5>3 DEF WindowOK, Active
      <4>5. CASE StageFails
        BY <2>1, <3>1, <3>3, <4>5 DEF StageFails, tickVars, WindowOK, Active
      <4>6. CASE Restart
        BY <2>1, <3>1, <3>3, <4>6 DEF Restart, WindowOK, Active
      <4> QED
        BY <2>6, <4>1, <4>2, <4>3, <4>4, <4>5, <4>6
    <3> QED
      BY <2>2, <3>2, <3>4 DEF TypeInv
  <2> QED
    BY <1>2, <2>3, <2>4, <2>5, <2>6 DEF Next, Tick, Idle
<1> QED
  BY <1>1, <1>2

\* Every reachable state is well typed, whatever fails.
THEOREM TypeCorrect == Spec => []TypeOK
<1>1. TypeInv => TypeOK
  BY DEF TypeInv, ChainOK, RowsOK, WindowOK, TypeOK, Active
<1> QED
  BY <1>1, TypeInit, TypeStep, PTL DEF Spec
-----------------------------------------------------------------------------
(* A log that the row of its position does not show yet, or a position the  *)
(* table does not have, is Ahead of the process: above last_block, or within*)
(* the delay of it that the failures so far account for.  A tick's window   *)
(* reaches back further, as long as the overlap covers the delay of all the *)
(* failures; so the tick finds it, or ends below it, or a failure is spent; *)
(* and a failure adds to the delay what a tick may add to last_block.       *)

\* The overlap makes up for as many ticks as may fail, and for the seed.
LagCovered == PeerLag + MaxLag * MaxFaults <= Overlap

Ahead(b) == last < b + (IF Ticked THEN Delay ELSE PeerLag)

\* A log not read yet: once Refresh has its logs, it is on the list or above
\* the tick.
ReadInv ==
  \A l \in logs :
    l.pos \in DOMAIN rows =>
      \/ rows[l.pos].asOf >= l.block
      \/ /\ Ahead(l.block)
         /\ stage = "refresh" => l.pos \in todo \/ target < l.block + Delay

\* A position not found yet: once Discover has its logs, it is on the list or
\* above the tick.
FoundInv ==
  \A p \in Positions \ DOMAIN rows :
    /\ Ahead(OpenBlock[p])
    /\ stage = "discover" => p \in todo \/ target < OpenBlock[p] + Delay
    /\ stage = "refresh" => target < OpenBlock[p] + Delay

LEMMA DelayFacts ==
  ASSUME LagCovered, WindowOK
  PROVE  /\ Delay \in Nat /\ Delay <= Overlap
         /\ faultsLeft' = faultsLeft => Delay' = Delay
         /\ \A step : Spend(step) =>
              /\ Delay' \in Nat
              /\ Delay' >= Delay + MaxLag /\ Delay' >= PeerLag + MaxLag
         /\ \A c, d : SpendBoth(c, d) => Delay' \in Nat /\ Delay' >= Delay
<1> DEFINE spent == MaxFaults - faultsLeft
           D(n) == IF n = 0 THEN 0 ELSE PeerLag + MaxLag * n
<1>1. /\ MaxLag \in Nat /\ MaxFaults \in Nat /\ PeerLag \in Nat /\ Overlap \in Nat
      /\ faultsLeft \in Nat /\ faultsLeft <= MaxFaults
  BY ChainAssumption, WindowAssumption DEF WindowOK
<1>2. spent \in Nat /\ spent <= MaxFaults
  BY <1>1
<1>3. Delay = D(spent)
  BY <1>1 DEF Delay
<1>4. \A n \in Nat : MaxLag * n \in Nat
  BY <1>1
<1>5. \A m, n \in Nat : m <= n => MaxLag * m <= MaxLag * n
  <2>1. \A c, d, k \in Nat : c <= d => k * c <= k * d
    OBVIOUS
  <2> QED
    BY <1>1, <2>1
<1>6. \A n \in Nat : MaxLag * (n + 1) = MaxLag * n + MaxLag
  <2>1. \A c, d \in Int : c * (d + 1) = c * d + c
    OBVIOUS
  <2> QED
    BY <1>1, <2>1
<1>7. \A n \in Nat : D(n) \in Nat
  BY <1>1, <1>4
<1>8. \A m, n \in Nat : m <= n => D(m) <= D(n)
  BY <1>1, <1>4, <1>5
<1>9. \A n \in Nat : D(n + 1) >= D(n) + MaxLag /\ D(n + 1) >= PeerLag + MaxLag
  <2> SUFFICES ASSUME NEW n \in Nat
               PROVE  D(n + 1) >= D(n) + MaxLag /\ D(n + 1) >= PeerLag + MaxLag
    OBVIOUS
  <2>1. D(n + 1) = PeerLag + (MaxLag * n + MaxLag)
    BY <1>6
  <2>2. MaxLag * n \in Nat
    BY <1>4
  <2> QED
    BY <1>1, <2>1, <2>2
<1>10. D(MaxFaults) <= Overlap
  BY <1>1, <1>4 DEF LagCovered
<1> HIDE DEF D
<1>11. Delay \in Nat /\ Delay <= Overlap
  BY <1>1, <1>2, <1>3, <1>7, <1>8, <1>10
<1>12. ASSUME NEW step, Spend(step)
       PROVE  /\ Delay' \in Nat
              /\ Delay' >= Delay + MaxLag /\ Delay' >= PeerLag + MaxLag
  <2>1. MaxFaults - faultsLeft' = spent + 1 /\ MaxFaults # faultsLeft'
    BY <1>1, <1>12 DEF Spend
  <2>2. Delay' = D(spent + 1)
    BY <1>2, <2>1 DEF Delay, D
  <2> QED
    BY <1>2, <1>3, <1>7, <1>9, <2>2
<1>13. ASSUME NEW c, NEW d, SpendBoth(c, d)
       PROVE  Delay' \in Nat /\ Delay' >= Delay
  <2>1. MaxFaults - faultsLeft' = spent + 2 /\ MaxFaults # faultsLeft'
    BY <1>1, <1>13 DEF SpendBoth
  <2>2. Delay' = D(spent + 2)
    BY <1>2, <2>1 DEF Delay, D
  <2>3. spent + 2 \in Nat /\ spent <= spent + 2
    BY <1>2
  <2> QED
    BY <1>2, <1>3, <1>7, <1>8, <2>2, <2>3
<1>14. faultsLeft' = faultsLeft => Delay' = Delay
  BY DEF Delay
<1> QED
  BY <1>11, <1>12, <1>13, <1>14

\* No step takes the delay back.
LEMMA DelayStep ==
  ASSUME LagCovered, WindowOK, [Next]_vars
  PROVE  Delay \in Nat /\ Delay' \in Nat /\ Delay' >= Delay
<1>1. \/ faultsLeft' = faultsLeft
      \/ \E step : Spend(step)
      \/ \E c, d : SpendBoth(c, d)
  <2>1. CASE DiscoverOne \/ RefreshOne
    BY <2>1 DEF DiscoverOne, RefreshOne, HydrateAndUpsert
  <2>2. CASE ~(DiscoverOne \/ RefreshOne)
    BY <2>2 DEF Next, vars, Mine, BootSeed, BootResume, Tick, StartTick,
         StartTickLied, StartRefresh, StartRefreshLied, HydrateFails, Commit,
         StageFails, Restart, Idle
  <2> QED
    BY <2>1, <2>2
<1> QED
  BY <1>1, DelayFacts, ChainAssumption

\* What is ahead is within reach of the next window, and no tick that has a
\* failure passes it.
LEMMA AheadFacts ==
  ASSUME LagCovered, ChainOK, WindowOK, NEW b \in Nat, Ahead(b)
  PROVE  /\ last < b + Overlap
         /\ \A step : Spend(step) => last + MaxLag < b + Delay'
<1>1. /\ last \in Nat /\ PeerLag \in Nat /\ MaxLag \in Nat /\ Overlap \in Nat
      /\ PeerLag <= Overlap /\ Delay \in Nat /\ Delay <= Overlap
  BY ChainAssumption, WindowAssumption, DelayFacts DEF WindowOK
<1>2. last < b + Delay \/ last < b + PeerLag
  BY DEF Ahead
<1>3. ASSUME NEW step, Spend(step) PROVE last + MaxLag < b + Delay'
  BY <1>1, <1>2, <1>3, DelayFacts
<1> QED
  BY <1>1, <1>2, <1>3

\* It remains so while last_block does not move.
LEMMA AheadStays ==
  ASSUME LagCovered, WindowOK, [Next]_vars, NEW b \in Nat, Ahead(b),
         UNCHANGED <<last, seedAt>>
  PROVE  Ahead(b)'
<1>1. last \in Nat /\ PeerLag \in Nat
  BY ChainAssumption DEF WindowOK
<1>2. Delay \in Nat /\ Delay' \in Nat /\ Delay' >= Delay
  BY DelayStep
<1> DEFINE d == IF Ticked THEN Delay ELSE PeerLag
           e == IF Ticked' THEN Delay' ELSE PeerLag
<1>3. last' = last /\ (Ticked' <=> Ticked)
  BY DEF Ticked
<1>4. d \in Nat /\ e \in Nat /\ d <= e
  BY <1>1, <1>2, <1>3
<1>5. last < b + d /\ (last' < b + e => Ahead(b)')
  BY DEF Ahead
<1> HIDE DEF d, e
<1> QED
  BY <1>1, <1>3, <1>4, <1>5

\* So does what lies above last_block.
LEMMA AboveAhead ==
  ASSUME LagCovered, WindowOK, [Next]_vars, NEW b \in Nat, last < b,
         UNCHANGED <<last, seedAt>>
  PROVE  Ahead(b)'
<1>1. last \in Nat /\ PeerLag \in Nat /\ Delay' \in Nat
  BY ChainAssumption, DelayStep DEF WindowOK
<1> DEFINE e == IF Ticked' THEN Delay' ELSE PeerLag
<1>2. e \in Nat
  BY <1>1
<1>3. last' < b + e => Ahead(b)'
  BY DEF Ahead
<1> HIDE DEF e
<1> QED
  BY <1>1, <1>2, <1>3

LEMMA ReadStep ==
  ASSUME LagCovered PROVE TypeInv /\ ReadInv /\ [Next]_vars => ReadInv'
<1> SUFFICES ASSUME ChainOK, RowsOK, WindowOK, ReadInv, [Next]_vars,
                    NEW l \in logs', l.pos \in DOMAIN rows',
                    ~(rows'[l.pos].asOf >= l.block)
             PROVE  /\ Ahead(l.block)'
                    /\ stage' = "refresh" =>
                         l.pos \in todo' \/ target' < l.block + Delay'
  BY DEF TypeInv, ReadInv
<1>0. /\ l \in logs => l.block \in Nat /\ l.pos \in Positions /\ l.block <= head
      /\ last \in Nat /\ target \in Nat /\ MaxLag \in Nat /\ Overlap \in Nat
      /\ Delay \in Nat /\ Delay' \in Nat /\ Delay' >= Delay
  BY DelayStep, ChainAssumption, WindowAssumption DEF ChainOK, WindowOK, Log
<1>1. CASE Mine
  <2>1. UNCHANGED <<rows, last, seedAt, stage, from, target, todo>>
    BY <1>1, MineFacts
  <2>2. CASE l \in logs
    <3>1. /\ Ahead(l.block)
          /\ stage = "refresh" => l.pos \in todo \/ target < l.block + Delay
      BY <2>1, <2>2 DEF ReadInv
    <3>2. Ahead(l.block)'
      BY <1>0, <2>1, <2>2, <3>1, AheadStays
    <3> QED
      BY <1>0, <2>1, <2>2, <3>1, <3>2
  <2>3. CASE l \notin logs
    <3>1. l.block = head + 1
      BY <1>1, <2>3, MineFacts
    <3>2. /\ l.block \in Nat /\ l.block > last
          /\ stage = "refresh" => l.block > target
      BY <3>1, WindowAssumption DEF ChainOK, WindowOK, Active
    <3>3. Ahead(l.block)'
      BY <2>1, <3>2, AboveAhead
    <3> QED
      BY <1>0, <2>1, <3>2, <3>3
  <2> QED
    BY <2>2, <2>3
<1>2. CASE BootSeed
  <2>1. PICK h \in Nat : /\ h <= head /\ h >= head - PeerLag
                         /\ \A p \in DOMAIN rows' : rows'[p].asOf = h
    BY <1>2, SeedFacts
  <2>2. /\ logs' = logs /\ last' \in (head - Lag) .. head /\ seedAt' = last'
        /\ stage' = "idle"
    BY <1>2 DEF BootSeed, chain
  <2>3. last' < l.block + PeerLag
    BY <1>0, <2>1, <2>2, ChainAssumption DEF ChainOK
  <2> QED
    BY <2>2, <2>3 DEF Ahead, Ticked
<1>3. CASE StartTick \/ StartTickLied
  <2>1. /\ stage' = "discover"
        /\ UNCHANGED <<logs, rows, last, seedAt>>
    BY <1>3, StartTickFacts
  <2>2. Ahead(l.block)
    BY <2>1 DEF ReadInv
  <2> QED
    BY <1>0, <2>1, <2>2, AheadStays
<1>4. CASE DiscoverOne \/ RefreshOne
  <2>1. PICK p \in todo, c \in {"none", "log"} : HydrateAndUpsert(p, c)
    BY <1>4 DEF DiscoverOne, RefreshOne, FirstOf
  <2>2. stage \in Active /\ p \in Positions
    BY <1>4, <2>1 DEF DiscoverOne, RefreshOne, Active, WindowOK
  <2>3. UNCHANGED <<logs, last, seedAt, stage, from, target>>
    BY <1>4 DEF DiscoverOne, RefreshOne, tickVars, chain
  <2>4. /\ DOMAIN rows' = DOMAIN rows \cup {p}
        /\ \A q \in DOMAIN rows \ {p} : rows'[q] = rows[q]
        /\ rows'[p].asOf \in Nat /\ rows'[p].asOf >= target
        /\ todo' = todo \ {p}
    BY <2>1, <2>2, HydrateFacts
  <2>5. CASE l.pos = p
    <3>1. l.block \in Nat /\ target > last
      BY <1>0, <2>2, <2>3 DEF WindowOK
    <3>2. l.block > target /\ l.block > last
      BY <1>0, <2>4, <2>5, <3>1
    <3>3. Ahead(l.block)'
      BY <2>3, <3>1, <3>2, AboveAhead
    <3> QED
      BY <1>0, <2>3, <3>1, <3>2, <3>3
  <2>6. CASE l.pos # p
    <3>1. /\ Ahead(l.block)
          /\ stage = "refresh" => l.pos \in todo \/ target < l.block + Delay
      BY <2>3, <2>4, <2>6 DEF ReadInv
    <3>2. Ahead(l.block)'
      BY <1>0, <2>3, <3>1, AheadStays
    <3> QED
      BY <1>0, <2>3, <2>4, <2>6, <3>1, <3>2
  <2> QED
    BY <2>5, <2>6
<1>5. CASE StartRefresh \/ StartRefreshLied
  <2>1. /\ UNCHANGED <<logs, rows, last, seedAt, from, target>>
        /\ stage = "discover"
    BY <1>5 DEF StartRefresh, StartRefreshLied, chain, tickVars
  <2>2. Ahead(l.block) /\ l.block \in Nat /\ l.kind \in Watched
    BY <2>1 DEF ReadInv, ChainOK, Log, Kinds, Watched
  <2>3. Ahead(l.block)'
    BY <2>1, <2>2, AheadStays
  <2>4. /\ from \in Nat /\ from = last + 1 - Overlap /\ last < target
        /\ target <= last + MaxLag
    BY <2>1, ChainAssumption, WindowAssumption DEF WindowOK, ChainOK, Active
  <2>5. CASE StartRefresh
    <3>1. l.block >= from
      BY <1>0, <2>2, <2>4, AheadFacts
    <3>2. l.pos \in Touched \/ l.block > target
      BY <1>0, <2>1, <2>2, <2>4, <3>1 DEF Touched
    <3>3. todo' = Touched
      BY <2>5 DEF StartRefresh
    <3> QED
      BY <1>0, <2>1, <2>2, <2>3, <3>2, <3>3
  <2>6. CASE StartRefreshLied
    <3>1. last + MaxLag < l.block + Delay'
      BY <2>2, <2>6, AheadFacts DEF StartRefreshLied
    <3> QED
      BY <1>0, <2>1, <2>2, <2>3, <2>4, <3>1
  <2> QED
    BY <1>5, <2>5, <2>6
<1>6. CASE HydrateFails
  <2>1. PICK p \in todo : todo' = todo \ {p}
    BY <1>6 DEF HydrateFails, FirstOf
  <2>2. UNCHANGED <<logs, rows, last, seedAt, stage, from, target>>
    BY <1>6 DEF HydrateFails, tickVars, chain
  <2>3. Ahead(l.block) /\ l.block \in Nat
    BY <1>0, <2>2 DEF ReadInv
  <2>4. Ahead(l.block)'
    BY <2>2, <2>3, AheadStays
  <2>5. target <= last + MaxLag
    BY <1>6, ChainAssumption, WindowAssumption
    DEF HydrateFails, WindowOK, ChainOK, Active
  <2>6. last + MaxLag < l.block + Delay'
    BY <1>6, <2>3, AheadFacts DEF HydrateFails
  <2> QED
    BY <1>0, <2>2, <2>3, <2>4, <2>5, <2>6
<1>7. CASE Commit
  <2>1. /\ stage = "refresh" /\ todo = {} /\ last' = target /\ stage' = "idle"
        /\ UNCHANGED <<logs, rows, seedAt, faultsLeft>>
    BY <1>7 DEF Commit, chain
  <2>2. l.block \in Nat /\ target < l.block + Delay
    BY <1>0, <2>1 DEF ReadInv
  <2>3. Delay' = Delay /\ Ticked'
    BY <2>1, DelayFacts DEF Ticked, WindowOK, Active
  <2> QED
    BY <2>1, <2>2, <2>3 DEF Ahead
<1>8. CASE StageFails \/ Restart \/ BootResume
  <2>1. /\ stage' # "refresh"
        /\ UNCHANGED <<logs, rows, last, seedAt>>
    BY <1>8 DEF StageFails, Restart, BootResume, chain
  <2>2. Ahead(l.block)
    BY <2>1 DEF ReadInv
  <2> QED
    BY <1>0, <2>1, <2>2, AheadStays
<1>9. CASE UNCHANGED vars
  <2>1. UNCHANGED <<logs, rows, last, seedAt, stage, target, todo, faultsLeft>>
    BY <1>9 DEF vars, chain, tickVars
  <2>2. /\ Ahead(l.block)
        /\ stage = "refresh" => l.pos \in todo \/ target < l.block + Delay
    BY <2>1 DEF ReadInv
  <2> QED
    BY <1>0, <2>1, <2>2, AheadStays, DelayFacts
<1> QED
  BY <1>1, <1>2, <1>3, <1>4, <1>5, <1>6, <1>7, <1>8, <1>9 DEF Next, Tick, Idle

LEMMA FoundStep ==
  ASSUME LagCovered PROVE TypeInv /\ FoundInv /\ [Next]_vars => FoundInv'
<1> SUFFICES ASSUME ChainOK, RowsOK, WindowOK, FoundInv, [Next]_vars,
                    NEW p \in Positions, p \notin DOMAIN rows'
             PROVE  /\ Ahead(OpenBlock[p])'
                    /\ stage' = "discover" =>
                         p \in todo' \/ target' < OpenBlock[p] + Delay'
                    /\ stage' = "refresh" => target' < OpenBlock[p] + Delay'
  BY DEF TypeInv, FoundInv
<1> DEFINE o == OpenBlock[p]
<1>0. /\ o \in Nat
      /\ last \in Nat /\ target \in Nat /\ MaxLag \in Nat /\ Overlap \in Nat
      /\ Delay \in Nat /\ Delay' \in Nat /\ Delay' >= Delay
  BY DelayStep, ChainAssumption, WindowAssumption DEF ChainOK, WindowOK
<1>1. p \notin DOMAIN rows =>
        /\ Ahead(o)
        /\ stage = "discover" => p \in todo \/ target < o + Delay
        /\ stage = "refresh" => target < o + Delay
  BY DEF FoundInv
<1>2. stage \in Active => target <= last + MaxLag
  BY ChainAssumption, WindowAssumption DEF WindowOK, ChainOK, Active
<1> HIDE DEF o
<1>3. CASE BootSeed
  <2>1. PICK h \in (head - PeerLag) .. head :
          rows' = [q \in OpenedIn(1, h) |-> SeedRow(q, h)]
    BY <1>3 DEF BootSeed
  <2>2. h \in Nat /\ h < o
    BY <2>1, ChainAssumption, WindowAssumption DEF OpenedIn, o, ChainOK
  <2>3. last' \in (head - Lag) .. head /\ seedAt' = last' /\ stage' = "idle"
    BY <1>3 DEF BootSeed
  <2>4. last' < o + PeerLag
    BY <1>0, <2>1, <2>2, <2>3, ChainAssumption DEF ChainOK
  <2> QED
    BY <2>3, <2>4 DEF Ahead, Ticked, o
<1>4. CASE ~BootSeed /\ ~Commit
  <2>1. UNCHANGED <<last, seedAt>> /\ DOMAIN rows \subseteq DOMAIN rows'
    <3>1. CASE DiscoverOne \/ RefreshOne
      <4>1. UNCHANGED <<last, seedAt>>
        BY <3>1 DEF DiscoverOne, RefreshOne
      <4>2. PICK q \in todo, c \in {"none", "log"} : HydrateAndUpsert(q, c)
        BY <3>1 DEF DiscoverOne, RefreshOne, FirstOf
      <4>3. PICK new, isRead : Upsert(q, new, isRead)
        BY <4>2 DEF HydrateAndUpsert
      <4>4. DOMAIN rows' = DOMAIN rows \cup {q}
        BY <4>3 DEF Upsert
      <4> QED
        BY <4>1, <4>4
    <3>2. CASE ~(DiscoverOne \/ RefreshOne)
      BY <1>4, <3>2 DEF Next, vars, Mine, BootResume, Tick, StartTick,
           StartTickLied, StartRefresh, StartRefreshLied, HydrateFails, Commit,
           StageFails, Restart, Idle
    <3> QED
      BY <3>1, <3>2
  <2>2. Ahead(o)'
    BY <1>0, <1>1, <2>1, AheadStays
  <2>3. CASE StartTick
    <3>1. /\ from' = last + 1 - Overlap /\ target' \in Nat /\ from' \in Nat
          /\ stage' = "discover"
      BY <2>3, StartTickFacts
    <3>2. last < o + Overlap
      BY <1>0, <1>1, <2>1, AheadFacts
    <3>3. p \in todo' \/ o > target'
      BY <1>0, <2>3, <3>1, <3>2 DEF StartTick, OpenedIn, o
    <3> QED
      BY <1>0, <2>2, <3>1, <3>3 DEF o
  <2>4. CASE StartTickLied
    <3>1. /\ target' <= last + MaxLag /\ target' \in Nat /\ stage' = "discover"
      BY <2>4, StartTickFacts
    <3>2. last + MaxLag < o + Delay'
      BY <1>0, <1>1, <2>1, <2>4, AheadFacts DEF StartTickLied
    <3> QED
      BY <1>0, <2>2, <3>1, <3>2 DEF o
  <2>5. CASE DiscoverOne \/ RefreshOne
    <3>1. PICK q \in todo, c \in {"none", "log"} : HydrateAndUpsert(q, c)
      BY <2>5 DEF DiscoverOne, RefreshOne, FirstOf
    <3>2. todo' = todo \ {q} /\ q \in DOMAIN rows'
      BY <3>1 DEF HydrateAndUpsert, Upsert
    <3>3. UNCHANGED <<stage, target>>
      BY <2>5 DEF DiscoverOne, RefreshOne, tickVars
    <3> QED
      BY <1>0, <1>1, <2>1, <2>2, <3>2, <3>3 DEF o
  <2>6. CASE StartRefresh \/ StartRefreshLied
    <3>1. UNCHANGED target /\ stage' = "refresh" /\ stage = "discover" /\ todo = {}
      BY <2>6 DEF StartRefresh, StartRefreshLied, tickVars
    <3> QED
      BY <1>0, <1>1, <2>1, <2>2, <3>1 DEF o
  <2>7. CASE HydrateFails
    <3>1. UNCHANGED <<stage, target>> /\ stage \in Active
      BY <2>7 DEF HydrateFails, tickVars, Active
    <3>2. last + MaxLag < o + Delay'
      BY <1>0, <1>1, <2>1, <2>7, AheadFacts DEF HydrateFails
    <3> QED
      BY <1>0, <1>2, <2>2, <3>1, <3>2 DEF o
  <2>8. CASE StageFails \/ Restart \/ BootResume
    BY <2>2, <2>8 DEF StageFails, Restart, BootResume, o
  <2>9. CASE Mine \/ UNCHANGED vars
    <3>1. UNCHANGED <<stage, target, todo>>
      BY <2>9 DEF Mine, vars, tickVars
    <3> QED
      BY <1>0, <1>1, <2>1, <2>2, <3>1 DEF o
  <2> QED
    BY <1>4, <2>3, <2>4, <2>5, <2>6, <2>7, <2>8, <2>9 DEF Next, Tick, Idle
<1>5. CASE Commit
  <2>1. /\ stage = "refresh" /\ last' = target /\ stage' = "idle"
        /\ UNCHANGED <<rows, seedAt, faultsLeft>>
    BY <1>5 DEF Commit
  <2>2. Delay' = Delay /\ Ticked'
    BY <2>1, DelayFacts DEF Ticked, WindowOK, Active
  <2> QED
    BY <1>0, <1>1, <2>1, <2>2 DEF Ahead, o
<1> QED
  BY <1>3, <1>4, <1>5

LEMMA ReadSpec ==
  ASSUME LagCovered PROVE Spec => [](TypeInv /\ ReadInv /\ FoundInv)
<1>1. Init => ReadInv /\ FoundInv
  <2> SUFFICES ASSUME Init PROVE FoundInv
    BY DEF Init, ReadInv
  <2>1. \A p \in Positions : OpenBlock[p] \in Nat /\ OpenBlock[p] > 0
    BY ChainAssumption
  <2> QED
    BY <2>1, ChainAssumption DEF Init, FoundInv, Ahead, Ticked
<1> QED
  BY <1>1, TypeInit, TypeStep, ReadStep, FoundStep, PTL DEF Spec

\* No row is older than a log of its position that last_block has passed by
\* the delay of the failures so far: the lag of the endpoints being no more
\* than safetyDepth, and the overlap as long as all the failures can delay.
THEOREM EventsAreRead ==
  ASSUME LagCovered PROVE Spec => []EventsRead
<1>1. TypeInv /\ ReadInv => EventsRead
  <2> SUFFICES ASSUME TypeInv, ReadInv, Ticked, NEW l \in logs,
                      l.block + Delay <= last, l.pos \in DOMAIN rows
               PROVE  rows[l.pos].asOf >= l.block
    BY DEF EventsRead
  <2>1. l.block \in Nat /\ last \in Nat /\ Delay \in Nat
    BY DelayFacts DEF TypeInv, ChainOK, WindowOK, Log
  <2> QED
    BY <2>1 DEF ReadInv, Ahead
<1> QED
  BY <1>1, ReadSpec, PTL
-----------------------------------------------------------------------------
\* A row that is as new as a denial is closed.
ClosedInv ==
  \A p \in DOMAIN rows :
    /\ rows[p].asOf <= head
    /\ DeniedBy(p, rows[p].asOf) => rows[p].closed

LEMMA ClosedStep == TypeInv /\ ClosedInv /\ [Next]_vars => ClosedInv'
<1> SUFFICES ASSUME ChainOK, RowsOK, WindowOK, ClosedInv, [Next]_vars
             PROVE  ClosedInv'
  BY DEF TypeInv
<1>1. CASE Mine
  <2>1. /\ head' = head + 1 /\ rows' = rows
        /\ \A l \in logs' \ logs : l.block = head + 1
    BY <1>1, MineFacts
  <2>2. \A p \in DOMAIN rows : rows[p].asOf \in Nat /\ rows[p].asOf <= head
    BY DEF RowsOK, Row, ClosedInv
  <2>3. \A p \in DOMAIN rows :
          DeniedBy(p, rows[p].asOf)' => DeniedBy(p, rows[p].asOf)
    BY <2>1, <2>2 DEF DeniedBy, ChainOK
  <2>4. \A p \in DOMAIN rows : rows[p].asOf <= head + 1
    BY <2>2 DEF ChainOK
  <2> QED
    BY <2>1, <2>3, <2>4 DEF ClosedInv
<1>2. CASE BootSeed
  <2>1. PICK h \in Nat :
          /\ h <= head
          /\ \A p \in DOMAIN rows' :
               rows'[p].asOf = h /\ rows'[p].closed = DeniedBy(p, h)
    BY <1>2, SeedFacts
  <2>2. UNCHANGED <<head, logs>>
    BY <1>2 DEF BootSeed, chain
  <2> QED
    BY <2>1, <2>2 DEF ClosedInv, DeniedBy
<1>3. CASE DiscoverOne \/ RefreshOne
  <2>1. PICK p \in todo, c \in {"none", "log"} : HydrateAndUpsert(p, c)
    BY <1>3 DEF DiscoverOne, RefreshOne, FirstOf
  <2>2. stage \in Active /\ p \in Positions
    BY <1>3, <2>1 DEF DiscoverOne, RefreshOne, Active, WindowOK
  <2>3. UNCHANGED <<head, logs>>
    BY <1>3 DEF DiscoverOne, RefreshOne, chain
  <2>4. /\ DOMAIN rows' = DOMAIN rows \cup {p}
        /\ \A q \in DOMAIN rows \ {p} : rows'[q] = rows[q]
        /\ rows'[p].asOf <= head
        /\ rows'[p].closed = DeniedBy(p, rows'[p].asOf)
    BY <2>1, <2>2, HydrateFacts
  <2> QED
    BY <2>3, <2>4 DEF ClosedInv, DeniedBy
<1>4. CASE BootResume \/ StartTick \/ StartTickLied \/ StartRefresh
             \/ StartRefreshLied \/ HydrateFails \/ Commit \/ StageFails
             \/ Restart \/ UNCHANGED vars
  <2>1. UNCHANGED <<head, logs, rows>>
    BY <1>4 DEF BootResume, StartTick, StartTickLied, StartRefresh,
                StartRefreshLied, HydrateFails, Commit, StageFails, Restart,
                vars, chain
  <2> QED
    BY <2>1 DEF ClosedInv, DeniedBy
<1> QED
  BY <1>1, <1>2, <1>3, <1>4 DEF Next, Tick, Idle

\* A position whose denial last_block has passed, by the delay of the failures
\* so far, is not monitored: its row has read that it is closed, whatever has
\* become of the field denied.
THEOREM VetoesUnlist ==
  ASSUME LagCovered PROVE Spec => []VetoedUnlisted
<1>1. Init => ClosedInv
  BY DEF Init, ClosedInv
<1>2. TypeInv /\ ReadInv /\ ClosedInv => VetoedUnlisted
  <2> SUFFICES ASSUME TypeInv, ReadInv, ClosedInv, Ticked, NEW l \in logs,
                      l.kind = "PositionDenied", l.block + Delay <= last,
                      l.pos \in DOMAIN rows
               PROVE  rows[l.pos].closed
    BY DEF VetoedUnlisted, Monitored
  <2>1. l.block \in Nat /\ last \in Nat /\ Delay \in Nat
    BY DelayFacts DEF TypeInv, ChainOK, WindowOK, Log
  <2>2. rows[l.pos].asOf >= l.block
    BY <2>1 DEF ReadInv, Ahead
  <2> QED
    BY <2>2 DEF ClosedInv, DeniedBy
<1> QED
  BY <1>1, <1>2, ReadSpec, ClosedStep, PTL DEF Spec
-----------------------------------------------------------------------------
\* No write takes back a denial or a field that only the seed has, but one
\* whose read of the row failed.
THEOREM SeedIsKept == Spec => SeedKept
<1> DEFINE Kept == \A p \in DOMAIN rows \ unmerged' :
                     /\ p \in DOMAIN rows'
                     /\ rows[p].denied => rows'[p].denied
                     /\ rows[p].api => rows'[p].api
<1>1. TypeInv /\ [Next]_vars => [Kept]_rows
  <2> SUFFICES ASSUME ChainOK, RowsOK, WindowOK, Next, rows' # rows
               PROVE  Kept
    BY DEF TypeInv, vars
  <2>1. CASE BootSeed
    BY <2>1 DEF BootSeed
  <2>2. CASE DiscoverOne \/ RefreshOne
    <3>1. PICK p \in todo, c \in {"none", "log"} : HydrateAndUpsert(p, c)
      BY <2>2 DEF DiscoverOne, RefreshOne, FirstOf
    <3>2. stage \in Active /\ p \in Positions
      BY <2>2, <3>1 DEF DiscoverOne, RefreshOne, Active, WindowOK
    <3>3. /\ DOMAIN rows' = DOMAIN rows \cup {p}
          /\ \A q \in DOMAIN rows \ {p} : rows'[q] = rows[q]
          /\ p \in DOMAIN rows \ unmerged' =>
               /\ rows[p].denied => rows'[p].denied
               /\ rows[p].api => rows'[p].api
      BY <3>1, <3>2, HydrateFacts
    <3> QED
      BY <3>3
  <2>3. CASE Mine \/ BootResume \/ StartTick \/ StartTickLied \/ StartRefresh
               \/ StartRefreshLied \/ HydrateFails \/ Commit \/ StageFails
               \/ Restart \/ Idle
    BY <2>3 DEF Mine, BootResume, StartTick, StartTickLied, StartRefresh,
                StartRefreshLied, HydrateFails, Commit, StageFails, Restart,
                Idle, vars
  <2> QED
    BY <2>1, <2>2, <2>3 DEF Next, Tick
<1> QED
  BY <1>1, TypeInit, TypeStep, PTL DEF Spec, SeedKept
-----------------------------------------------------------------------------
(* AliveListed is about balances that no row has read.  A position that has *)
(* been backed for so long opened before that, so the table has it.  A row  *)
(* whose balance is empty although its position is not blind has read 0 at  *)
(* its block; a balance that has changed since has left a log; and a log    *)
(* that last_block has passed by the delay is one the row is no older than. *)

\* There is no balance before a position opens.
EmptyInv ==
  \A p \in Positions : \A b \in 0 .. MaxBlock :
    b < OpenBlock[p] => balance[p][b] = 0

\* A balance changes only where its position opens or emits a log.
ChangeInv ==
  \A p \in Positions : \A a, b \in 0 .. MaxBlock :
    /\ OpenBlock[p] <= a /\ a <= b
    /\ \A l \in logs : l.pos = p => ~(a < l.block /\ l.block <= b)
    => balance[p][a] = balance[p][b]

\* Logs, rows and the positions of a tick are no older than their opening.
OpenInv ==
  /\ \A l \in logs : OpenBlock[l.pos] <= l.block
  /\ \A p \in DOMAIN rows : OpenBlock[p] <= rows[p].asOf
  /\ stage \in Active => \A p \in todo : OpenBlock[p] <= target

\* A row is closed or denied only after a denial, and its empty balance, if
\* read at all, is the balance of its block.
TruthInv ==
  \A p \in DOMAIN rows :
    /\ rows[p].asOf <= head
    /\ rows[p].closed \/ rows[p].denied => DeniedBy(p, head)
    /\ p \notin blind /\ rows[p].collateral = 0
         => balance[p][rows[p].asOf] = 0

AliveInv == EmptyInv /\ ChangeInv /\ OpenInv /\ TruthInv

\* What a hydration reads of the balance and of the denial: its row is denied
\* only if it was, and empty and not blind only if it read 0 at its block.
LEMMA HydrateReads ==
  ASSUME ChainOK, RowsOK, WindowOK, NEW p \in Positions,
         NEW c \in {"none", "log"}, HydrateAndUpsert(p, c), stage \in Active
  PROVE  /\ rows'[p].denied => p \in DOMAIN rows /\ rows[p].denied
         /\ p \notin blind' /\ rows'[p].collateral = 0
              => balance[p][rows'[p].asOf] = 0
         /\ \A q \in Positions \ {p} : q \in blind' <=> q \in blind
<1>1. PICK g \in (head - Lag) .. head, hasBalance \in BOOLEAN,
           isRead \in BOOLEAN :
        /\ Upsert(p, Hydrated(p, g, c,
                              IF hasBalance THEN balance[p][g] ELSE 0), isRead)
        /\ blind' = IF hasBalance THEN blind \ {p}
                    ELSE IF Sighted(p, hasBalance, isRead) THEN blind
                    ELSE blind \cup {p}
  BY DEF HydrateAndUpsert
<1> DEFINE v == IF hasBalance THEN balance[p][g] ELSE 0
           new == Hydrated(p, g, c, v)
<1>2. new.asOf = g /\ new.denied = FALSE /\ new.collateral = v
  BY DEF Hydrated
<1>3. \A old, n : /\ Merge(old, n).asOf = n.asOf
                  /\ Merge(old, n).denied = (n.denied \/ old.denied)
                  /\ Merge(old, n).collateral =
                       IF n.collateral = 0 THEN old.collateral
                                           ELSE n.collateral
  BY DEF Merge
<1> HIDE DEF new
<1>4. rows'[p] = IF isRead /\ p \in DOMAIN rows THEN Merge(rows[p], new) ELSE new
  BY <1>1 DEF Upsert, new
<1>5. p \in DOMAIN rows => rows[p].denied \in BOOLEAN /\ rows[p].collateral \in Nat
  BY DEF RowsOK, Row
<1>6. /\ rows'[p].asOf = g
      /\ rows'[p].denied => p \in DOMAIN rows /\ rows[p].denied
      /\ v # 0 => rows'[p].collateral = v
      /\ isRead /\ p \in DOMAIN rows /\ v = 0
           => rows'[p].collateral = rows[p].collateral
  <2>1. CASE isRead /\ p \in DOMAIN rows
    BY <1>2, <1>3, <1>4, <1>5, <2>1
  <2>2. CASE ~(isRead /\ p \in DOMAIN rows)
    BY <1>2, <1>4, <2>2
  <2> QED
    BY <2>1, <2>2
<1>7. ASSUME p \notin blind', rows'[p].collateral = 0
      PROVE  balance[p][rows'[p].asOf] = 0
  <2>1. hasBalance
    <3>1. CASE Sighted(p, hasBalance, isRead)
      BY <1>5, <1>6, <1>7, <3>1 DEF Sighted
    <3>2. CASE ~Sighted(p, hasBalance, isRead)
      BY <1>1, <1>7, <3>2
    <3> QED
      BY <3>1, <3>2
  <2> QED
    BY <1>6, <1>7, <2>1
<1>8. \A q \in Positions \ {p} : q \in blind' <=> q \in blind
  BY <1>1
<1> QED
  BY <1>6, <1>7, <1>8

\* A new block keeps the past: a change of a balance comes with its log.
LEMMA MineChange ==
  ASSUME ChainOK, EmptyInv, ChangeInv, Mine
  PROVE  /\ EmptyInv' /\ ChangeInv'
         /\ \A p \in Positions : \A b \in 0 .. head :
              balance'[p][b] = balance[p][b]
<1>0. /\ head' = head + 1 /\ head \in Nat /\ MaxBlock \in Nat
      /\ head + 1 <= MaxBlock /\ OpenBlock \in [Positions -> Nat \ {0}]
      /\ \A l \in logs : l.block \in Nat
      /\ balance \in [Positions -> [0 .. MaxBlock -> Nat]]
  BY ChainAssumption DEF Mine, ChainOK, Log
<1>1. logs \subseteq logs'
  BY MineFacts
<1>2. CASE UNCHANGED balance
  <2>1. EmptyInv' /\ ChangeInv'
    BY <1>1, <1>2 DEF EmptyInv, ChangeInv
  <2> QED
    BY <1>2, <2>1
<1>3. CASE balance' # balance
  <2>1. PICK p \in Positions, v \in 0 .. MaxBalance, kind \in Kinds :
          /\ OpenBlock[p] <= head + 1
          /\ logs' = logs \cup {[pos |-> p, block |-> head + 1, kind |-> kind]}
          /\ balance' = [balance EXCEPT ![p] =
               [b \in 0 .. MaxBlock |-> IF b < head + 1 THEN @[b] ELSE v]]
    <3>1. PICK p \in OpenedIn(1, head'), kind \in Kinds :
            /\ logs' = logs \cup {[pos |-> p, block |-> head', kind |-> kind]}
            /\ IF kind = "PositionDenied"
               THEN UNCHANGED balance
               ELSE \E v \in 0 .. MaxBalance :
                      balance' = [balance EXCEPT ![p] =
                                    [b \in 0 .. MaxBlock |->
                                       IF b < head' THEN @[b] ELSE v]]
      BY <1>3 DEF Mine
    <3>2. PICK v \in 0 .. MaxBalance :
            balance' = [balance EXCEPT ![p] =
                          [b \in 0 .. MaxBlock |-> IF b < head' THEN @[b] ELSE v]]
      BY <1>3, <3>1
    <3>3. p \in Positions /\ head' = head + 1 /\ OpenBlock[p] <= head + 1
      BY <1>0 DEF OpenedIn
    <3> QED
      BY <3>1, <3>2, <3>3
  <2>2. \A q \in Positions \ {p} : balance'[q] = balance[q]
    BY <1>0, <2>1
  <2>3. balance'[p] = [b \in 0 .. MaxBlock |->
                         IF b < head + 1 THEN balance[p][b] ELSE v]
    BY <1>0, <2>1
  <2>4. \A b \in 0 .. MaxBlock :
          balance'[p][b] = IF b < head + 1 THEN balance[p][b] ELSE v
    BY <2>3
  <2>5. \A q \in Positions : \A b \in 0 .. head :
          balance'[q][b] = balance[q][b]
    <3> SUFFICES ASSUME NEW q \in Positions, NEW b \in 0 .. head
                 PROVE  balance'[q][b] = balance[q][b]
      OBVIOUS
    <3>1. b \in 0 .. MaxBlock /\ b < head + 1
      BY <1>0
    <3> QED
      BY <2>2, <2>4, <3>1
  <2>6. ASSUME NEW q \in Positions, NEW a \in 0 .. MaxBlock,
               NEW b \in 0 .. MaxBlock, OpenBlock[q] <= a, a <= b,
               \A l \in logs' : l.pos = q => ~(a < l.block /\ l.block <= b)
        PROVE  balance'[q][a] = balance'[q][b]
    <3>1. balance[q][a] = balance[q][b]
      BY <1>1, <2>6 DEF ChangeInv
    <3>2. CASE q # p
      BY <2>2, <3>1, <3>2
    <3>3. CASE q = p
      <4>1. ~(a < head + 1 /\ head + 1 <= b)
        <5> DEFINE l == [pos |-> p, block |-> head + 1, kind |-> kind]
        <5>1. l \in logs' /\ l.pos = p /\ l.block = head + 1
          BY <2>1
        <5> QED
          BY <2>6, <3>3, <5>1
      <4>2. \/ a < head + 1 /\ b < head + 1
            \/ ~(a < head + 1) /\ ~(b < head + 1)
        BY <1>0, <2>6, <4>1
      <4> QED
        BY <2>4, <3>1, <3>3, <4>2
    <3> QED
      BY <3>2, <3>3
  <2>7. ChangeInv'
    BY <2>6 DEF ChangeInv
  <2>8. ASSUME NEW q \in Positions, NEW b \in 0 .. MaxBlock, b < OpenBlock[q]
        PROVE  balance'[q][b] = 0
    <3>1. balance[q][b] = 0
      BY <2>8 DEF EmptyInv
    <3>2. q = p => b < head + 1
      BY <1>0, <2>1, <2>8
    <3> QED
      BY <2>2, <2>4, <3>1, <3>2
  <2>9. EmptyInv'
    BY <2>8 DEF EmptyInv
  <2> QED
    BY <2>5, <2>7, <2>9
<1> QED
  BY <1>2, <1>3

LEMMA OpenStep == TypeInv /\ OpenInv /\ [Next]_vars => OpenInv'
<1> SUFFICES ASSUME ChainOK, RowsOK, WindowOK, OpenInv, [Next]_vars
             PROVE  OpenInv'
  BY DEF TypeInv
<1>1. CASE Mine
  <2>1. ASSUME NEW l \in logs' PROVE OpenBlock[l.pos] <= l.block
    <3>1. CASE l \in logs
      BY <3>1 DEF OpenInv
    <3>2. CASE l \notin logs
      <4>1. PICK p \in OpenedIn(1, head'), kind \in Kinds :
              l = [pos |-> p, block |-> head', kind |-> kind]
        BY <1>1, <2>1, <3>2 DEF Mine
      <4>2. OpenBlock[p] <= head'
        BY DEF OpenedIn
      <4> QED
        BY <4>1, <4>2
    <3> QED
      BY <3>1, <3>2
  <2>2. UNCHANGED <<rows, stage, target, todo>>
    BY <1>1, MineFacts
  <2> QED
    BY <2>1, <2>2 DEF OpenInv
<1>2. CASE BootSeed
  <2>1. PICK h \in Nat :
          /\ rows' = [p \in OpenedIn(1, h) |-> SeedRow(p, h)]
          /\ \A p \in DOMAIN rows' : rows'[p].asOf = h
    BY <1>2, SeedFacts
  <2>2. \A p \in DOMAIN rows' : OpenBlock[p] <= rows'[p].asOf
    BY <2>1 DEF OpenedIn
  <2>3. logs' = logs /\ stage' = "idle"
    BY <1>2 DEF BootSeed, chain
  <2> QED
    BY <2>2, <2>3 DEF OpenInv, Active
<1>3. CASE StartTick \/ StartTickLied
  BY <1>3, StartTickFacts DEF OpenInv
<1>4. CASE DiscoverOne \/ RefreshOne
  <2>1. PICK p \in todo, c \in {"none", "log"} : HydrateAndUpsert(p, c)
    BY <1>4 DEF DiscoverOne, RefreshOne, FirstOf
  <2>2. stage \in Active /\ p \in Positions
    BY <1>4, <2>1 DEF DiscoverOne, RefreshOne, Active, WindowOK
  <2>3. UNCHANGED <<logs, stage, target>>
    BY <1>4 DEF DiscoverOne, RefreshOne, tickVars, chain
  <2>4. /\ DOMAIN rows' = DOMAIN rows \cup {p}
        /\ \A q \in DOMAIN rows \ {p} : rows'[q] = rows[q]
        /\ rows'[p].asOf \in Nat /\ rows'[p].asOf >= target
        /\ todo' = todo \ {p}
    BY <2>1, <2>2, HydrateFacts
  <2>5. OpenBlock[p] <= rows'[p].asOf
    <3>1. OpenBlock[p] <= target
      BY <2>1, <2>2 DEF OpenInv
    <3>2. OpenBlock[p] \in Nat /\ target \in Nat
      BY <2>2, ChainAssumption DEF WindowOK
    <3> QED
      BY <2>4, <3>1, <3>2
  <2> QED
    BY <2>3, <2>4, <2>5 DEF OpenInv
<1>5. CASE StartRefresh
  <2>1. UNCHANGED <<logs, rows, target>> /\ todo' = Touched
    BY <1>5 DEF StartRefresh, chain, tickVars
  <2>2. ASSUME NEW p \in Touched PROVE OpenBlock[p] <= target
    <3>1. PICK l \in logs : l.pos = p /\ l.block \in from .. target
      BY DEF Touched
    <3>2. OpenBlock[p] <= l.block /\ l.block <= target
      BY <3>1 DEF OpenInv
    <3>3. OpenBlock[p] \in Nat /\ l.block \in Nat /\ target \in Nat
      BY <2>2, ChainAssumption DEF Touched, RowsOK, ChainOK, Log, WindowOK
    <3> QED
      BY <3>2, <3>3
  <2> QED
    BY <2>1, <2>2 DEF OpenInv
<1>6. CASE HydrateFails \/ StartRefreshLied
  <2>1. /\ UNCHANGED <<logs, rows, target>> /\ todo' \subseteq todo
        /\ stage \in Active
    BY <1>6 DEF HydrateFails, StartRefreshLied, chain, tickVars, Active
  <2> QED
    BY <2>1 DEF OpenInv
<1>7. CASE BootResume \/ Commit \/ StageFails \/ Restart
  <2>1. UNCHANGED <<logs, rows>> /\ stage' \notin Active
    BY <1>7 DEF BootResume, Commit, StageFails, Restart, chain, Active
  <2> QED
    BY <2>1 DEF OpenInv
<1>8. CASE UNCHANGED vars
  BY <1>8 DEF vars, chain, tickVars, OpenInv
<1> QED
  BY <1>1, <1>2, <1>3, <1>4, <1>5, <1>6, <1>7, <1>8 DEF Next, Tick, Idle

LEMMA TruthStep ==
  TypeInv /\ EmptyInv /\ ChangeInv /\ TruthInv /\ [Next]_vars => TruthInv'
<1> SUFFICES ASSUME ChainOK, RowsOK, WindowOK, EmptyInv, ChangeInv, TruthInv,
                    [Next]_vars
             PROVE  TruthInv'
  BY DEF TypeInv
<1>1. CASE Mine
  <2>1. /\ head' = head + 1 /\ rows' = rows /\ blind' = blind
        /\ logs \subseteq logs'
    BY <1>1, MineFacts
  <2> SUFFICES ASSUME NEW p \in DOMAIN rows
               PROVE  /\ rows[p].asOf <= head'
                      /\ rows[p].closed \/ rows[p].denied
                           => DeniedBy(p, head)'
                      /\ p \notin blind /\ rows[p].collateral = 0
                           => balance'[p][rows[p].asOf] = 0
    BY <2>1 DEF TruthInv
  <2>2. /\ rows[p].asOf \in Nat /\ rows[p].asOf <= head /\ head \in Nat
        /\ p \in Positions
    BY DEF RowsOK, Row, TruthInv, ChainOK
  <2>3. DeniedBy(p, head) => DeniedBy(p, head)'
    <3>1. \A l \in logs : l.block \in Nat
      BY DEF ChainOK, Log
    <3> QED
      BY <2>1, <2>2, <3>1 DEF DeniedBy
  <2>4. balance'[p][rows[p].asOf] = balance[p][rows[p].asOf]
    BY <1>1, <2>2, MineChange
  <2> QED
    BY <2>1, <2>2, <2>3, <2>4 DEF TruthInv
<1>2. CASE BootSeed
  <2>1. PICK h \in Nat :
          /\ h <= head
          /\ rows' = [p \in OpenedIn(1, h) |-> SeedRow(p, h)]
    BY <1>2, SeedFacts
  <2>2. UNCHANGED <<head, logs, balance>>
    BY <1>2 DEF BootSeed, chain
  <2>3. \A p : DeniedBy(p, h) => DeniedBy(p, head)'
    <3>1. head \in Nat /\ \A l \in logs : l.block \in Nat
      BY DEF ChainOK, Log
    <3> QED
      BY <2>1, <2>2, <3>1 DEF DeniedBy
  <2>4. \A p \in DOMAIN rows' :
          /\ rows'[p].asOf = h /\ rows'[p].closed = DeniedBy(p, h)
          /\ rows'[p].denied = DeniedBy(p, h)
          /\ rows'[p].collateral = balance[p][h]
    BY <2>1 DEF SeedRow
  <2> QED
    BY <2>1, <2>2, <2>3, <2>4 DEF TruthInv
<1>3. CASE DiscoverOne \/ RefreshOne
  <2>1. PICK p \in todo, c \in {"none", "log"} : HydrateAndUpsert(p, c)
    BY <1>3 DEF DiscoverOne, RefreshOne, FirstOf
  <2>2. stage \in Active /\ p \in Positions
    BY <1>3, <2>1 DEF DiscoverOne, RefreshOne, Active, WindowOK
  <2>3. UNCHANGED <<head, logs, balance>>
    BY <1>3 DEF DiscoverOne, RefreshOne, chain
  <2>4. /\ DOMAIN rows' = DOMAIN rows \cup {p}
        /\ \A q \in DOMAIN rows \ {p} : rows'[q] = rows[q]
        /\ rows'[p].asOf \in Nat /\ rows'[p].asOf <= head
        /\ rows'[p].closed = DeniedBy(p, rows'[p].asOf)
    BY <2>1, <2>2, HydrateFacts
  <2>5. /\ rows'[p].denied => p \in DOMAIN rows /\ rows[p].denied
        /\ p \notin blind' /\ rows'[p].collateral = 0
             => balance[p][rows'[p].asOf] = 0
        /\ \A q \in Positions \ {p} : q \in blind' <=> q \in blind
    BY <2>1, <2>2, HydrateReads
  <2>6. rows'[p].closed => DeniedBy(p, head)
    <3> SUFFICES ASSUME rows'[p].closed PROVE DeniedBy(p, head)
      OBVIOUS
    <3>1. DeniedBy(p, rows'[p].asOf)
      BY <2>4
    <3>2. PICK l \in logs : /\ l.pos = p /\ l.kind = "PositionDenied"
                            /\ l.block <= rows'[p].asOf
      BY <3>1 DEF DeniedBy
    <3>3. l.block <= head
      BY DEF ChainOK
    <3> QED
      BY <3>2, <3>3 DEF DeniedBy
  <2>7. rows'[p].denied => DeniedBy(p, head)
    BY <2>5 DEF TruthInv
  <2>8. \A q : DeniedBy(q, head)' <=> DeniedBy(q, head)
    BY <2>3 DEF DeniedBy
  <2>9. DOMAIN rows \subseteq Positions
    BY DEF RowsOK
  <2> SUFFICES ASSUME NEW q \in DOMAIN rows'
               PROVE  /\ rows'[q].asOf <= head
                      /\ rows'[q].closed \/ rows'[q].denied
                           => DeniedBy(q, head)
                      /\ q \notin blind' /\ rows'[q].collateral = 0
                           => balance[q][rows'[q].asOf] = 0
    BY <2>3, <2>8 DEF TruthInv
  <2>10. CASE q = p
    BY <2>4, <2>5, <2>6, <2>7, <2>10
  <2>11. CASE q # p
    BY <2>4, <2>5, <2>9, <2>11 DEF TruthInv
  <2> QED
    BY <2>10, <2>11
<1>4. CASE BootResume \/ StartTick \/ StartTickLied \/ StartRefresh
             \/ StartRefreshLied \/ HydrateFails \/ Commit \/ StageFails
             \/ Restart \/ UNCHANGED vars
  <2>1. UNCHANGED <<head, logs, balance, rows, blind>>
    BY <1>4 DEF BootResume, StartTick, StartTickLied, StartRefresh,
                StartRefreshLied, HydrateFails, Commit, StageFails, Restart,
                vars, chain
  <2> QED
    BY <2>1 DEF TruthInv, DeniedBy
<1> QED
  BY <1>1, <1>2, <1>3, <1>4 DEF Next, Tick, Idle

LEMMA AliveInit == Init => AliveInv
<1> SUFFICES ASSUME Init PROVE AliveInv
  OBVIOUS
<1>1. ChangeInv
  <2> SUFFICES ASSUME NEW p \in Positions, NEW a \in 0 .. MaxBlock,
                      NEW b \in 0 .. MaxBlock, OpenBlock[p] <= a, a <= b
               PROVE  balance[p][a] = balance[p][b]
    BY DEF ChangeInv
  <2>1. OpenBlock[p] \in Nat /\ ~(a < OpenBlock[p]) /\ ~(b < OpenBlock[p])
    BY ChainAssumption
  <2> QED
    BY <2>1 DEF Init
<1>2. OpenInv /\ TruthInv
  BY DEF Init, OpenInv, TruthInv, Active
<1>3. EmptyInv
  BY DEF Init, EmptyInv
<1> QED
  BY <1>1, <1>2, <1>3 DEF AliveInv

LEMMA AliveStep == TypeInv /\ AliveInv /\ [Next]_vars => AliveInv'
<1> SUFFICES ASSUME TypeInv, AliveInv, [Next]_vars PROVE AliveInv'
  OBVIOUS
<1>1. EmptyInv' /\ ChangeInv'
  <2>1. CASE Mine
    BY <2>1, MineChange DEF TypeInv, AliveInv
  <2>2. CASE ~Mine
    <3>1. UNCHANGED <<logs, balance>>
      BY <2>2, ChainStill DEF Next, Idle, chain
    <3> QED
      BY <3>1 DEF AliveInv, EmptyInv, ChangeInv
  <2> QED
    BY <2>1, <2>2
<1> QED
  BY <1>1, OpenStep, TruthStep DEF AliveInv

\* A position that has been open and backed since last_block, or since the
\* delay of the failures so far before it, is in the table and on the list,
\* unless no balance of it has been read since one failed to be.
THEOREM AliveAreListed ==
  ASSUME LagCovered PROVE Spec => []AliveListed
<1>1. TypeInv /\ ReadInv /\ FoundInv /\ AliveInv => AliveListed
  <2> SUFFICES ASSUME TypeInv, ReadInv, FoundInv, AliveInv, Ticked,
                      NEW p \in Positions \ blind,
                      AliveSince(p, last - Delay)
               PROVE  p \in Monitored
    BY DEF AliveListed
  <2> DEFINE s == last - Delay
  <2>1. /\ last \in Nat /\ head \in Nat /\ last <= head /\ MaxBlock \in Nat
        /\ head <= MaxBlock /\ OpenBlock[p] \in Nat
        /\ Delay \in Nat /\ Delay <= Overlap /\ Overlap \in Nat
    BY ChainAssumption, WindowAssumption, DelayFacts
    DEF TypeInv, ChainOK, WindowOK
  <2>2. last > Overlap
    BY <2>1, ChainAssumption, WindowAssumption DEF TypeInv, WindowOK, Ticked
  <2>3. s \in Nat /\ s <= head /\ s <= last
    BY <2>1, <2>2
  <2>4. \A c \in s .. head : balance[p][c] > 0 /\ ~DeniedBy(p, c)
    BY DEF AliveSince
  <2>5. p \in DOMAIN rows
    <3> SUFFICES ASSUME p \notin DOMAIN rows PROVE FALSE
      OBVIOUS
    <3>1. last < OpenBlock[p] + Delay
      BY DEF FoundInv, Ahead
    <3>2. s < OpenBlock[p] /\ s \in 0 .. MaxBlock
      BY <2>1, <2>3, <3>1
    <3>3. balance[p][s] = 0
      BY <3>2 DEF AliveInv, EmptyInv
    <3> QED
      BY <2>1, <2>3, <2>4, <3>3
  <2>6. rows[p] \in Row
    BY <2>5 DEF TypeInv, RowsOK
  <2>7. ~rows[p].closed /\ ~rows[p].denied
    <3>1. ~DeniedBy(p, head)
      BY <2>1, <2>3, <2>4
    <3> QED
      BY <2>5, <3>1 DEF AliveInv, TruthInv
  <2>8. ASSUME rows[p].collateral = 0 PROVE FALSE
    <3> DEFINE a == rows[p].asOf
    <3>1. /\ a \in Nat /\ a <= head /\ OpenBlock[p] <= a /\ balance[p][a] = 0
      BY <2>5, <2>6, <2>8 DEF AliveInv, TruthInv, OpenInv, Row
    <3> HIDE DEF s
    <3>2. a < s /\ balance[p][s] > 0
      BY <2>1, <2>3, <2>4, <3>1
    <3>3. \A l \in logs : l.pos = p => ~(a < l.block /\ l.block <= s)
      <4> SUFFICES ASSUME NEW l \in logs, l.pos = p, a < l.block, l.block <= s
                   PROVE  FALSE
        OBVIOUS
      <4>1. l.block \in Nat
        BY DEF TypeInv, ChainOK, Log
      <4>2. ~Ahead(l.block)
        BY <2>1, <4>1 DEF Ahead, s
      <4> QED
        BY <2>5, <3>1, <4>1, <4>2 DEF ReadInv
    <3>4. a \in 0 .. MaxBlock /\ s \in 0 .. MaxBlock
      BY <2>1, <2>3, <3>1
    <3>5. balance[p][a] = balance[p][s]
      BY <2>1, <2>3, <3>1, <3>2, <3>3, <3>4 DEF AliveInv, ChangeInv
    <3> QED
      BY <3>1, <3>2, <3>5
  <2> QED
    BY <2>5, <2>6, <2>7, <2>8 DEF Monitored, Row
<1> QED
  BY <1>1, AliveInit, AliveStep, ReadSpec, PTL DEF Spec
=============================================================================
