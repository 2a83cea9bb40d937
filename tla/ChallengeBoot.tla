--------------------------- MODULE ChallengeBoot ---------------------------
(***************************************************************************)
(* ChallengeScan with the start of the process: BootstrapChallenges of     *)
(* indexer/bootstrap_challenges.go runs before the first tick, and again   *)
(* at every start until its marker is set.                                 *)
(*                                                                         *)
(* The seed is three writes, the challenges, the bids and the marker; the  *)
(* lists come from two requests, to peers that have indexed the chain up   *)
(* to a height of their own.  The bids are served by the official API      *)
(* only, and without their logIndex.  The tick starts from last_block,     *)
(* whatever became of the seed.                                            *)
(***************************************************************************)
EXTENDS ChallengeScan

CONSTANTS
  PeerChals,  \* height -> table challenges of a peer that has indexed so far
  PeerBids,   \* height -> table bids of such a peer
  PeerLag,    \* bound: blocks a peer is behind the newest indexable block
  PeerLead,   \* bound: blocks a peer is ahead of it
  BootFaults  \* the calls of the bootstrap that may fail

Heights == 0..MaxBlock

BootCalls == {"GetMeta",               \* the SELECT of the marker fails
              "Challenges",            \* head or challenge list not fetched
              "Bids",                  \* bid list not fetched
              "BulkUpsertChallenges", "BulkUpsertBids", "SetMeta",
              "restart"}               \* the process ends between two ticks

ASSUME PeerAssumption ==
  /\ PeerLag \in Nat /\ PeerLead \in Nat /\ BootFaults \subseteq BootCalls
  /\ \A h \in Heights :
       /\ DOMAIN PeerChals[h] =
            {History[l].chal : l \in {m \in Logs \ BidLogs :
                                        History[m].block <= h}}
       /\ PeerChals[h] \in [DOMAIN PeerChals[h] -> Row]
       /\ DOMAIN PeerBids[h] \subseteq Challenges \X Nat
       /\ PeerBids[h] \in [DOMAIN PeerBids[h] -> Bid]
       /\ \A b \in DOMAIN PeerBids[h] : b[1] \in DOMAIN PeerChals[h]

VARIABLES
  marked,   \* meta.bootstrap_chal_block is set
  stage,    \* how far BootstrapChallenges is; "run": it has returned
  chalsAt,  \* height of the challenge list at hand
  bidsAt,   \* height of the bid list at hand, None: no peer served one
  blanked   \* history: challenges whose row a handler has last written with
            \* neither the old row nor the position at hand

None == -1
boot == <<marked, stage, chalsAt, bidsAt>>
allVars == <<vars, boot, blanked>>
-----------------------------------------------------------------------------
SpendBoot(call) ==
  /\ call \in BootFaults
  /\ faultsLeft > 0
  /\ faultsLeft' = faultsLeft - 1

\* How far the peer that answers has indexed.
AnswerHeights == {h \in Heights : tip - PeerLag <= h /\ h <= tip + PeerLead}

\* INSERT ... ON CONFLICT(id) DO UPDATE of a whole list, in one transaction.
BulkUpsert(table, list) ==
  [k \in DOMAIN table \cup DOMAIN list |->
     IF k \in DOMAIN list THEN list[k] ELSE table[k]]

\* convertBid: the API's bid has a txHash and no logIndex.
ConvertBid(row) == [row EXCEPT !.key = <<row.key[1], 0>>]

Converted(list) == [b \in DOMAIN list |-> ConvertBid(list[b])]

\* The rows the bids' writes store: none when no peer served a list.
SeedBids == IF bidsAt = None THEN << >> ELSE Converted(PeerBids[bidsAt])
-----------------------------------------------------------------------------
BootInit ==
  /\ Init
  /\ marked = FALSE
  /\ stage = "start" /\ chalsAt = None /\ bidsAt = None
  /\ blanked = {}

\* A step of the bootstrap that writes nothing.
Reads == UNCHANGED <<tables, loop, todo, cur, pend, marked, blanked>>

\* Already seeded: a no-op.
AlreadySeeded ==
  /\ stage = "start"
  /\ marked
  /\ stage' = "run"
  /\ Reads /\ UNCHANGED <<chalsAt, bidsAt, faultsLeft>>

\* Not seeded yet, or so it seems: a failure of GetMeta is dropped and the
\* marker taken for unset.
StartSeed ==
  /\ stage = "start"
  /\ \/ ~marked /\ UNCHANGED faultsLeft
     \/ SpendBoot("GetMeta")
  /\ stage' = "fetch"
  /\ Reads /\ UNCHANGED <<chalsAt, bidsAt>>

\* The head and the challenge list are fetched.
FetchChallenges ==
  /\ stage = "fetch"
  /\ chalsAt' \in AnswerHeights
  /\ stage' = "bids"
  /\ Reads /\ UNCHANGED <<bidsAt, faultsLeft>>

\* Variant: a failed fetch sets the marker too.
FetchFailsMarking ==
  /\ stage = "fetch"
  /\ SpendBoot("Challenges")
  /\ stage' = "run"
  /\ marked' = TRUE
  /\ UNCHANGED <<tables, loop, todo, cur, pend, chalsAt, bidsAt, blanked>>

\* No head, or no peer: the marker stays unset and the ticks begin.
FetchChallengesFails ==
  /\ stage = "fetch"
  /\ SpendBoot("Challenges")
  /\ stage' = "run"
  /\ Reads /\ UNCHANGED <<chalsAt, bidsAt>>

\* Variant: the bids are stored as they come, before the challenges.
FetchBidsStoring ==
  /\ stage = "bids"
  /\ bidsAt' \in AnswerHeights
  /\ bids' = BulkUpsert(bids, Converted(PeerBids[bidsAt']))
  /\ stage' = "storeChals"
  /\ UNCHANGED <<chals, loop, todo, cur, pend, marked, chalsAt, blanked,
                 faultsLeft>>

\* The bid list, fetched or given up.
FetchBids ==
  /\ stage = "bids"
  /\ \/ bidsAt' \in AnswerHeights /\ UNCHANGED faultsLeft
     \/ SpendBoot("Bids") /\ bidsAt' = None
  /\ stage' = "storeChals"
  /\ Reads /\ UNCHANGED chalsAt

\* BootstrapChallenges returns and forgets its lists.
Return ==
  /\ stage' = "run"
  /\ chalsAt' = None /\ bidsAt' = None

\* BulkUpsertChallenges, the first write.
StoreChals ==
  /\ stage = "storeChals"
  /\ \/ /\ chals' = BulkUpsert(chals, PeerChals[chalsAt])
        /\ stage' = "storeBids"
        /\ UNCHANGED <<chalsAt, bidsAt, faultsLeft>>
     \/ /\ SpendBoot("BulkUpsertChallenges")
        /\ Return
        /\ UNCHANGED chals
  /\ blanked' = IF stage' = "storeBids" THEN blanked \ DOMAIN PeerChals[chalsAt]
                ELSE blanked
  /\ UNCHANGED <<bids, loop, todo, cur, pend, marked>>

\* BulkUpsertBids, the second.
StoreSeedBids ==
  /\ stage = "storeBids"
  /\ \/ /\ bids' = BulkUpsert(bids, SeedBids)
        /\ stage' = "mark"
        /\ UNCHANGED <<chalsAt, bidsAt, faultsLeft>>
     \/ /\ SpendBoot("BulkUpsertBids")
        /\ Return
        /\ UNCHANGED bids
  /\ UNCHANGED <<chals, loop, todo, cur, pend, marked, blanked>>

\* SetMeta, the third.
Mark ==
  /\ stage = "mark"
  /\ \/ marked' = TRUE /\ UNCHANGED faultsLeft
     \/ SpendBoot("SetMeta") /\ UNCHANGED marked
  /\ Return
  /\ UNCHANGED <<tables, loop, todo, cur, pend, blanked>>

\* The process ends inside the bootstrap or between two ticks.
StopOutsideTick ==
  /\ phase = "idle"
  /\ SpendBoot("restart")
  /\ stage' = "start" /\ chalsAt' = None /\ bidsAt' = None
  /\ Reads

\* The process ends inside a tick.
StopInTick ==
  /\ Restart
  /\ stage' = "start" /\ chalsAt' = None /\ bidsAt' = None
  /\ UNCHANGED <<marked, blanked>>

Boot ==
  \/ AlreadySeeded \/ StartSeed \/ FetchChallenges \/ FetchChallengesFails
  \/ FetchBids \/ StoreChals \/ StoreSeedBids \/ Mark

\* A step of a tick: a row that it completes is blank no more.
Tick ==
  /\ stage = "run" /\ Scan
  /\ blanked' = {c \in DOMAIN chals' :
                   /\ ~chals'[c].complete
                   /\ \/ c \in blanked
                      \/ \E l \in Logs :
                           /\ History[l].chal = c
                           /\ StartedFresh(l, FALSE, FALSE)}
  /\ UNCHANGED boot

BootNext ==
  \/ Boot \/ Tick
  \/ StopOutsideTick \/ StopInTick
  \/ stage = "run" /\ Idle /\ UNCHANGED <<boot, blanked>>
  \/ Mine /\ UNCHANGED <<boot, blanked>>

BootSpec == BootInit /\ [][BootNext]_allVars

\* The bootstrap returns, the ticks run on, the chain grows.
FairBootSpec ==
  BootSpec /\ WF_allVars(Boot) /\ WF_allVars(Tick)
           /\ WF_allVars(Mine /\ UNCHANGED <<boot, blanked>>)
-----------------------------------------------------------------------------
Stages == {"start", "fetch", "bids", "storeChals", "storeBids", "mark", "run"}

\* Every variable has its type; no tick runs before the bootstrap returns,
\* which holds lists only while it has something to store.
BootTypeOK ==
  /\ TypeOK
  /\ marked \in BOOLEAN /\ stage \in Stages
  /\ chalsAt \in Heights \cup {None} /\ bidsAt \in Heights \cup {None}
  /\ stage \notin {"start", "fetch", "run"} => chalsAt \in Heights
  /\ stage # "run" => phase = "idle"
  /\ blanked \subseteq DOMAIN chals

\* "historical data" is complete once the marker is set: every challenge the
\* hub announced up to the blocks no tick will scan again has its row, from
\* the seed or from a scan, however old the peers' list was and wherever the
\* seed was cut ("losing all historical data forever" is what the marker is
\* set last for).
AnnouncedKnown ==
  marked => \A l \in Logs \ BidLogs :
              History[l].block + Overlap <= last =>
                History[l].chal \in DOMAIN chals

\* The bids come with a second request, perhaps from a peer further ahead, and
\* are written after the challenges: whatever fails in between, a bid whose
\* challenge has no row is of one that the next scans announce.
OrphansAwaited ==
  \A b \in DOMAIN bids :
    \/ b[1] \in DOMAIN chals
    \/ \E l \in Logs \ BidLogs :
         History[l].chal = b[1] /\ History[l].block + Overlap > last

\* Once seeded, every challenge ever announced ends up in a complete row,
\* those before last_block by the seed and the others by the scans, unless
\* the last handler to write it had lost the SELECT of the row, so that it
\* replaced it, and the position too (challenges.go, lines 149 to 192).
SeededRowsCompleted ==
  <>[](marked =>
         \A l \in Logs \ BidLogs :
           /\ History[l].chal \in DOMAIN chals
           /\ chals[History[l].chal].complete \/ History[l].chal \in blanked)
=============================================================================
