-------------------------- MODULE MCChallengeBoot --------------------------
(***************************************************************************)
(* A history with events on both sides of last_block for TLC, and what a   *)
(* peer serves that has indexed it up to a height.                         *)
(***************************************************************************)
EXTENDS ChallengeBoot, MCChallengeScan

\* c opens and is averted for 1 before last_block (Base = 4), d opens after
\* it; both are finished in one transaction.
SeededHistory == <<
  Started("c", 3, 2, 1, 1),
  Averted("c", 1, 4, 2, 1),
  Started("d", 1, 5, 3, 1),
  Succeeded("c", 2, 2, 6, 4, 1),
  Averted("d", 1, 6, 4, 3) >>

LogsUpTo(c, h) == {l \in BidLogsOf(c) : History[l].block <= h}
Rank(l) == Cardinality({m \in BidLogsOf(History[l].chal) : Before(m, l)})
SizeOf(c) == History[CHOOSE l \in Logs \ BidLogs : History[l].chal = c].size

PeerRow(c, h) ==
  LET own == LogsUpTo(c, h)
      filled == MapThenSumSet(LAMBDA l : History[l].size, own)
  IN  [size |-> SizeOf(c), filled |-> filled, bids |-> Cardinality(own),
       acq |-> MapThenSumSet(LAMBDA l : History[l].acq, own),
       status |-> IF filled < SizeOf(c) THEN "Active"
                  ELSE FinalStatusName(History[
                         CHOOSE l \in own : \A m \in own \ {l} :
                                              Before(m, l)].kind),
       complete |-> TRUE]

SeededPeerChals ==
  [h \in Heights |->
     [c \in {History[l].chal : l \in {m \in Logs \ BidLogs :
                                        History[m].block <= h}} |->
        PeerRow(c, h)]]

PeerBid(l) ==
  [key |-> Key(l), kind |-> History[l].kind, priced |-> TRUE,
   filled |-> IF History[l].kind = "Averted" THEN History[l].size
              ELSE History[l].acq,
   size |-> IF History[l].kind = "Averted" THEN SizeOf(History[l].chal)
            ELSE History[l].size]

SeededPeerBids ==
  [h \in Heights |->
     LET upTo == {l \in BidLogs : History[l].block <= h}
         Id(l) == <<History[l].chal, Rank(l)>>
     IN  [b \in {Id(l) : l \in upTo} |->
            PeerBid(CHOOSE l \in upTo : Id(l) = b)]]
=============================================================================
