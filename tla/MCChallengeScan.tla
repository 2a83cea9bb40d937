-------------------------- MODULE MCChallengeScan --------------------------
(***************************************************************************)
(* Histories of the hub for TLC.  Blocks 1 .. Base are the time before     *)
(* the indexer was seeded; the events come right after it.                 *)
(***************************************************************************)
EXTENDS ChallengeScan, Sequences

Started(c, size, b, tx, idx) ==
  [kind |-> "Started", chal |-> c, size |-> size, acq |-> 0,
   block |-> b, tx |-> tx, idx |-> idx]
Averted(c, size, b, tx, idx) ==
  [kind |-> "Averted", chal |-> c, size |-> size, acq |-> 0,
   block |-> b, tx |-> tx, idx |-> idx]
Succeeded(c, size, acq, b, tx, idx) ==
  [kind |-> "Succeeded", chal |-> c, size |-> size, acq |-> acq,
   block |-> b, tx |-> tx, idx |-> idx]

\* c is averted for 1 and taken for 2 of its 3, the last two in one
\* transaction; d opens in the block of c's first bid and is averted at once.
TwoChallenges == <<
  Started("c", 3, 4, 1, 0),
  Averted("c", 1, 5, 2, 0),
  Started("d", 1, 5, 2, 1),
  Succeeded("c", 1, 1, 6, 3, 0),
  Succeeded("c", 1, 2, 6, 3, 1),
  Averted("d", 1, 6, 4, 2) >>
=============================================================================
