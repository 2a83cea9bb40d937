--------------------------- MODULE ChallengeBook ---------------------------
(***************************************************************************)
(* What the challenges and bids tables promise, whatever order and however *)
(* often the chain's logs are scanned: a challenge is opened once, and     *)
(* each Averted or Succeeded log is added to its challenge exactly once.   *)
(* A reader of the API sees only this book; ChallengeScan implements it    *)
(* with overlapping rescans, two separate writes per log and an            *)
(* idempotency lookup.                                                     *)
(***************************************************************************)
EXTENDS Integers

CONSTANTS Challenges,   \* (position, number) pairs
          History       \* the hub's logs, see ChallengeScan

VARIABLES book,         \* challenge -> totals, for the challenges opened
          applied       \* the bid logs added so far

bookVars == <<book, applied>>

Finals == [Averted |-> "Averted", Succeeded |-> "Success"]

Init == book = << >> /\ applied = {}

\* ChallengeStarted: the row of a challenge appears, empty and Active.
Open(l) ==
  /\ History[l].kind = "Started"
  /\ History[l].chal \notin DOMAIN book
  /\ book' = [c \in DOMAIN book \cup {History[l].chal} |->
                IF c = History[l].chal
                  THEN [size |-> History[l].size, filled |-> 0, acq |-> 0,
                        status |-> "Active"]
                  ELSE book[c]]
  /\ UNCHANGED applied

\* ChallengeAverted / ChallengeSucceeded: one log, added once.
Apply(l) ==
  LET e == History[l]
  IN  /\ e.kind \in DOMAIN Finals
      /\ l \notin applied
      /\ e.chal \in DOMAIN book
      /\ applied' = applied \cup {l}
      /\ book' = [book EXCEPT ![e.chal] =
           [size   |-> @.size,
            filled |-> @.filled + e.size,
            acq    |-> @.acq + e.acq,
            status |-> IF @.filled + e.size >= @.size
                         THEN Finals[e.kind] ELSE @.status]]

Next == \E l \in DOMAIN History : Open(l) \/ Apply(l)

Spec == Init /\ [][Next]_bookVars

=============================================================================
