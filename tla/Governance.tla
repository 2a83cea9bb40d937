----------------------------- MODULE Governance -----------------------------
(***************************************************************************)
(* indexer/bootstrap_governance.go, sources.go and store/governance.go:    *)
(* the governance tables.  At boot and then on every tick,                 *)
(* refreshGovernanceOnce fetches four sources in parallel and waits for    *)
(* all of them; each source tries its peers in order and replaces its      *)
(* table, in one transaction, by what the first good peer sent.  leadrate  *)
(* has two tables, replaced in two transactions; the official API serves   *)
(* them from two endpoints.                                                *)
(*                                                                         *)
(* A table's rows are kept as the version of the truth they come from, 0   *)
(* for an empty table.  The official API and ponder serve the truth; a     *)
(* grenadier peer serves a copy that lags behind it, empty at first.  Of   *)
(* ponder's pages, the version of the first counts.                        *)
(*                                                                         *)
(* Definitions marked "Variant" are no part of the specification.          *)
(***************************************************************************)
EXTENDS Integers, Sequences

CONSTANTS
  Sources,      \* the sources that are fetched: four in the code
  Broken,       \* those that no peer serves
  MaxVersion,   \* bound: versions of the truth
  MaxFaults     \* bound: failures and crashes

ASSUME SourceAssumption ==
  /\ Sources \subseteq {"minters", "leadrate", "holders", "delegations"}
  /\ Broken \subseteq Sources
ASSUME BoundAssumption == MaxVersion \in Nat /\ MaxFaults \in Nat

\* The tables of a source, in the order they are stored.
TablesOf(s) == IF s = "leadrate" THEN <<"approved", "proposed">> ELSE <<s>>

\* peers, and which of them a source is fetched from.
PeersOf(s) ==
  IF s \in {"minters", "leadrate"}
    THEN <<"grenadier", "official">>
    ELSE <<"grenadier", "ponder">>

AllOf(s) == {TablesOf(s)[i] : i \in 1 .. Len(TablesOf(s))}
Tables == UNION {AllOf(s) : s \in Sources}

VARIABLES
  truth,    \* the newest version
  mirror,   \* per table: the version the grenadier peer serves
  table,    \* per table: the version stored
  by,       \* history, per table: the peer whose answer replaced it in this
            \* refresh, "none" for none
  proc,     \* down, idle between two ticks, or in a refresh
  step,     \* per source: ask a peer, store its answer, or done
  peer,     \* per source: which of PeersOf is asked
  got,      \* per table: the version fetched, 0 if none is
  unread,   \* per source: tables its peer has not sent yet
  stored,   \* per source: how many of its tables this peer's answer replaced
  outcome,  \* per source: none yet, ok or err
  faults    \* how many failures and crashes are still to come

stores == <<table, by>>
fetchers == <<step, peer, got, unread, stored, outcome>>
vars == <<truth, mirror, table, by, proc, step, peer, got, unread, stored,
          outcome, faults>>

Peer(s) == PeersOf(s)[peer[s]]
-----------------------------------------------------------------------------
Init ==
  /\ truth = 1
  /\ mirror = [t \in Tables |-> 0]
  /\ table = [t \in Tables |-> 0] /\ by = [t \in Tables |-> "none"]
  /\ proc = "down"
  /\ step = [s \in Sources |-> "done"]
  /\ peer = [s \in Sources |-> 1]
  /\ got = [t \in Tables |-> 0]
  /\ unread = [s \in Sources |-> {}]
  /\ stored = [s \in Sources |-> 0]
  /\ outcome = [s \in Sources |-> "none"]
  /\ faults = MaxFaults

\* Minters are proposed, rates change, shares move.
Publish ==
  /\ truth < MaxVersion
  /\ truth' = truth + 1
  /\ UNCHANGED <<mirror, proc, faults, stores, fetchers>>

\* The peer takes the truth for a table of its own, if it ever does.
MirrorRefreshes(t) ==
  /\ mirror[t] # truth
  /\ \A s \in Broken : t \notin AllOf(s)
  /\ mirror' = [mirror EXCEPT ![t] = truth]
  /\ UNCHANGED <<truth, proc, faults, stores, fetchers>>

\* BootstrapGovernance at boot, then RunGovernanceRefresh's ticks.
StartRefresh ==
  /\ proc # "refresh"
  /\ proc' = "refresh"
  /\ step' = [s \in Sources |-> "ask"]
  /\ peer' = [s \in Sources |-> 1]
  /\ got' = [t \in Tables |-> 0]
  /\ unread' = [s \in Sources |-> AllOf(s)]
  /\ stored' = [s \in Sources |-> 0]
  /\ outcome' = [s \in Sources |-> "none"]
  /\ by' = [t \in Tables |-> "none"]
  /\ UNCHANGED <<truth, mirror, faults, table>>

\* The fetchers' local state is gone with them.
NoFetcher ==
  /\ step' = [s \in Sources |-> "done"]
  /\ peer' = [s \in Sources |-> 1]
  /\ got' = [t \in Tables |-> 0]
  /\ unread' = [s \in Sources |-> {}]
  /\ stored' = [s \in Sources |-> 0]

\* What has come from the peer: a grenadier peer answers for all tables at
\* once, the official API for one at a time.
Receive(s) ==
  \E T \in SUBSET unread[s] :
    /\ T # {}
    /\ Peer(s) = "grenadier" => T = unread[s]
    /\ got' = [t \in Tables |->
                 IF t \notin T THEN got[t]
                 ELSE IF Peer(s) = "grenadier" THEN mirror[t] ELSE truth]
    /\ unread' = [unread EXCEPT ![s] = @ \ T]

Answered(s) ==
  /\ step[s] = "ask"
  /\ s \notin Broken
  /\ Receive(s)
  /\ step' = [step EXCEPT ![s] = IF unread'[s] = {} THEN "store" ELSE "ask"]
  /\ UNCHANGED <<truth, mirror, proc, faults, stores, peer, stored, outcome>>

\* Variant: the next peer is asked only for what has not come yet.
NextPeerKeepsRead(s) ==
  IF peer[s] < Len(PeersOf(s))
    THEN /\ peer' = [peer EXCEPT ![s] = @ + 1]
         /\ step' = [step EXCEPT ![s] = IF unread[s] = {} THEN "store" ELSE "ask"]
         /\ stored' = [stored EXCEPT ![s] = 0]
         /\ UNCHANGED <<unread, outcome>>
    ELSE /\ step' = [step EXCEPT ![s] = "done"]
         /\ outcome' = [outcome EXCEPT ![s] = "err"]
         /\ UNCHANGED <<peer, unread, stored>>

\* Variant: the next peer's answer is stored from the table that failed.
NextPeerResumes(s) ==
  IF peer[s] < Len(PeersOf(s))
    THEN /\ peer' = [peer EXCEPT ![s] = @ + 1]
         /\ step' = [step EXCEPT ![s] = "ask"]
         /\ unread' = [unread EXCEPT ![s] = AllOf(s)]
         /\ UNCHANGED <<stored, outcome>>
    ELSE /\ step' = [step EXCEPT ![s] = "done"]
         /\ outcome' = [outcome EXCEPT ![s] = "err"]
         /\ UNCHANGED <<peer, unread, stored>>

\* The peer failed: the next one is asked for everything, the last one's
\* error is the source's.
NextPeer(s) ==
  IF peer[s] < Len(PeersOf(s))
    THEN /\ peer' = [peer EXCEPT ![s] = @ + 1]
         /\ step' = [step EXCEPT ![s] = "ask"]
         /\ unread' = [unread EXCEPT ![s] = AllOf(s)]
         /\ stored' = [stored EXCEPT ![s] = 0]
         /\ UNCHANGED outcome
    ELSE /\ step' = [step EXCEPT ![s] = "done"]
         /\ outcome' = [outcome EXCEPT ![s] = "err"]
         /\ UNCHANGED <<peer, unread, stored>>

\* No other peer is tried: minters are decoded and stored after the choice of
\* the peer.
GiveUp(s) ==
  /\ step' = [step EXCEPT ![s] = "done"]
  /\ outcome' = [outcome EXCEPT ![s] = "err"]
  /\ UNCHANGED <<peer, unread, stored>>

Fault == faults > 0 /\ faults' = faults - 1

\* No answer, no 200, a deadline; for leadrate, holders and delegations an
\* undecodable body too.
FetchFails(s) ==
  /\ step[s] = "ask"
  /\ IF s \in Broken THEN UNCHANGED faults ELSE Fault
  /\ NextPeer(s)
  /\ UNCHANGED <<truth, mirror, proc, stores, got>>

\* The minters' body starts like JSON but does not decode.
MintersUndecodable(s) ==
  /\ s = "minters"
  /\ step[s] = "ask"
  /\ Fault
  /\ GiveUp(s)
  /\ UNCHANGED <<truth, mirror, proc, stores, got>>

Storing(s) == TablesOf(s)[stored[s] + 1]

\* BulkUpsert*: DELETE, INSERT every row, COMMIT.
StoreTable(s) ==
  LET t == Storing(s)
  IN  /\ step[s] = "store"
      /\ table' = [table EXCEPT ![t] = got[t]]
      /\ by' = [by EXCEPT ![t] = Peer(s)]
      /\ stored' = [stored EXCEPT ![s] = @ + 1]
      /\ IF stored'[s] = Len(TablesOf(s))
           THEN /\ step' = [step EXCEPT ![s] = "done"]
                /\ outcome' = [outcome EXCEPT ![s] = "ok"]
           ELSE UNCHANGED <<step, outcome>>
      /\ UNCHANGED <<truth, mirror, proc, faults, peer, got, unread>>

\* Variant: the rows deleted first stay deleted.
StoreFailsTorn(s) ==
  /\ step[s] = "store"
  /\ Fault
  /\ table' = [table EXCEPT ![Storing(s)] = 0]
  /\ by' = [by EXCEPT ![Storing(s)] = Peer(s)]
  /\ IF s = "minters" THEN GiveUp(s) ELSE NextPeer(s)
  /\ UNCHANGED <<truth, mirror, proc, got>>

\* A row breaks the primary key, the write fails, the official API's
\* proposals do not decode: the transaction is rolled back.
StoreFails(s) ==
  /\ step[s] = "store"
  /\ Fault
  /\ IF s = "minters" THEN GiveUp(s) ELSE NextPeer(s)
  /\ UNCHANGED <<truth, mirror, proc, stores, got>>

\* Variant: the first error ends the refresh for all sources.
RefreshEndsAtError ==
  /\ proc = "refresh"
  /\ \/ \A s \in Sources : step[s] = "done"
     \/ \E s \in Sources : outcome[s] = "err"
  /\ proc' = "idle"
  /\ NoFetcher
  /\ UNCHANGED <<truth, mirror, faults, stores, outcome>>

\* All four results have come.
RefreshEnds ==
  /\ proc = "refresh"
  /\ \A s \in Sources : step[s] = "done"
  /\ proc' = "idle"
  /\ NoFetcher
  /\ UNCHANGED <<truth, mirror, faults, stores, outcome>>

\* The process ends, in a refresh or between two; only the tables are left.
Crash ==
  /\ proc # "down"
  /\ Fault
  /\ proc' = "down"
  /\ NoFetcher
  /\ outcome' = [s \in Sources |-> "none"]
  /\ by' = [t \in Tables |-> "none"]
  /\ UNCHANGED <<truth, mirror, table>>

Fetcher(s) ==
  Answered(s) \/ FetchFails(s) \/ MintersUndecodable(s) \/ StoreTable(s) \/ StoreFails(s)

Next ==
  \/ Publish \/ StartRefresh \/ RefreshEnds \/ Crash
  \/ \E t \in Tables : MirrorRefreshes(t)
  \/ \E s \in Sources : Fetcher(s)

Spec == Init /\ [][Next]_vars

\* The ticker and the timeouts of the requests.  Nothing makes the grenadier
\* peer take the truth: it runs this program, and the first peer that it asks
\* is itself.
FairSpec ==
  /\ Spec
  /\ WF_vars(StartRefresh) /\ WF_vars(RefreshEnds)
  /\ \A s \in Sources : WF_vars(Fetcher(s))
-----------------------------------------------------------------------------
\* The types; no source asks beyond its peers or stores beyond its tables.
TypeOK ==
  /\ truth \in Nat /\ faults \in Nat
  /\ mirror \in [Tables -> Nat] /\ table \in [Tables -> Nat]
  /\ got \in [Tables -> Nat]
  /\ by \in [Tables -> {"none", "grenadier", "official", "ponder"}]
  /\ proc \in {"down", "idle", "refresh"}
  /\ step \in [Sources -> {"ask", "store", "done"}]
  /\ outcome \in [Sources -> {"none", "ok", "err"}]
  /\ unread \in [Sources -> SUBSET Tables]
  /\ peer \in [Sources -> 1 .. 2]
  /\ stored \in [Sources -> 0 .. 2]

\* When leadrate reports success, the approved and the proposed rates, joined
\* by their key, are of this refresh and of one and the same peer, though they
\* are replaced in two transactions and an earlier peer may have replaced the
\* first of them.
PairOfOnePeer ==
  "leadrate" \in Sources /\ outcome["leadrate"] = "ok" =>
    by["approved"] # "none" /\ by["approved"] = by["proposed"]

\* "if one source fails we just don't touch its table this tick": a failed
\* source's table is what it was, of leadrate's two tables the second one.
FailedUntouched ==
  \A s \in Sources :
    outcome[s] = "err" => by[TablesOf(s)[Len(TablesOf(s))]] = "none"

\* A table goes back to an older version only when a grenadier peer's copy is
\* stored, never by what the official API or ponder sent.
OnlyMirrorsGoBack ==
  [][\A t \in Tables : table'[t] < table[t] => by'[t] = "grenadier"]_vars

\* "we tolerate partial failure": with one source broken for good, and after
\* any failures and crashes of the others, every other table ends up, and
\* stays, at the truth or at what the grenadier peer serves, which is asked
\* first and need not be the truth.
CatchesUp ==
  <>[](\A s \in Sources \ Broken :
         \A t \in AllOf(s) : table[t] \in {truth, mirror[t]})
=============================================================================
