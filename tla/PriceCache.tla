----------------------------- MODULE PriceCache -----------------------------
(***************************************************************************)
(* chain/prices.go: the price cache behind /prices/list (All) and          *)
(* /prices/ticker (Get).  Any number of request goroutines read one table; *)
(* the one that finds it stale and nobody fetching fetches it anew, the    *)
(* others wait for the channel the fetcher closes.                         *)
(*                                                                         *)
(* A step is one critical section of pc.mu, or one wait.  A fetch is timed *)
(* by the HTTP client and returns rows or an error.  A channel is the      *)
(* number of its fetch.                                                    *)
(*                                                                         *)
(* Definitions marked "Variant" are no part of the specification.          *)
(***************************************************************************)
EXTENDS Integers

CONSTANTS
  Clients,   \* goroutines, each serving one request at a time
  Symbols,   \* TrackedSymbols
  Listings,  \* the sets of tracked symbols upstream may list
  TTL,       \* pricesTTL
  MaxTime,   \* bound: the clock stops here
  MaxCalls   \* bound: how many requests arrive

ASSUME BoundAssumption ==
  /\ TTL \in Nat \ {0} /\ MaxTime \in Nat /\ MaxCalls \in Nat
  /\ Listings \subseteq SUBSET Symbols

Steps == {"idle", "refresh", "wait", "fetch", "release", "reread"}

VARIABLES
  now,
  table,     \* bySymbol: the symbols it holds, and the fetch it came from
  lastFill,
  inflight,  \* the open channel, 0: nil
  closed,    \* channels closed so far
  fetches,   \* channels made so far
  step,      \* per client: where in its request it is
  ch,        \* per client: the channel it made or waits for
  calls,     \* requests so far
  stamped,   \* history, per client: lastFill as its last fetch set it
  soon,      \* history, per client: it fetches within TTL of that
  unlisted   \* history, per client: its symbol was not in the table

local == <<step, ch>>
history == <<stamped, soon, unlisted>>
vars == <<now, table, lastFill, inflight, closed, fetches, step, ch, calls,
          stamped, soon, unlisted>>
-----------------------------------------------------------------------------
Init ==
  /\ now = 0
  /\ table = [from |-> 0, has |-> {}]
  /\ lastFill = -TTL  \* the zero time
  /\ inflight = 0 /\ closed = {} /\ fetches = 0
  /\ step = [c \in Clients |-> "idle"]
  /\ ch = [c \in Clients |-> 0]
  /\ calls = 0
  /\ stamped = [c \in Clients |-> -TTL]
  /\ soon = [c \in Clients |-> FALSE]
  /\ unlisted = [c \in Clients |-> FALSE]

Pass ==
  /\ now < MaxTime
  /\ now' = now + 1
  /\ UNCHANGED <<table, lastFill, inflight, closed, fetches, local, calls,
                 history>>

Fresh == now - lastFill < TTL

\* Get: a fresh hit is the answer.
GetHit(s) ==
  /\ calls < MaxCalls
  /\ s \in table.has /\ Fresh
  /\ calls' = calls + 1
  /\ UNCHANGED <<now, table, lastFill, inflight, closed, fetches, local,
                 history>>

\* A request arrives that one look at the table does not answer.
Arrive(c, lacking) ==
  /\ step[c] = "idle"
  /\ calls < MaxCalls
  /\ calls' = calls + 1
  /\ unlisted' = [unlisted EXCEPT ![c] = lacking]
  /\ UNCHANGED <<now, table, lastFill, inflight, closed, fetches, ch,
                 stamped, soon>>

\* Get: stale, or not in the table.
GetMiss(c, s) ==
  /\ Arrive(c, s \notin table.has)
  /\ s \notin table.has \/ ~Fresh
  /\ step' = [step EXCEPT ![c] = "refresh"]

All(c) ==
  /\ Arrive(c, FALSE)
  /\ step' = [step EXCEPT ![c] = IF Fresh THEN "reread" ELSE "refresh"]
-----------------------------------------------------------------------------
\* Variant: nobody looks whether a fetch is in flight.
ClaimUnasked(c) ==
  /\ step[c] = "refresh"
  /\ fetches' = fetches + 1
  /\ inflight' = fetches'
  /\ ch' = [ch EXCEPT ![c] = fetches']
  /\ step' = [step EXCEPT ![c] = "fetch"]
  /\ soon' = [soon EXCEPT ![c] = now - stamped[c] < TTL]
  /\ UNCHANGED <<now, table, lastFill, closed, calls, stamped, unlisted>>

\* refresh, nobody fetching: this goroutine makes the channel and fetches.
Claim(c) ==
  /\ step[c] = "refresh"
  /\ inflight = 0
  /\ fetches' = fetches + 1
  /\ inflight' = fetches'
  /\ ch' = [ch EXCEPT ![c] = fetches']
  /\ step' = [step EXCEPT ![c] = "fetch"]
  /\ soon' = [soon EXCEPT ![c] = now - stamped[c] < TTL]
  /\ UNCHANGED <<now, table, lastFill, closed, calls, stamped, unlisted>>

\* refresh, another goroutine fetching: wait for its channel.
Join(c) ==
  /\ step[c] = "refresh"
  /\ inflight # 0
  /\ ch' = [ch EXCEPT ![c] = inflight]
  /\ step' = [step EXCEPT ![c] = "wait"]
  /\ UNCHANGED <<now, table, lastFill, inflight, closed, fetches, calls,
                 history>>

Wake(c) ==
  /\ step[c] = "wait"
  /\ ch[c] \in closed
  /\ step' = [step EXCEPT ![c] = "reread"]
  /\ UNCHANGED <<now, table, lastFill, inflight, closed, fetches, ch,
                 calls, history>>

\* The waiting request's context is done.
GiveUp(c) ==
  /\ step[c] = "wait"
  /\ step' = [step EXCEPT ![c] = "reread"]
  /\ UNCHANGED <<now, table, lastFill, inflight, closed, fetches, ch,
                 calls, history>>

\* The fetch brings rows: they replace the table, whatever it held.
FetchOk(c) ==
  /\ step[c] = "fetch"
  /\ \E listed \in Listings : table' = [from |-> ch[c], has |-> listed]
  /\ lastFill' = now
  /\ stamped' = [stamped EXCEPT ![c] = now]
  /\ step' = [step EXCEPT ![c] = "release"]
  /\ UNCHANGED <<now, inflight, closed, fetches, ch, calls, soon,
                 unlisted>>

\* Variant: only a fetch that brings rows is stamped.
FetchFailsUnstamped(c) ==
  /\ step[c] = "fetch"
  /\ stamped' = [stamped EXCEPT ![c] = now]
  /\ step' = [step EXCEPT ![c] = "release"]
  /\ UNCHANGED <<now, table, lastFill, inflight, closed, fetches, ch,
                 calls, soon, unlisted>>

\* The fetch fails: the table stays, "stamp lastFill even on failure".
FetchFails(c) ==
  /\ step[c] = "fetch"
  /\ lastFill' = now
  /\ stamped' = [stamped EXCEPT ![c] = now]
  /\ step' = [step EXCEPT ![c] = "release"]
  /\ UNCHANGED <<now, table, inflight, closed, fetches, ch, calls, soon,
                 unlisted>>

\* Variant: the channel stays open.
ReleaseOpen(c) ==
  /\ step[c] = "release"
  /\ inflight' = 0
  /\ step' = [step EXCEPT ![c] = "reread"]
  /\ UNCHANGED <<now, table, lastFill, closed, fetches, ch, calls,
                 history>>

\* The deferred block: inflight is nil again, the waiters are let go.
Release(c) ==
  /\ step[c] = "release"
  /\ inflight' = 0
  /\ closed' = closed \cup {ch[c]}
  /\ step' = [step EXCEPT ![c] = "reread"]
  /\ UNCHANGED <<now, table, lastFill, fetches, ch, calls, history>>

\* The second read of the table is the answer; the request is over.
Answer(c) ==
  /\ step[c] = "reread"
  /\ step' = [step EXCEPT ![c] = "idle"]
  /\ ch' = [ch EXCEPT ![c] = 0]
  /\ soon' = [soon EXCEPT ![c] = FALSE]
  /\ unlisted' = [unlisted EXCEPT ![c] = FALSE]
  /\ UNCHANGED <<now, table, lastFill, inflight, closed, fetches, calls,
                 stamped>>

Serve(c) ==
  \/ Claim(c) \/ Join(c) \/ Wake(c)
  \/ FetchOk(c) \/ FetchFails(c) \/ Release(c) \/ Answer(c)

Request(c) == All(c) \/ \E s \in Symbols : GetMiss(c, s)

\* The last request is answered.
Quiet ==
  /\ calls = MaxCalls /\ \A c \in Clients : step[c] = "idle"
  /\ UNCHANGED vars

Next ==
  \/ Pass \/ Quiet
  \/ \E s \in Symbols : GetHit(s)
  \/ \E c \in Clients : Request(c) \/ Serve(c) \/ GiveUp(c)

Spec == Init /\ [][Next]_vars

\* Goroutines run on, and the HTTP client's timeout ends every fetch; a
\* request's context need never be done.
FairSpec == Spec /\ \A c \in Clients : WF_vars(Serve(c))
-----------------------------------------------------------------------------
Flying(c) == step[c] \in {"fetch", "release"}

\* Every variable has its type; the channel in place is open and the newest.
TypeOK ==
  /\ now \in Nat /\ lastFill \in Int /\ lastFill <= now
  /\ table \in [from: Nat, has: SUBSET Symbols]
  /\ inflight \in Nat /\ closed \subseteq Nat \ {0} /\ fetches \in Nat
  /\ step \in [Clients -> Steps]
  /\ ch \in [Clients -> Nat] /\ calls \in Nat
  /\ stamped \in [Clients -> Int] /\ soon \in [Clients -> BOOLEAN]
  /\ unlisted \in [Clients -> BOOLEAN]
  /\ inflight # 0 => inflight = fetches /\ inflight \notin closed

\* "at most one outbound HTTP call at a time": the goroutine that fetches is
\* the one whose channel is in place, and while none fetches none is.
OneFlight ==
  /\ \A c, d \in Clients : Flying(c) /\ Flying(d) => c = d
  /\ inflight # 0 <=> \E c \in Clients : Flying(c)

\* A waiter's channel is closed already, or its fetcher is still at work: no
\* request waits for a fetch that is over.
NobodyStranded ==
  \A c \in Clients :
    step[c] = "wait" =>
      ch[c] \in closed \/ \E d \in Clients : Flying(d) /\ ch[d] = ch[c]

\* The table never goes back to the rows of an older fetch, and a failed
\* fetch leaves it as it is: a slow answer cannot undo a newer one.
TableForward == [][table' # table => table'.from > table.from]_table

\* A goroutine whose fetch has just been stamped, successful or not, does
\* not fetch again within the TTL, but for a symbol the table lacks: a dead
\* upstream is not called by every request for what the cache can serve.
RetryAfterTTL ==
  \A c \in Clients :
    step[c] = "fetch" /\ soon[c] => unlisted[c]

\* Every request is answered, whatever the fetch it waits for comes to.
Served == \A c \in Clients : step[c] # "idle" ~> step[c] = "idle"
=============================================================================
