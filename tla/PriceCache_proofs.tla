-------------------------- MODULE PriceCache_proofs --------------------------
(***************************************************************************)
(* What the price cache guarantees for any number of requests, any TTL and *)
(* whatever upstream lists.                                                *)
(***************************************************************************)
EXTENDS PriceCache, TLAPS

\* The channel in place is that of the one goroutine that flies, and its rows
\* are newer than the table's.
FlightInv ==
  /\ \A c, d \in Clients : Flying(c) /\ Flying(d) => c = d
  /\ \A c \in Clients : Flying(c) => inflight # 0 /\ ch[c] = inflight
  /\ inflight # 0 => \E c \in Clients : Flying(c)
  /\ table.from <= fetches
  /\ \A c \in Clients : step[c] = "fetch" => table.from < ch[c]

\* Channels are closed once made; who waits, waits for one of them.
WaitInv ==
  /\ closed \subseteq 1 .. fetches
  /\ \A c \in Clients :
       step[c] = "wait" => (ch[c] \in closed \/ (inflight # 0 /\ ch[c] = inflight))

\* A goroutine's own stamp is never newer than lastFill; if it is about to
\* refresh for a symbol the table had, that stamp has expired.
StampInv ==
  \A c \in Clients :
    /\ stamped[c] <= lastFill
    /\ step[c] = "refresh" /\ ~unlisted[c] => now - stamped[c] >= TTL
    /\ step[c] = "fetch" /\ soon[c] => unlisted[c]

IInv == TypeOK /\ FlightInv /\ WaitInv /\ StampInv

LEMMA InitInv == Init => IInv
BY BoundAssumption
   DEF Init, IInv, TypeOK, FlightInv, WaitInv, StampInv, Flying, Steps

\* The clock and the requests that touch nothing but themselves.
LEMMA QuietSteps ==
  ASSUME IInv, Pass \/ Quiet \/ (\E s \in Symbols : GetHit(s)) \/ UNCHANGED vars
  PROVE  IInv'
<1>1. CASE Pass
  BY <1>1, BoundAssumption
     DEF Pass, local, history, IInv, TypeOK, FlightInv, WaitInv, StampInv, Flying
<1>2. CASE \E s \in Symbols : GetHit(s)
  BY <1>2 DEF GetHit, local, history, IInv, TypeOK, FlightInv, WaitInv,
              StampInv, Flying
<1>3. CASE Quiet \/ UNCHANGED vars
  BY <1>3 DEF Quiet, vars, IInv, TypeOK, FlightInv, WaitInv, StampInv, Flying
<1> QED
  BY <1>1, <1>2, <1>3

\* A request arrived and is to go on at step t; b: its symbol was missing.
Arrived(c, b, t) ==
  /\ step[c] = "idle" /\ calls' = calls + 1
  /\ UNCHANGED <<now, table, lastFill, inflight, closed, fetches, ch,
                 stamped, soon>>
  /\ unlisted' = [unlisted EXCEPT ![c] = b]
  /\ step' = [step EXCEPT ![c] = t]
  /\ t = "refresh" /\ ~b => now - lastFill >= TTL

\* A request that goes on to a refresh found the table stale, or lacking.
LEMMA RequestArrives ==
  ASSUME IInv, NEW c \in Clients, Request(c)
  PROVE  \E b \in BOOLEAN, t \in {"refresh", "reread"} : Arrived(c, b, t)
<1>1. CASE All(c)
  <2>1. Arrived(c, FALSE, IF Fresh THEN "reread" ELSE "refresh")
    BY <1>1, BoundAssumption DEF All, Arrive, Arrived, Fresh, IInv, TypeOK
  <2> QED
    BY <2>1
<1>2. ASSUME NEW s \in Symbols, GetMiss(c, s)
      PROVE  Arrived(c, s \notin table.has, "refresh")
  BY <1>2, BoundAssumption DEF GetMiss, Arrive, Arrived, Fresh, IInv, TypeOK
<1> QED
  BY <1>1, <1>2 DEF Request

LEMMA RequestStep ==
  ASSUME IInv, NEW c \in Clients, Request(c)
  PROVE  IInv'
<1>1. PICK b \in BOOLEAN, t \in {"refresh", "reread"} : Arrived(c, b, t)
  BY RequestArrives
<1>2. TypeOK'
  BY <1>1 DEF Arrived, IInv, TypeOK, Steps
<1>3. FlightInv' /\ WaitInv'
  BY <1>1 DEF Arrived, IInv, TypeOK, FlightInv, WaitInv, Flying
<1>4. StampInv'
  BY <1>1, BoundAssumption DEF Arrived, IInv, TypeOK, StampInv
<1> QED
  BY <1>2, <1>3, <1>4 DEF IInv

\* The steps that make, await and leave the channel.
LEMMA ServeStep ==
  ASSUME IInv, NEW c \in Clients, Serve(c) \/ GiveUp(c)
  PROVE  IInv'
<1> USE BoundAssumption
<1>1. CASE Claim(c)
  <2>1. TypeOK'
    BY <1>1 DEF Claim, IInv, TypeOK, WaitInv, Steps
  <2>2. FlightInv'
    BY <1>1 DEF Claim, IInv, TypeOK, FlightInv, Flying
  <2>3. WaitInv'
    BY <1>1 DEF Claim, IInv, TypeOK, WaitInv
  <2>4. StampInv'
    BY <1>1 DEF Claim, IInv, TypeOK, StampInv
  <2> QED
    BY <2>1, <2>2, <2>3, <2>4 DEF IInv
<1>2. CASE Join(c)
  BY <1>2 DEF Join, history, IInv, TypeOK, FlightInv, WaitInv, StampInv, Flying, Steps
<1>3. CASE Wake(c) \/ GiveUp(c)
  <2>1. TypeOK' /\ WaitInv'
    BY <1>3 DEF Wake, GiveUp, IInv, TypeOK, WaitInv, Steps, history
  <2>2. FlightInv'
    BY <1>3 DEF Wake, GiveUp, IInv, TypeOK, FlightInv, Flying
  <2>3. StampInv'
    BY <1>3 DEF Wake, GiveUp, history, IInv, TypeOK, StampInv
  <2> QED
    BY <2>1, <2>2, <2>3 DEF IInv
<1>4. CASE FetchOk(c)
  <2>1. PICK listed \in Listings : table' = [from |-> ch[c], has |-> listed]
    BY <1>4 DEF FetchOk
  <2>2. TypeOK'
    BY <1>4, <2>1 DEF FetchOk, IInv, TypeOK, Steps
  <2>3. FlightInv'
    BY <1>4, <2>1 DEF FetchOk, IInv, TypeOK, FlightInv, Flying
  <2>4. WaitInv'
    BY <1>4 DEF FetchOk, IInv, TypeOK, WaitInv
  <2>5. StampInv'
    BY <1>4 DEF FetchOk, IInv, TypeOK, StampInv
  <2> QED
    BY <2>2, <2>3, <2>4, <2>5 DEF IInv
<1>5. CASE FetchFails(c)
  <2>1. TypeOK' /\ WaitInv'
    BY <1>5 DEF FetchFails, IInv, TypeOK, WaitInv, Steps
  <2>2. FlightInv'
    BY <1>5 DEF FetchFails, IInv, TypeOK, FlightInv, Flying
  <2>3. StampInv'
    BY <1>5 DEF FetchFails, IInv, TypeOK, StampInv
  <2> QED
    BY <2>1, <2>2, <2>3 DEF IInv
<1>6. CASE Release(c)
  <2>1. ch[c] \in Nat /\ ch[c] # 0 /\ ch[c] = inflight /\ inflight = fetches
    BY <1>6 DEF Release, IInv, TypeOK, FlightInv, Flying
  <2>2. TypeOK'
    BY <1>6, <2>1 DEF Release, history, IInv, TypeOK, Steps
  <2>5. WaitInv'
    <3>1. closed' \subseteq 1 .. fetches'
      BY <1>6, <2>1 DEF Release, IInv, TypeOK, WaitInv
    <3>2. ASSUME NEW d \in Clients, step'[d] = "wait"
          PROVE  ch'[d] \in closed'
      BY <1>6, <2>1, <3>2 DEF Release, IInv, TypeOK, WaitInv
    <3> QED
      BY <3>1, <3>2 DEF WaitInv
  <2>3. FlightInv'
    BY <1>6 DEF Release, IInv, TypeOK, FlightInv, Flying
  <2>4. StampInv'
    BY <1>6 DEF Release, history, IInv, TypeOK, StampInv
  <2> QED
    BY <2>2, <2>3, <2>4, <2>5 DEF IInv
<1>7. CASE Answer(c)
  BY <1>7 DEF Answer, IInv, TypeOK, FlightInv, WaitInv, StampInv, Flying, Steps
<1> QED
  BY <1>1, <1>2, <1>3, <1>4, <1>5, <1>6, <1>7 DEF Serve

LEMMA Inductive == Spec => []IInv
<1>1. IInv /\ [Next]_vars => IInv'
  BY QuietSteps, RequestStep, ServeStep DEF Next
<1> QED
  BY InitInv, <1>1, PTL DEF Spec
-----------------------------------------------------------------------------
\* The variables keep their types, and the channel in place is open and the
\* newest: close(ch) never closes a channel twice.
THEOREM TypeCorrect == Spec => []TypeOK
<1>1. IInv => TypeOK
  BY DEF IInv
<1> QED
  BY Inductive, <1>1, PTL

\* At most one fetch is in flight, and inflight tells when.
THEOREM SingleFlight == Spec => []OneFlight
<1>1. IInv => OneFlight
  BY DEF IInv, FlightInv, OneFlight
<1> QED
  BY Inductive, <1>1, PTL

\* No request waits for a fetch that is over.
THEOREM NoneStranded == Spec => []NobodyStranded
<1>1. IInv => NobodyStranded
  BY DEF IInv, FlightInv, WaitInv, NobodyStranded
<1> QED
  BY Inductive, <1>1, PTL

\* A goroutine fetches again within the TTL only for a symbol not listed.
THEOREM RetriesSpaced == Spec => []RetryAfterTTL
<1>1. IInv => RetryAfterTTL
  BY DEF IInv, StampInv, RetryAfterTTL
<1> QED
  BY Inductive, <1>1, PTL

\* The table only moves to the rows of a newer fetch.
THEOREM NewerRowsOnly == Spec => TableForward
<1>1. IInv /\ [Next]_vars => [table' # table => table'.from > table.from]_table
  <2> SUFFICES ASSUME IInv, [Next]_vars, table' # table
               PROVE  table'.from > table.from
    OBVIOUS
  <2>1. PICK c \in Clients : FetchOk(c)
    BY DEF Next, vars, Pass, Quiet, GetHit, Request, All, GetMiss, Arrive, Serve,
           Claim, Join, Wake, FetchFails, Release, Answer, GiveUp
  <2>2. table'.from = ch[c]
    BY <2>1 DEF FetchOk
  <2> QED
    BY <2>1, <2>2 DEF FetchOk, IInv, TypeOK, FlightInv
<1> QED
  BY Inductive, <1>1, PTL DEF Spec, TableForward
=============================================================================
