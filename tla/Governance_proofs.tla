-------------------------- MODULE Governance_proofs --------------------------
(***************************************************************************)
(* What the refresh of the governance tables guarantees for any sources,   *)
(* broken or not, any number of versions, failures and crashes.            *)
(***************************************************************************)
EXTENDS Governance, TLAPS

\* The two halves of TypeOK.
WorldOK ==
  /\ truth \in Nat /\ faults \in Nat
  /\ mirror \in [Tables -> Nat] /\ table \in [Tables -> Nat]
  /\ got \in [Tables -> Nat]
  /\ by \in [Tables -> {"none", "grenadier", "official", "ponder"}]
  /\ proc \in {"down", "idle", "refresh"}

FetchOK ==
  /\ step \in [Sources -> {"ask", "store", "done"}]
  /\ outcome \in [Sources -> {"none", "ok", "err"}]
  /\ unread \in [Sources -> SUBSET Tables]
  /\ peer \in [Sources -> 1 .. 2]
  /\ stored \in [Sources -> 0 .. 2]

\* The last of a source's tables.
LastOf(s) == TablesOf(s)[Len(TablesOf(s))]

\* A source that is still fetched has no result and has not replaced its last
\* table; nor has one that failed.
OutcomeInv ==
  \A s \in Sources :
    /\ step[s] # "done" => outcome[s] = "none" /\ by[LastOf(s)] = "none"
    /\ step[s] = "store" => stored[s] < Len(TablesOf(s))
    /\ outcome[s] = "err" => by[LastOf(s)] = "none"

\* The tables a source has replaced came from the peer it asks; all of them,
\* when it is done.
PairInv ==
  \A s \in Sources :
    /\ step[s] = "store" =>
         \A i \in 1 .. stored[s] : by[TablesOf(s)[i]] = Peer(s)
    /\ step[s] = "ask" => stored[s] = 0
    /\ outcome[s] = "ok" =>
         \A i, j \in 1 .. Len(TablesOf(s)) :
           by[TablesOf(s)[i]] # "none" /\ by[TablesOf(s)[i]] = by[TablesOf(s)[j]]

\* Nothing is newer than the truth; what a last peer sent is no older than
\* what is stored.
VersionInv ==
  /\ \A t \in Tables : mirror[t] <= truth /\ table[t] <= truth /\ got[t] <= truth
  /\ \A s \in Sources :
       unread[s] \subseteq AllOf(s) /\ (step[s] = "store" => unread[s] = {})
  /\ \A s \in Sources :
       step[s] # "done" /\ Peer(s) # "grenadier" =>
         \A t \in AllOf(s) \ unread[s] : got[t] >= table[t]

IInv == WorldOK /\ FetchOK /\ OutcomeInv /\ PairInv /\ VersionInv

\* The tables and peers of every source.
LEMMA Shape ==
  ASSUME NEW s \in Sources
  PROVE  /\ Len(TablesOf(s)) \in 1 .. 2
         /\ \A i \in 1 .. Len(TablesOf(s)) : TablesOf(s)[i] \in AllOf(s)
         /\ \A i, j \in 1 .. Len(TablesOf(s)) :
              TablesOf(s)[i] = TablesOf(s)[j] => i = j
         /\ AllOf(s) \subseteq Tables
         /\ \A r \in Sources \ {s} : AllOf(s) \cap AllOf(r) = {}
<1>1. s = "leadrate" => /\ TablesOf(s) = <<"approved", "proposed">>
                        /\ Len(TablesOf(s)) = 2
  BY DEF TablesOf
<1>2. s # "leadrate" => TablesOf(s) = <<s>> /\ Len(TablesOf(s)) = 1
  BY DEF TablesOf
<1>3. AllOf(s) = IF s = "leadrate" THEN {"approved", "proposed"} ELSE {s}
  BY <1>1, <1>2 DEF AllOf
<1>4. \A r \in Sources \ {s} :
        AllOf(r) = IF r = "leadrate" THEN {"approved", "proposed"} ELSE {r}
  BY DEF AllOf, TablesOf
<1>5. \A r \in Sources \ {s} : AllOf(s) \cap AllOf(r) = {}
  <2> SUFFICES ASSUME NEW r \in Sources \ {s}, NEW t \in AllOf(s), t \in AllOf(r)
               PROVE  FALSE
    OBVIOUS
  <2>1. s \notin {"approved", "proposed"} /\ r \notin {"approved", "proposed"}
    BY SourceAssumption
  <2> QED
    BY <1>3, <1>4, <2>1
<1>6. AllOf(s) \subseteq Tables
  BY DEF Tables
<1>7. /\ Len(TablesOf(s)) \in 1 .. 2
      /\ \A i \in 1 .. Len(TablesOf(s)) : TablesOf(s)[i] \in AllOf(s)
      /\ \A i, j \in 1 .. Len(TablesOf(s)) :
           TablesOf(s)[i] = TablesOf(s)[j] => i = j
  BY <1>1, <1>2, <1>3
<1> QED
  BY <1>5, <1>6, <1>7

LEMMA Kinds ==
  ASSUME NEW s \in Sources
  PROVE  /\ Len(PeersOf(s)) = 2
         /\ PeersOf(s)[1] = "grenadier" /\ PeersOf(s)[2] \in {"official", "ponder"}
BY DEF PeersOf

\* The tables of two sources have nothing in common, their last ones either.
LEMMA LastIsOwn ==
  ASSUME NEW s \in Sources
  PROVE  /\ LastOf(s) \in AllOf(s) /\ LastOf(s) \in Tables
         /\ \A r \in Sources \ {s} : LastOf(r) \notin AllOf(s)
BY Shape DEF LastOf

LEMMA InitInv == Init => IInv
<1> SUFFICES ASSUME Init PROVE IInv
  OBVIOUS
<1>1. WorldOK
  BY BoundAssumption DEF Init, WorldOK
<1>2. FetchOK
  BY DEF Init, FetchOK
<1>3. OutcomeInv /\ PairInv
  BY DEF Init, OutcomeInv, PairInv
<1>4. VersionInv
  BY DEF Init, VersionInv
<1> QED
  BY <1>1, <1>2, <1>3, <1>4 DEF IInv

\* The truth and its copies move on.
LEMMA UpstreamStep ==
  ASSUME IInv, Publish \/ \E t \in Tables : MirrorRefreshes(t)
  PROVE  IInv'
<1>1. UNCHANGED <<proc, stores, fetchers>>
  BY DEF Publish, MirrorRefreshes
<1>2. OutcomeInv' /\ PairInv'
  BY <1>1 DEF stores, fetchers, IInv, OutcomeInv, PairInv, LastOf, Peer
<1>3. FetchOK'
  BY <1>1 DEF fetchers, IInv, FetchOK
<1>4. CASE Publish
  <2>1. WorldOK'
    BY <1>1, <1>4 DEF Publish, stores, fetchers, IInv, WorldOK
  <2>2. VersionInv'
    BY <1>1, <1>4 DEF Publish, stores, fetchers, IInv, WorldOK, VersionInv, Peer
  <2> QED
    BY <1>2, <1>3, <2>1, <2>2 DEF IInv
<1>5. ASSUME NEW t \in Tables, MirrorRefreshes(t)
      PROVE  IInv'
  <2>1. WorldOK'
    BY <1>1, <1>5 DEF MirrorRefreshes, stores, fetchers, IInv, WorldOK
  <2>2. VersionInv'
    BY <1>1, <1>5 DEF MirrorRefreshes, stores, fetchers, IInv, WorldOK, VersionInv, Peer
  <2> QED
    BY <1>2, <1>3, <2>1, <2>2 DEF IInv
<1> QED
  BY <1>4, <1>5

LEMMA StartRefreshStep == ASSUME IInv, StartRefresh PROVE IInv'
<1>1. WorldOK' /\ FetchOK'
  <2>1. WorldOK'
    BY DEF StartRefresh, IInv, WorldOK
  <2>2. FetchOK'
    BY Shape DEF StartRefresh, FetchOK
  <2> QED
    BY <2>1, <2>2
<1>2. OutcomeInv'
  BY LastIsOwn DEF StartRefresh, IInv, OutcomeInv, LastOf
<1>3. PairInv'
  BY DEF StartRefresh, PairInv
<1>4. VersionInv'
  <2>1. \A s \in Sources :
          Peer(s)' = "grenadier" /\ unread'[s] = AllOf(s) /\ step'[s] = "ask"
    BY Kinds DEF StartRefresh, Peer
  <2>2. \A t \in Tables : mirror'[t] <= truth' /\ table'[t] <= truth' /\ got'[t] <= truth'
    BY DEF StartRefresh, IInv, WorldOK, VersionInv
  <2> QED
    BY <2>1, <2>2 DEF VersionInv
<1> QED
  BY <1>1, <1>2, <1>3, <1>4 DEF IInv

LEMMA RefreshOver == ASSUME IInv, RefreshEnds \/ Crash PROVE IInv'
<1>1. /\ NoFetcher /\ UNCHANGED <<truth, mirror, table>>
      /\ \A s \in Sources :
           \/ outcome'[s] = outcome[s] /\ UNCHANGED by
           \/ outcome'[s] = "none"
  BY DEF RefreshEnds, Crash, stores
<1>2. WorldOK'
  <2>1. CASE RefreshEnds
    BY <2>1 DEF RefreshEnds, NoFetcher, stores, IInv, WorldOK
  <2>2. CASE Crash
    BY <2>2 DEF Crash, Fault, NoFetcher, IInv, WorldOK
  <2> QED
    BY <2>1, <2>2
<1>3. FetchOK'
  <2>1. CASE RefreshEnds
    BY <2>1 DEF RefreshEnds, NoFetcher, IInv, FetchOK
  <2>2. CASE Crash
    BY <2>2 DEF Crash, NoFetcher, FetchOK
  <2> QED
    BY <2>1, <2>2
<1>4. OutcomeInv' /\ PairInv'
  BY <1>1 DEF NoFetcher, IInv, OutcomeInv, PairInv, LastOf
<1>5. VersionInv'
  BY <1>1 DEF NoFetcher, IInv, WorldOK, VersionInv
<1> QED
  BY <1>2, <1>3, <1>4, <1>5 DEF IInv

LEMMA AnsweredStep == ASSUME IInv, NEW s \in Sources, Answered(s) PROVE IInv'
<1>1. PICK T \in SUBSET unread[s] :
        /\ got' = [t \in Tables |->
                     IF t \notin T THEN got[t]
                     ELSE IF Peer(s) = "grenadier" THEN mirror[t] ELSE truth]
        /\ unread' = [unread EXCEPT ![s] = @ \ T]
  BY DEF Answered, Receive
<1>2. /\ step[s] = "ask" /\ UNCHANGED <<truth, mirror, proc, faults, stores, peer,
                                       stored, outcome>>
      /\ step' = [step EXCEPT ![s] = IF unread'[s] = {} THEN "store" ELSE "ask"]
  BY DEF Answered
<1>3. WorldOK' /\ FetchOK'
  <2>1. WorldOK'
    BY <1>1, <1>2 DEF stores, IInv, WorldOK
  <2>2. FetchOK'
    BY <1>1, <1>2 DEF IInv, FetchOK
  <2> QED
    BY <2>1, <2>2
<1>4. OutcomeInv' /\ PairInv'
  <2>1. stored[s] = 0 /\ 0 < Len(TablesOf(s))
    BY <1>2, Shape DEF IInv, PairInv
  <2>2. OutcomeInv'
    BY <1>2, <2>1 DEF stores, IInv, FetchOK, OutcomeInv, LastOf
  <2>3. \A r \in Sources : Peer(r)' = Peer(r)
    BY <1>2 DEF Peer
  <2>4. PairInv'
    BY <1>2, <2>1, <2>3 DEF stores, IInv, FetchOK, PairInv
  <2> QED
    BY <2>2, <2>4
<1>5. VersionInv'
  <2>1. \A t \in Tables : mirror'[t] <= truth' /\ table'[t] <= truth' /\ got'[t] <= truth'
    BY <1>1, <1>2 DEF stores, IInv, WorldOK, VersionInv
  <2>3. \A r \in Sources :
          unread'[r] \subseteq AllOf(r) /\ (step'[r] = "store" => unread'[r] = {})
    BY <1>1, <1>2 DEF IInv, FetchOK, VersionInv
  <2>2. ASSUME NEW r \in Sources, step'[r] # "done", Peer(r)' # "grenadier",
               NEW t \in AllOf(r) \ unread'[r]
        PROVE  got'[t] >= table'[t]
    <3>1. t \in Tables /\ Peer(r)' = Peer(r) /\ table' = table /\ step[r] # "done"
      BY <1>2, <2>2, Shape DEF stores, Peer, IInv, FetchOK
    <3>2. CASE r = s
      <4>1. t \notin T => got[t] >= table[t]
        BY <1>1, <2>2, <3>1, <3>2 DEF IInv, FetchOK, VersionInv
      <4>2. t \in T => got'[t] = truth
        BY <1>1, <2>2, <3>1, <3>2
      <4>3. table[t] <= truth
        BY <3>1 DEF IInv, VersionInv
      <4> QED
        BY <1>1, <3>1, <4>1, <4>2, <4>3 DEF IInv, WorldOK
    <3>3. CASE r # s
      <4>1. unread'[r] = unread[r]
        BY <1>1, <3>3 DEF IInv, FetchOK
      <4>2. got[t] >= table[t] /\ table[t] <= truth
        BY <2>2, <3>1, <4>1 DEF IInv, VersionInv
      <4>3. t \notin T
        BY <3>3, Shape DEF IInv, VersionInv
      <4> QED
        BY <1>1, <3>1, <4>2, <4>3
    <3> QED
      BY <3>2, <3>3
  <2> QED
    BY <2>1, <2>2, <2>3 DEF VersionInv
<1> QED
  BY <1>3, <1>4, <1>5 DEF IInv

\* A peer's failure moves only its source on, and touches no table.
LEMMA FailureStep ==
  ASSUME IInv, NEW s \in Sources,
         FetchFails(s) \/ MintersUndecodable(s) \/ StoreFails(s)
  PROVE  IInv'
<1>1. /\ step[s] # "done" /\ (NextPeer(s) \/ GiveUp(s))
      /\ UNCHANGED <<truth, mirror, proc, table, by, got>>
  BY DEF FetchFails, MintersUndecodable, StoreFails, stores
<1>2. faults' \in Nat
  BY DEF FetchFails, MintersUndecodable, StoreFails, Fault, IInv, WorldOK
<1>3. WorldOK'
  BY <1>1, <1>2 DEF IInv, WorldOK
<1>4. CASE /\ peer[s] < Len(PeersOf(s)) /\ NextPeer(s)
  <2>1. /\ peer' = [peer EXCEPT ![s] = @ + 1] /\ step' = [step EXCEPT ![s] = "ask"]
        /\ unread' = [unread EXCEPT ![s] = AllOf(s)]
        /\ stored' = [stored EXCEPT ![s] = 0] /\ UNCHANGED outcome
    BY <1>4 DEF NextPeer
  <2>2. FetchOK'
    <3>1. peer[s] + 1 \in 1 .. 2 /\ AllOf(s) \subseteq Tables
      BY <1>4, Kinds, Shape DEF IInv, FetchOK
    <3> QED
      BY <2>1, <3>1 DEF IInv, FetchOK
  <2>3. OutcomeInv'
    BY <1>1, <2>1 DEF IInv, FetchOK, OutcomeInv, LastOf
  <2>4. PairInv'
    <3>1. \A r \in Sources \ {s} :
            /\ step'[r] = step[r] /\ stored'[r] = stored[r]
            /\ Peer(r)' = Peer(r)
      BY <1>1, <2>1 DEF IInv, FetchOK, Peer
    <3>2. step'[s] = "ask" /\ stored'[s] = 0 /\ outcome'[s] = outcome[s]
      BY <2>1 DEF IInv, FetchOK
    <3>3. outcome' = outcome /\ by' = by
      BY <1>1, <2>1
    <3> QED
      BY <3>1, <3>2, <3>3 DEF IInv, PairInv
  <2>5. VersionInv'
    BY <1>1, <2>1 DEF IInv, FetchOK, VersionInv, Peer
  <2> QED
    BY <1>3, <2>2, <2>3, <2>4, <2>5 DEF IInv
<1>5. CASE GiveUp(s) \/ (NextPeer(s) /\ ~(peer[s] < Len(PeersOf(s))))
  <2>1. /\ step' = [step EXCEPT ![s] = "done"]
        /\ outcome' = [outcome EXCEPT ![s] = "err"]
        /\ UNCHANGED <<peer, unread, stored>>
    BY <1>5 DEF GiveUp, NextPeer
  <2>2. FetchOK'
    BY <2>1 DEF IInv, FetchOK
  <2>3. OutcomeInv'
    BY <1>1, <2>1 DEF IInv, FetchOK, OutcomeInv, LastOf
  <2>4. PairInv'
    BY <1>1, <2>1 DEF IInv, FetchOK, PairInv, Peer
  <2>5. VersionInv'
    BY <1>1, <2>1 DEF IInv, FetchOK, VersionInv, Peer
  <2> QED
    BY <1>3, <2>2, <2>3, <2>4, <2>5 DEF IInv
<1> QED
  BY <1>1, <1>4, <1>5

\* The table a source stores next is one of its own, and not its last unless
\* it is the last to store.
LEMMA StoringOwn ==
  ASSUME IInv, NEW s \in Sources, step[s] = "store"
  PROVE  /\ stored[s] + 1 \in 1 .. Len(TablesOf(s)) /\ stored[s] \in Nat
         /\ Storing(s) \in AllOf(s) /\ Storing(s) \in Tables
         /\ Peer(s) \in {"grenadier", "official", "ponder"}
         /\ Storing(s) = LastOf(s) => stored[s] + 1 = Len(TablesOf(s))
         /\ \A i \in 1 .. Len(TablesOf(s)) :
              TablesOf(s)[i] = Storing(s) => i = stored[s] + 1
<1>1. stored[s] + 1 \in 1 .. Len(TablesOf(s)) /\ stored[s] \in Nat
  BY Shape DEF IInv, FetchOK, OutcomeInv
<1>2. Peer(s) \in {"grenadier", "official", "ponder"}
  BY Kinds DEF Peer, IInv, FetchOK
<1>3. Len(TablesOf(s)) \in 1 .. Len(TablesOf(s))
  BY Shape
<1> QED
  BY <1>1, <1>2, <1>3, Shape DEF Storing, LastOf

LEMMA StoreTableStep == ASSUME IInv, NEW s \in Sources, StoreTable(s) PROVE IInv'
<1> DEFINE n == Len(TablesOf(s))
<1>1. PICK t \in Tables : t = Storing(s) /\ t \in AllOf(s) /\ step[s] = "store"
  BY StoringOwn DEF StoreTable
<1>2. /\ table' = [table EXCEPT ![t] = got[t]] /\ by' = [by EXCEPT ![t] = Peer(s)]
      /\ stored' = [stored EXCEPT ![s] = @ + 1]
      /\ UNCHANGED <<truth, mirror, proc, faults, peer, got, unread>>
  BY <1>1 DEF StoreTable
<1>3. \/ /\ stored[s] + 1 = n
         /\ step' = [step EXCEPT ![s] = "done"]
         /\ outcome' = [outcome EXCEPT ![s] = "ok"]
      \/ stored[s] + 1 # n /\ UNCHANGED <<step, outcome>>
  <2>1. stored'[s] = stored[s] + 1
    BY <1>2 DEF IInv, FetchOK
  <2> QED
    BY <2>1 DEF StoreTable
<1>4. \A r \in Sources \ {s} :
        /\ t \notin AllOf(r) /\ step'[r] = step[r] /\ outcome'[r] = outcome[r]
        /\ stored'[r] = stored[r] /\ Peer(r)' = Peer(r)
  BY <1>1, <1>2, <1>3, Shape DEF IInv, FetchOK, Peer
<1>5. \A u \in Tables : u # t => by'[u] = by[u] /\ table'[u] = table[u]
  BY <1>2 DEF IInv, WorldOK
<1>6. by'[t] = Peer(s) /\ table'[t] = got[t] /\ Peer(s)' = Peer(s)
  BY <1>2 DEF IInv, WorldOK, Peer
<1>7. WorldOK'
  BY <1>1, <1>2, StoringOwn DEF IInv, WorldOK
<1>8. FetchOK'
  <2>1. stored[s] + 1 \in 0 .. 2
    BY <1>1, StoringOwn, Shape
  <2>2. stored' \in [Sources -> 0 .. 2]
    BY <1>2, <2>1 DEF IInv, FetchOK
  <2>3. /\ step' \in [Sources -> {"ask", "store", "done"}]
        /\ outcome' \in [Sources -> {"none", "ok", "err"}]
    BY <1>3 DEF IInv, FetchOK
  <2> QED
    BY <1>2, <2>2, <2>3 DEF IInv, FetchOK
<1>9. OutcomeInv'
  <2>1. \A r \in Sources \ {s} : by'[LastOf(r)] = by[LastOf(r)]
    BY <1>4, <1>5, LastIsOwn
  <2>2. stored[s] + 1 # n =>
          by'[LastOf(s)] = by[LastOf(s)] /\ stored'[s] < n /\ step'[s] = "store"
    BY <1>1, <1>2, <1>3, <1>5, StoringOwn, LastIsOwn, Shape DEF IInv, FetchOK
  <2>3. stored[s] + 1 = n => step'[s] = "done" /\ outcome'[s] = "ok"
    BY <1>3 DEF IInv, FetchOK
  <2>4. stored[s] + 1 # n => outcome'[s] = outcome[s]
    BY <1>3
  <2>5. \A r \in Sources : LastOf(r)' = LastOf(r)
    BY DEF LastOf
  <2> QED
    BY <1>1, <1>4, <2>1, <2>2, <2>3, <2>4, <2>5 DEF IInv, OutcomeInv
<1>10. PairInv'
  <2>1. \A r \in Sources \ {s} :
          \A i \in 1 .. Len(TablesOf(r)) : by'[TablesOf(r)[i]] = by[TablesOf(r)[i]]
    BY <1>4, <1>5, Shape
  <2>2. \A i \in 1 .. (stored[s] + 1) : by'[TablesOf(s)[i]] = Peer(s)
    <3> SUFFICES ASSUME NEW i \in 1 .. (stored[s] + 1)
                 PROVE  by'[TablesOf(s)[i]] = Peer(s)
      OBVIOUS
    <3>1. CASE i = stored[s] + 1
      BY <1>1, <1>6, <3>1 DEF Storing
    <3>2. CASE i # stored[s] + 1
      <4>1. i \in 1 .. stored[s] /\ i \in 1 .. n
        BY <1>1, <3>2, StoringOwn, Shape
      <4>2. by[TablesOf(s)[i]] = Peer(s)
        BY <1>1, <4>1 DEF IInv, PairInv
      <4>3. TablesOf(s)[i] # t /\ TablesOf(s)[i] \in Tables
        BY <1>1, <3>2, <4>1, StoringOwn, Shape
      <4> QED
        BY <1>5, <4>2, <4>3
    <3> QED
      BY <3>1, <3>2
  <2>3. stored'[s] = stored[s] + 1 /\ Peer(s) # "none"
    BY <1>1, <1>2, StoringOwn DEF IInv, FetchOK
  <2>4. ASSUME NEW r \in Sources \ {s}
        PROVE  /\ step'[r] = "store" =>
                    \A i \in 1 .. stored'[r] : by'[TablesOf(r)[i]] = Peer(r)'
               /\ step'[r] = "ask" => stored'[r] = 0
               /\ outcome'[r] = "ok" =>
                    \A i, j \in 1 .. Len(TablesOf(r)) :
                      by'[TablesOf(r)[i]] # "none"
                      /\ by'[TablesOf(r)[i]] = by'[TablesOf(r)[j]]
    <3>1. step[r] = "store" => stored[r] \in Nat /\ stored[r] < Len(TablesOf(r))
      BY Shape DEF IInv, FetchOK, OutcomeInv
    <3>2. Len(TablesOf(r)) \in 1 .. 2
      BY Shape
    <3> QED
      BY <1>4, <2>1, <3>1, <3>2 DEF IInv, PairInv
  <2>5. /\ step'[s] = "store" =>
             \A i \in 1 .. stored'[s] : by'[TablesOf(s)[i]] = Peer(s)'
        /\ step'[s] # "ask"
        /\ outcome'[s] = "ok" =>
             \A i, j \in 1 .. n :
               by'[TablesOf(s)[i]] # "none" /\ by'[TablesOf(s)[i]] = by'[TablesOf(s)[j]]
    <3>1. step'[s] # "ask" /\ (outcome'[s] = "ok" => stored[s] + 1 = n)
      BY <1>1, <1>3 DEF IInv, FetchOK, OutcomeInv
    <3> QED
      BY <1>6, <2>2, <2>3, <3>1
  <2> QED
    BY <2>4, <2>5 DEF PairInv
<1>11. VersionInv'
  <2>1. \A u \in Tables : mirror'[u] <= truth' /\ table'[u] <= truth' /\ got'[u] <= truth'
    BY <1>2, <1>5, <1>6 DEF IInv, VersionInv
  <2>2. \A r \in Sources :
          unread'[r] \subseteq AllOf(r) /\ (step'[r] = "store" => unread'[r] = {})
    BY <1>1, <1>2, <1>3, <1>4 DEF IInv, FetchOK, VersionInv
  <2>3. ASSUME NEW r \in Sources, step'[r] # "done", Peer(r)' # "grenadier",
               NEW u \in AllOf(r) \ unread'[r]
        PROVE  got'[u] >= table'[u]
    <3>1. u \in Tables /\ got'[u] = got[u] /\ Peer(r)' = Peer(r) /\ step[r] # "done"
      BY <1>1, <1>2, <1>4, <1>6, <2>3, Shape
    <3>2. CASE u = t
      BY <1>6, <3>1, <3>2 DEF IInv, WorldOK
    <3>3. CASE u # t
      BY <1>2, <1>5, <2>3, <3>1, <3>3 DEF IInv, VersionInv
    <3> QED
      BY <3>2, <3>3
  <2> QED
    BY <2>1, <2>2, <2>3 DEF VersionInv
<1> QED
  BY <1>7, <1>8, <1>9, <1>10, <1>11 DEF IInv

LEMMA NextInv == IInv /\ [Next]_vars => IInv'
<1> SUFFICES ASSUME IInv, [Next]_vars PROVE IInv'
  OBVIOUS
<1>1. CASE UNCHANGED vars
  BY <1>1 DEF vars, IInv, WorldOK, FetchOK, OutcomeInv, PairInv, VersionInv, LastOf, Peer
<1> QED
  BY <1>1, UpstreamStep, StartRefreshStep, RefreshOver, AnsweredStep, FailureStep,
     StoreTableStep DEF Next, Fetcher

\* Peers' failures, rolled back transactions and crashes keep every source
\* within its peers and its tables.
THEOREM TypeCorrect == Spec => []TypeOK
<1>1. IInv => TypeOK
  BY DEF IInv, WorldOK, FetchOK, TypeOK
<1> QED
  BY <1>1, InitInv, NextInv, PTL DEF Spec

\* fetchAndStoreLeadrate's two transactions: success means both tables hold
\* one peer's answer.
THEOREM PairsMatch == Spec => []PairOfOnePeer
<1>1. IInv => PairOfOnePeer
  <2>1. TablesOf("leadrate")[1] = "approved" /\ TablesOf("leadrate")[2] = "proposed"
        /\ Len(TablesOf("leadrate")) = 2
    BY DEF TablesOf
  <2> QED
    BY <2>1 DEF IInv, PairInv, PairOfOnePeer
<1> QED
  BY <1>1, InitInv, NextInv, PTL DEF Spec

\* refreshGovernanceOnce's partial failure: a failed source leaves its last
\* table alone.
THEOREM FailuresTouchNothing == Spec => []FailedUntouched
<1>1. IInv => FailedUntouched
  BY DEF IInv, OutcomeInv, FailedUntouched, LastOf
<1> QED
  BY <1>1, InitInv, NextInv, PTL DEF Spec

\* Refreshes do not overlap, and a failed peer's rows are not mixed with the
\* next one's: what the official sources send is never older than the table.
THEOREM OfficialNeverOlder == Spec => OnlyMirrorsGoBack
<1>1. ASSUME IInv, [Next]_vars, NEW t \in Tables, table'[t] < table[t]
      PROVE  by'[t] = "grenadier"
  <2>1. PICK s \in Sources : StoreTable(s)
    <3>1. table' # table
      BY <1>1 DEF IInv, WorldOK
    <3> QED
      BY <1>1, <3>1 DEF Next, Fetcher, Publish, MirrorRefreshes, StartRefresh,
         RefreshEnds, Crash, Answered, FetchFails, MintersUndecodable, StoreFails,
         stores, vars
  <2>2. t = Storing(s) /\ step[s] = "store"
    BY <1>1, <2>1, StoringOwn DEF StoreTable, IInv, WorldOK
  <2>3. table'[t] = got[t] /\ by'[t] = Peer(s)
    BY <1>1, <2>1, <2>2 DEF StoreTable, IInv, WorldOK
  <2>4. t \in AllOf(s) \ unread[s]
    BY <1>1, <2>2, StoringOwn DEF IInv, VersionInv
  <2>5. Peer(s) # "grenadier" => got[t] >= table[t]
    BY <1>1, <2>2, <2>4 DEF IInv, VersionInv
  <2> QED
    BY <1>1, <2>3, <2>5 DEF IInv, WorldOK
<1>2. IInv /\ [Next]_vars =>
        [\A t \in Tables : table'[t] < table[t] => by'[t] = "grenadier"]_vars
  BY <1>1
<1> QED
  BY <1>2, InitInv, NextInv, PTL DEF Spec, OnlyMirrorsGoBack
=============================================================================
