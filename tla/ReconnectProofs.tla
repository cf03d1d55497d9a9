--------------------------- MODULE ReconnectProofs ----------------------------
(***************************************************************************)
(* The peers that a client keeps dialling (Reconnect) and the start of a   *)
(* worker (WorkerStart), for any number of peers and retries and queues of *)
(* any length.                                                             *)
(***************************************************************************)
EXTENDS Reconnect, WorkerStart, FiniteSetTheorems, TLAPS

-----------------------------------------------------------------------------
(***************************************************************************)
(* Queues kept in sequences (VecDeque, DelayQueue, channels)               *)
(***************************************************************************)

\* Pushing to the back of a queue adds the element and keeps the queue free
\* of duplicates if the element was not in it (push_back, DelayQueue::insert).
LEMMA AppendFacts ==
  ASSUME NEW S, NEW s \in Seq(S), NEW x \in S
  PROVE  /\ Append(s, x) \in Seq(S)
         /\ Range(Append(s, x)) = Range(s) \cup {x}
         /\ IsInjective(s) /\ x \notin Range(s) => IsInjective(Append(s, x))
<1>1. Append(s, x) \in Seq(S)
  OBVIOUS
<1>2. /\ Len(s) \in Nat /\ DOMAIN s = 1..Len(s)
      /\ DOMAIN Append(s, x) = 1..(Len(s) + 1)
      /\ \A i \in 1..Len(s) : Append(s, x)[i] = s[i]
      /\ Append(s, x)[Len(s) + 1] = x
  OBVIOUS
<1>3. Range(Append(s, x)) = Range(s) \cup {x}
  <2>1. Len(s) + 1 \in DOMAIN Append(s, x) /\ DOMAIN s \subseteq DOMAIN Append(s, x)
    BY <1>2
  <2>2. \A i \in DOMAIN Append(s, x) : i \in DOMAIN s \/ i = Len(s) + 1
    BY <1>2
  <2> QED
    BY <1>2, <2>1, <2>2 DEF Range
<1>4. ASSUME IsInjective(s), x \notin Range(s)
      PROVE  IsInjective(Append(s, x))
  BY <1>2, <1>4 DEF Range, IsInjective
<1> QED
  BY <1>1, <1>3, <1>4

\* Taking the front of a queue removes that element and no other (pop_front,
\* poll_expired).
LEMMA TailFacts ==
  ASSUME NEW S, NEW s \in Seq(S), s # <<>>
  PROVE  /\ Tail(s) \in Seq(S)
         /\ Head(s) \in S
         /\ Range(s) = {Head(s)} \cup Range(Tail(s))
         /\ IsInjective(s) => IsInjective(Tail(s)) /\ Head(s) \notin Range(Tail(s))
<1>1. Tail(s) \in Seq(S) /\ Head(s) \in S
  OBVIOUS
<1>2. /\ Len(s) \in Nat \ {0}
      /\ DOMAIN s = 1..Len(s)
      /\ DOMAIN Tail(s) = 1..(Len(s) - 1)
      /\ \A i \in 1..(Len(s) - 1) : Tail(s)[i] = s[i + 1]
      /\ Head(s) = s[1]
  OBVIOUS
<1>3. Range(s) = {Head(s)} \cup Range(Tail(s))
  <2>1. ASSUME NEW i \in 1..Len(s)
        PROVE  s[i] \in {Head(s)} \cup Range(Tail(s))
    <3>1. CASE i = 1
      BY <1>2, <3>1
    <3>2. CASE i # 1
      <4>1. i - 1 \in 1..(Len(s) - 1) /\ Tail(s)[i - 1] = s[i]
        BY <1>2, <3>2
      <4> QED
        BY <4>1, <1>2, Zenon DEF Range
    <3> QED
      BY <3>1, <3>2
  <2>2. ASSUME NEW i \in 1..(Len(s) - 1)
        PROVE  Tail(s)[i] \in Range(s)
    BY <1>2 DEF Range
  <2>3. Head(s) \in Range(s)
    BY <1>2 DEF Range
  <2> QED
    BY <2>1, <2>2, <2>3, <1>2 DEF Range
<1>4. ASSUME IsInjective(s)
      PROVE  IsInjective(Tail(s)) /\ Head(s) \notin Range(Tail(s))
  BY <1>2, <1>4 DEF IsInjective, Range
<1> QED
  BY <1>1, <1>3, <1>4

\* Appending one queue to another (the sweep of on_nodes_update).
LEMMA ConcatFacts ==
  ASSUME NEW S, NEW s \in Seq(S), NEW t \in Seq(S)
  PROVE  /\ s \o t \in Seq(S)
         /\ Range(s \o t) = Range(s) \cup Range(t)
         /\ IsInjective(s) /\ IsInjective(t) /\ Range(s) \cap Range(t) = {}
              => IsInjective(s \o t)
<1>1. s \o t \in Seq(S)
  OBVIOUS
<1>2. /\ Len(s) \in Nat /\ Len(t) \in Nat
      /\ DOMAIN s = 1..Len(s) /\ DOMAIN t = 1..Len(t)
      /\ DOMAIN (s \o t) = 1..(Len(s) + Len(t))
      /\ \A i \in 1..(Len(s) + Len(t)) :
           (s \o t)[i] = IF i <= Len(s) THEN s[i] ELSE t[i - Len(s)]
  OBVIOUS
<1>3. Range(s \o t) = Range(s) \cup Range(t)
  <2>1. ASSUME NEW i \in 1..(Len(s) + Len(t))
        PROVE  (s \o t)[i] \in Range(s) \cup Range(t)
    <3>1. CASE i <= Len(s)
      BY <1>2, <3>1 DEF Range
    <3>2. CASE ~(i <= Len(s))
      <4>1. i - Len(s) \in 1..Len(t) /\ (s \o t)[i] = t[i - Len(s)]
        BY <1>2, <3>2
      <4> QED
        BY <4>1, <1>2 DEF Range
    <3> QED
      BY <3>1, <3>2
  <2>2. ASSUME NEW i \in 1..Len(s)
        PROVE  s[i] \in Range(s \o t)
    <3>1. i \in 1..(Len(s) + Len(t)) /\ (s \o t)[i] = s[i]
      BY <1>2
    <3> QED
      BY <3>1, <1>2 DEF Range
  <2>3. ASSUME NEW i \in 1..Len(t)
        PROVE  t[i] \in Range(s \o t)
    <3>1. i + Len(s) \in 1..(Len(s) + Len(t)) /\ (s \o t)[i + Len(s)] = t[i]
      BY <1>2
    <3> QED
      BY <3>1, <1>2, Zenon DEF Range
  <2> QED
    BY <2>1, <2>2, <2>3, <1>2, Zenon DEF Range
<1>4. ASSUME IsInjective(s), IsInjective(t), Range(s) \cap Range(t) = {},
             NEW i \in 1..(Len(s) + Len(t)), NEW j \in 1..(Len(s) + Len(t)), i # j
      PROVE  (s \o t)[i] # (s \o t)[j]
  <2>1. \A k \in 1..Len(s), m \in 1..Len(t) : s[k] # t[m]
    BY <1>2, <1>4, Zenon DEF Range
  <2>2. CASE i <= Len(s) /\ j <= Len(s)
    BY <1>2, <1>4, <2>2 DEF IsInjective
  <2>3. CASE i <= Len(s) /\ ~(j <= Len(s))
    BY <1>2, <2>1, <2>3
  <2>4. CASE ~(i <= Len(s)) /\ j <= Len(s)
    BY <1>2, <2>1, <2>4
  <2>5. CASE ~(i <= Len(s)) /\ ~(j <= Len(s))
    <3>1. /\ i - Len(s) \in 1..Len(t) /\ j - Len(s) \in 1..Len(t)
          /\ i - Len(s) # j - Len(s)
          /\ (s \o t)[i] = t[i - Len(s)] /\ (s \o t)[j] = t[j - Len(s)]
      BY <1>2, <1>4, <2>5
    <3> QED
      BY <1>2, <1>4, <3>1 DEF IsInjective
  <2> QED
    BY <2>2, <2>3, <2>4, <2>5
<1> QED
  BY <1>1, <1>2, <1>3, <1>4 DEF IsInjective

-----------------------------------------------------------------------------
(***************************************************************************)
(* Connections that are retried (Reconnect)                                *)
(***************************************************************************)

\* A HashSet iterated in any order yields each of its members once.
LEMMA OrderingFacts ==
  ASSUME NEW S, IsFiniteSet(S), NEW s \in Orderings(S)
  PROVE  /\ s \in Seq(S)
         /\ Range(s) = S
         /\ IsInjective(s)
<1>1. Cardinality(S) \in Nat
  BY FS_CardinalityType
<1>2. s \in [1..Cardinality(S) -> S]
  BY DEF Orderings, Bijection, Injection
<1>3. s \in Seq(S)
  BY <1>1, <1>2
<1>4. Range(s) = S
  BY <1>2 DEF Orderings, Bijection, Surjection, Range
<1>5. IsInjective(s)
  BY <1>2 DEF Orderings, Bijection, Injection, IsInjective
<1> QED
  BY <1>3, <1>4, <1>5

-----------------------------------------------------------------------------
(***************************************************************************)
(* Lemmas on the address cache, retry scheduling and dialling              *)
(***************************************************************************)

\* AddressCache::put caches addresses of known peers only.
LEMMA CachePutType ==
  ASSUME NEW p \in Peers, NEW c \in SUBSET Peers, NEW d \in CachePutFiltered(p, c)
  PROVE  d \in SUBSET Peers
BY DEF CachePutFiltered, CachePut

\* schedule_reconnect queues p at most once, and leaves p waiting if p is a
\* maintained worker without outbound connections.
LEMMA ScheduleFacts ==
  ASSUME TypeOK, WaitsOnce, NEW p \in Peers, NEW conns,
         schedule_reconnect(p, conns), pending_lookups' = pending_lookups
  PROVE  /\ reconnect_queue' \in Seq(Peers)
         /\ reconnect_scheduled' \in SUBSET Peers
         /\ reconnect_scheduled \subseteq reconnect_scheduled'
         /\ WaitsOnce'
         /\ Maintain /\ p \in registered_workers /\ conns[p] = 0
              => p \in reconnect_scheduled'
<1>1. CASE /\ Maintain /\ p \in registered_workers
           /\ conns[p] = 0 /\ p \notin reconnect_scheduled
  <2>1. /\ reconnect_scheduled' = reconnect_scheduled \cup {p}
        /\ reconnect_queue' = Append(reconnect_queue, p)
    BY <1>1 DEF schedule_reconnect
  <2>2. reconnect_queue \in Seq(Peers) /\ reconnect_scheduled \in SUBSET Peers
    BY DEF TypeOK
  <2>3. /\ reconnect_queue' \in Seq(Peers)
        /\ Range(reconnect_queue') = Range(reconnect_queue) \cup {p}
        /\ IsInjective(reconnect_queue) /\ p \notin Range(reconnect_queue)
             => IsInjective(reconnect_queue')
    BY <2>1, <2>2, AppendFacts
  <2>4. WaitsOnce'
    BY <1>1, <2>1, <2>3 DEF WaitsOnce
  <2> QED
    BY <2>1, <2>2, <2>3, <2>4
<1>2. CASE ~(/\ Maintain /\ p \in registered_workers
             /\ conns[p] = 0 /\ p \notin reconnect_scheduled)
  <2>1. UNCHANGED <<reconnect_queue, reconnect_scheduled>>
    BY <1>2 DEF schedule_reconnect, waitVars
  <2> QED
    BY <1>2, <2>1 DEF TypeOK, WaitsOnce
<1> QED
  BY <1>1, <1>2

\* A dial, with the failure the swarm may report at once, keeps the types and
\* the waiting places; a registered worker is left waiting or being dialled
\* unless the dial was skipped.
LEMMA DialFacts ==
  ASSUME TypeOK, WaitsOnce, WorkersAllowed,
         NEW p \in Peers, NEW skip \in BOOLEAN, NEW c \in SUBSET Peers,
         Dial(p, skip, c), pending_lookups' = pending_lookups
  PROVE  /\ cached' \in SUBSET Peers
         /\ dialing' \in SUBSET Peers
         /\ dialing \subseteq dialing'
         /\ reconnect_queue' \in Seq(Peers)
         /\ reconnect_scheduled' \in SUBSET Peers
         /\ reconnect_scheduled \subseteq reconnect_scheduled'
         /\ WaitsOnce'
         /\ Maintain /\ p \in registered_workers
              => \/ skip
                 \/ p \in dialing'
                 \/ p \in reconnect_scheduled'
                 \/ outbound_conn_exists(p)
<1> DEFINE Goal ==
         /\ cached' \in SUBSET Peers
         /\ dialing' \in SUBSET Peers
         /\ dialing \subseteq dialing'
         /\ reconnect_queue' \in Seq(Peers)
         /\ reconnect_scheduled' \in SUBSET Peers
         /\ reconnect_scheduled \subseteq reconnect_scheduled'
         /\ WaitsOnce'
         /\ Maintain /\ p \in registered_workers
              => \/ skip
                 \/ p \in dialing'
                 \/ p \in reconnect_scheduled'
                 \/ outbound_conn_exists(p)
<1>0. p \in registered_workers => p \in allowed
  BY DEF WorkersAllowed
<1>1. CASE skip /\ cached' = c /\ UNCHANGED <<dialing, waitVars>>
  BY <1>1 DEF TypeOK, WaitsOnce, waitVars
<1>2. CASE p \notin allowed /\ cached' = c /\ UNCHANGED <<dialing, waitVars>>
  BY <1>0, <1>2 DEF TypeOK, WaitsOnce, waitVars
<1>3. CASE /\ cached' = c \ {p}
           /\ schedule_reconnect(p, outbound_conns)
           /\ UNCHANGED dialing
  <2>1. outbound_conns[p] = 0 \/ outbound_conn_exists(p)
    BY DEF TypeOK, outbound_conn_exists
  <2>2. cached' \in SUBSET Peers /\ dialing' \in SUBSET Peers /\ dialing' = dialing
    BY <1>3 DEF TypeOK
  <2>3. /\ reconnect_queue' \in Seq(Peers)
        /\ reconnect_scheduled' \in SUBSET Peers
        /\ reconnect_scheduled \subseteq reconnect_scheduled'
        /\ WaitsOnce'
        /\ Maintain /\ p \in registered_workers /\ outbound_conns[p] = 0
             => p \in reconnect_scheduled'
    BY <1>3, ScheduleFacts
  <2> QED
    BY <2>1, <2>2, <2>3
<1>4. CASE dialing' = dialing \cup {p} /\ cached' = c /\ UNCHANGED waitVars
  BY <1>4 DEF TypeOK, WaitsOnce, waitVars
<1> QED
  BY <1>1, <1>2, <1>3, <1>4 DEF Dial

-----------------------------------------------------------------------------
(***************************************************************************)
(* The inductive invariant                                                 *)
(***************************************************************************)

InboundKnown == inbound \subseteq InboundPeers

RetryInv ==
  /\ TypeOK
  /\ WaitsOnce
  /\ LookupCap
  /\ WorkersAllowed
  /\ InboundKnown
  /\ NotForgotten

\* The node starts with nothing registered, connected, waiting or looked up.
LEMMA InitRetryInv == Init => RetryInv
<1> SUFFICES ASSUME Init PROVE RetryInv
  OBVIOUS
<1> USE ConfigAssumption
<1>1. TypeOK
  BY DEF Init, TypeOK
<1>2. WaitsOnce
  BY DEF Init, WaitsOnce, IsInjective, Range
<1>3. LookupCap
  BY FS_EmptySet DEF Init, LookupCap
<1>4. WorkersAllowed /\ InboundKnown /\ NotForgotten
  BY DEF Init, WorkersAllowed, InboundKnown, NotForgotten
<1> QED
  BY <1>1, <1>2, <1>3, <1>4 DEF RetryInv

\* The end of a cooldown: the peer moves from one waiting place to the other,
\* or stops waiting because it is connected or deregistered.
LEMMA ExpireStep == RetryInv /\ ExpireReconnect => RetryInv'
<1> SUFFICES ASSUME RetryInv, ExpireReconnect PROVE RetryInv'
  OBVIOUS
<1> DEFINE p == Head(reconnect_queue)
<1>1. /\ reconnect_queue # <<>>
      /\ reconnect_queue' = Tail(reconnect_queue)
      /\ UNCHANGED <<registered_nodes, allowed, registered_workers, outbound_conns,
                     inbound, dialing, cached, ongoing_lookups, pending_events>>
  BY DEF ExpireReconnect, whitelistVars, swarmVars
<1>2. /\ Tail(reconnect_queue) \in Seq(Peers)
      /\ p \in Peers
      /\ Range(reconnect_queue) = {p} \cup Range(Tail(reconnect_queue))
      /\ IsInjective(Tail(reconnect_queue)) /\ p \notin Range(Tail(reconnect_queue))
  BY <1>1, TailFacts DEF RetryInv, TypeOK, WaitsOnce
<1>3. p \in reconnect_scheduled /\ p \notin Range(pending_lookups)
  BY <1>2 DEF RetryInv, WaitsOnce
<1>4. LookupCap' /\ WorkersAllowed' /\ InboundKnown'
  BY <1>1 DEF RetryInv, LookupCap, WorkersAllowed, InboundKnown
<1>5. CASE ~outbound_conn_exists(p) /\ p \in registered_workers
  <2>1. pending_lookups' = Append(pending_lookups, p) /\ UNCHANGED reconnect_scheduled
    BY <1>5 DEF ExpireReconnect
  <2>2. /\ pending_lookups' \in Seq(Peers)
        /\ Range(pending_lookups') = Range(pending_lookups) \cup {p}
        /\ IsInjective(pending_lookups')
    BY <1>2, <1>3, <2>1, AppendFacts DEF RetryInv, TypeOK, WaitsOnce
  <2>3. TypeOK'
    BY <1>1, <1>2, <2>1, <2>2 DEF RetryInv, TypeOK
  <2>4. WaitsOnce'
    BY <1>1, <1>2, <2>1, <2>2 DEF RetryInv, WaitsOnce
  <2>5. NotForgotten'
    BY <1>1, <2>1 DEF RetryInv, NotForgotten, Chased, outbound_conn_exists
  <2> QED
    BY <1>4, <2>3, <2>4, <2>5 DEF RetryInv
<1>6. CASE ~(~outbound_conn_exists(p) /\ p \in registered_workers)
  <2>1. reconnect_scheduled' = reconnect_scheduled \ {p} /\ UNCHANGED pending_lookups
    BY <1>6 DEF ExpireReconnect
  <2>2. TypeOK'
    BY <1>1, <1>2, <2>1 DEF RetryInv, TypeOK
  <2>3. WaitsOnce'
    BY <1>1, <1>2, <1>3, <2>1 DEF RetryInv, WaitsOnce
  <2>4. NotForgotten'
    BY <1>1, <1>6, <2>1 DEF RetryInv, NotForgotten, Chased, outbound_conn_exists
  <2> QED
    BY <1>4, <2>2, <2>3, <2>4 DEF RetryInv
<1> QED
  BY <1>5, <1>6

\* poll takes a waiting peer only while there is room for one more query, and
\* hands it to the address cache's dial or to a query.
LEMMA LaunchStep == RetryInv /\ LaunchLookup => RetryInv'
<1> SUFFICES ASSUME RetryInv, LaunchLookup PROVE RetryInv'
  OBVIOUS
<1> DEFINE p == Head(pending_lookups)
<1>1. /\ pending_lookups # <<>>
      /\ Cardinality(ongoing_lookups) < MaxConcurrentLookups
      /\ pending_lookups' = Tail(pending_lookups)
      /\ reconnect_scheduled' = reconnect_scheduled \ {p}
      /\ UNCHANGED <<registered_nodes, allowed, registered_workers, outbound_conns,
                     inbound, dialing, cached, reconnect_queue>>
  BY DEF LaunchLookup, CanLaunch, whitelistVars, swarmVars
<1>2. /\ Tail(pending_lookups) \in Seq(Peers)
      /\ p \in Peers
      /\ Range(pending_lookups) = {p} \cup Range(Tail(pending_lookups))
      /\ IsInjective(Tail(pending_lookups)) /\ p \notin Range(Tail(pending_lookups))
  BY <1>1, TailFacts DEF RetryInv, TypeOK, WaitsOnce
<1>3. WaitsOnce'
  BY <1>1, <1>2 DEF RetryInv, WaitsOnce
<1>4. WorkersAllowed' /\ InboundKnown'
  BY <1>1 DEF RetryInv, WorkersAllowed, InboundKnown
<1>5. CASE outbound_conn_exists(p) /\ UNCHANGED <<ongoing_lookups, pending_events>>
  <2>1. TypeOK' /\ LookupCap'
    BY <1>1, <1>2, <1>5 DEF RetryInv, TypeOK, LookupCap
  <2>2. NotForgotten'
    BY <1>1, <1>5 DEF RetryInv, NotForgotten, Chased, outbound_conn_exists
  <2> QED
    BY <1>3, <1>4, <2>1, <2>2 DEF RetryInv
<1>6. CASE pending_events' = Append(pending_events, p) /\ UNCHANGED ongoing_lookups
  <2>1. /\ pending_events' \in Seq(Peers)
        /\ Range(pending_events') = Range(pending_events) \cup {p}
    BY <1>2, <1>6, AppendFacts DEF RetryInv, TypeOK
  <2>2. TypeOK' /\ LookupCap'
    BY <1>1, <1>2, <1>6, <2>1 DEF RetryInv, TypeOK, LookupCap
  <2>3. NotForgotten'
    BY <1>1, <1>6, <2>1 DEF RetryInv, NotForgotten, Chased, outbound_conn_exists
  <2> QED
    BY <1>3, <1>4, <2>2, <2>3 DEF RetryInv
<1>7. CASE ongoing_lookups' = ongoing_lookups \cup {p} /\ UNCHANGED pending_events
  <2>1. TypeOK'
    BY <1>1, <1>2, <1>7 DEF RetryInv, TypeOK
  <2>2. LookupCap'
    <3>1. IsFiniteSet(ongoing_lookups)
      BY ConfigAssumption, FS_Subset DEF RetryInv, TypeOK
    <3>2. Cardinality(ongoing_lookups) \in Nat
      BY <3>1, FS_CardinalityType
    <3>3. \/ Cardinality(ongoing_lookups') = Cardinality(ongoing_lookups)
          \/ Cardinality(ongoing_lookups') = Cardinality(ongoing_lookups) + 1
      BY <1>7, <3>1, FS_AddElement, Zenon
    <3> QED
      BY <1>1, <3>2, <3>3, ConfigAssumption DEF LookupCap
  <2>3. NotForgotten'
    BY <1>1, <1>7 DEF RetryInv, NotForgotten, Chased, outbound_conn_exists
  <2> QED
    BY <1>3, <1>4, <2>1, <2>2, <2>3 DEF RetryInv
<1> QED
  BY <1>5, <1>6, <1>7 DEF LaunchLookup, find_and_dial

\* The swarm skips a cached-address dial only for a peer that is being dialled
\* or connected; for a worker that never dials this node, "connected" means an
\* outbound connection.
LEMMA PollDialStep == RetryInv /\ PollDial => RetryInv'
<1> SUFFICES ASSUME RetryInv, PollDial PROVE RetryInv'
  OBVIOUS
<1> DEFINE p == Head(pending_events)
           skip == p \in dialing \/ Connected(p)
<1>1. /\ pending_events # <<>>
      /\ pending_events' = Tail(pending_events)
      /\ Dial(p, skip, cached)
      /\ UNCHANGED <<registered_nodes, allowed, registered_workers, outbound_conns,
                     inbound, pending_lookups, ongoing_lookups>>
  BY DEF PollDial, whitelistVars
<1>2. /\ pending_events' \in Seq(Peers)
      /\ p \in Peers
      /\ Range(pending_events) = {p} \cup Range(pending_events')
  BY <1>1, TailFacts DEF RetryInv, TypeOK
<1>3. skip \in BOOLEAN /\ cached \in SUBSET Peers
  BY DEF RetryInv, TypeOK, Connected, outbound_conn_exists
<1>4. /\ cached' \in SUBSET Peers
      /\ dialing' \in SUBSET Peers
      /\ dialing \subseteq dialing'
      /\ reconnect_queue' \in Seq(Peers)
      /\ reconnect_scheduled' \in SUBSET Peers
      /\ reconnect_scheduled \subseteq reconnect_scheduled'
      /\ WaitsOnce'
      /\ Maintain /\ p \in registered_workers
           => \/ skip
              \/ p \in dialing'
              \/ p \in reconnect_scheduled'
              \/ outbound_conn_exists(p)
  <2> HIDE DEF p, skip
  <2> QED
    BY <1>1, <1>2, <1>3, DialFacts DEF RetryInv
<1>5. TypeOK'
  BY <1>1, <1>2, <1>4 DEF RetryInv, TypeOK
<1>6. LookupCap' /\ WorkersAllowed' /\ InboundKnown'
  BY <1>1 DEF RetryInv, LookupCap, WorkersAllowed, InboundKnown
<1>7. NotForgotten'
  <2> SUFFICES ASSUME Maintain, NEW q \in registered_workers \ InboundPeers
               PROVE  outbound_conn_exists(q) \/ Chased(q)'
    BY <1>1 DEF NotForgotten, outbound_conn_exists
  <2>1. outbound_conn_exists(q) \/ Chased(q)
    BY DEF RetryInv, NotForgotten
  <2>2. CASE q # p
    BY <1>1, <1>2, <1>4, <2>1, <2>2 DEF Chased
  <2>3. CASE q = p
    <3>1. skip => p \in dialing \/ outbound_conn_exists(p)
      BY <2>3 DEF Connected, RetryInv, InboundKnown
    <3> QED
      BY <1>4, <2>3, <3>1 DEF Chased
  <2> QED
    BY <2>2, <2>3
<1> QED
  BY <1>4, <1>5, <1>6, <1>7 DEF RetryInv

\* A whitelist update sweeps every registered worker without an outbound
\* connection into pending_lookups, unless it already waits.
LEMMA NodesUpdateStep ==
  ASSUME RetryInv, NEW workers \in SUBSET Peers, NEW portals \in SUBSET Peers,
         NodesUpdate(workers, portals)
  PROVE  RetryInv'
<1> DEFINE new == IF Maintain
                  THEN {p \in workers : ~outbound_conn_exists(p)} \ reconnect_scheduled
                  ELSE {}
<1>1. /\ registered_nodes' = workers \cup portals
      /\ allowed' = (allowed \ (registered_nodes \ (workers \cup portals)))
                      \cup ((workers \cup portals) \ registered_nodes)
      /\ registered_workers' = workers
      /\ reconnect_scheduled' = reconnect_scheduled \cup new
      /\ UNCHANGED <<outbound_conns, inbound, dialing, cached, reconnect_queue,
                     ongoing_lookups, pending_events>>
  BY DEF NodesUpdate, WhitelistUpdate, on_nodes_update, swarmVars
<1>2. PICK s \in Orderings(new) : pending_lookups' = pending_lookups \o s
  BY Zenon DEF NodesUpdate, on_nodes_update
<1>3. new \subseteq Peers /\ IsFiniteSet(new)
  BY ConfigAssumption, FS_Subset
<1>4. s \in Seq(new) /\ Range(s) = new /\ IsInjective(s)
  <2> HIDE DEF new
  <2> QED
    BY <1>3, OrderingFacts
<1>5. s \in Seq(Peers)
  BY <1>3, <1>4
<1>6. /\ pending_lookups' \in Seq(Peers)
      /\ Range(pending_lookups') = Range(pending_lookups) \cup new
      /\ IsInjective(pending_lookups')
  <2>1. pending_lookups \in Seq(Peers) /\ IsInjective(pending_lookups)
    BY DEF RetryInv, TypeOK, WaitsOnce
  <2>2. Range(pending_lookups) \cap Range(s) = {}
    BY <1>4 DEF RetryInv, WaitsOnce
  <2> QED
    BY <1>2, <1>4, <1>5, <2>1, <2>2, ConcatFacts
<1>7. TypeOK'
  BY <1>1, <1>3, <1>6 DEF RetryInv, TypeOK
<1>8. WaitsOnce'
  BY <1>1, <1>6 DEF RetryInv, WaitsOnce
<1>9. LookupCap' /\ WorkersAllowed' /\ InboundKnown'
  BY <1>1 DEF RetryInv, LookupCap, WorkersAllowed, InboundKnown
<1>10. NotForgotten'
  BY <1>1 DEF NotForgotten, Chased, outbound_conn_exists
<1> QED
  BY <1>7, <1>8, <1>9, <1>10 DEF RetryInv

\* A finished query dials its peer, found or not, so the peer passes from the
\* query to a dial in flight or to the cooldown queue.
LEMMA LookupDoneStep ==
  ASSUME RetryInv, NEW p \in Peers, LookupDone(p)
  PROVE  RetryInv'
<1>1. /\ p \in ongoing_lookups
      /\ ongoing_lookups' = ongoing_lookups \ {p}
      /\ UNCHANGED <<registered_nodes, allowed, registered_workers, outbound_conns,
                     inbound, pending_lookups, pending_events>>
  BY DEF LookupDone, whitelistVars
<1>2. PICK c \in CachePutFiltered(p, cached) : Dial(p, p \in dialing, c)
  BY DEF LookupDone
<1>3. c \in SUBSET Peers
  BY CachePutType, Zenon DEF RetryInv, TypeOK
<1>4. /\ cached' \in SUBSET Peers
      /\ dialing' \in SUBSET Peers
      /\ dialing \subseteq dialing'
      /\ reconnect_queue' \in Seq(Peers)
      /\ reconnect_scheduled' \in SUBSET Peers
      /\ reconnect_scheduled \subseteq reconnect_scheduled'
      /\ WaitsOnce'
      /\ Maintain /\ p \in registered_workers
           => \/ p \in dialing
              \/ p \in dialing'
              \/ p \in reconnect_scheduled'
              \/ outbound_conn_exists(p)
  <2> DEFINE skip == p \in dialing
  <2>1. skip \in BOOLEAN /\ Dial(p, skip, c) /\ (skip => p \in dialing)
    BY <1>2
  <2> HIDE DEF skip
  <2> QED
    BY <1>1, <1>3, <2>1, DialFacts DEF RetryInv
<1>5. TypeOK'
  BY <1>1, <1>4 DEF RetryInv, TypeOK
<1>6. LookupCap'
  <2>1. IsFiniteSet(ongoing_lookups)
    BY ConfigAssumption, FS_Subset DEF RetryInv, TypeOK
  <2>2. /\ Cardinality(ongoing_lookups) \in Nat
        /\ Cardinality(ongoing_lookups') = Cardinality(ongoing_lookups) - 1
    BY <1>1, <2>1, FS_RemoveElement, FS_CardinalityType
  <2> QED
    BY <2>2, ConfigAssumption DEF RetryInv, LookupCap
<1>7. WorkersAllowed' /\ InboundKnown'
  BY <1>1 DEF RetryInv, WorkersAllowed, InboundKnown
<1>8. NotForgotten'
  BY <1>1, <1>4 DEF RetryInv, NotForgotten, Chased, outbound_conn_exists
<1> QED
  BY <1>4, <1>5, <1>6, <1>7, <1>8 DEF RetryInv

\* Another behaviour's dial can fail at once too, and then schedules a retry.
LEMMA OtherDialStep ==
  ASSUME RetryInv, NEW p \in Peers, OtherDial(p)
  PROVE  RetryInv'
<1>1. /\ Dial(p, FALSE, cached)
      /\ UNCHANGED <<registered_nodes, allowed, registered_workers, outbound_conns,
                     inbound, pending_lookups, ongoing_lookups, pending_events>>
  BY Zenon DEF OtherDial, whitelistVars, lookupVars
<1>2. cached \in SUBSET Peers
  BY DEF RetryInv, TypeOK
<1>3. /\ cached' \in SUBSET Peers
      /\ dialing' \in SUBSET Peers
      /\ dialing \subseteq dialing'
      /\ reconnect_queue' \in Seq(Peers)
      /\ reconnect_scheduled' \in SUBSET Peers
      /\ reconnect_scheduled \subseteq reconnect_scheduled'
      /\ WaitsOnce'
  BY <1>1, <1>2, DialFacts, Zenon DEF RetryInv
<1>4. TypeOK'
  BY <1>1, <1>3 DEF RetryInv, TypeOK
<1>5. LookupCap' /\ WorkersAllowed' /\ InboundKnown'
  BY <1>1 DEF RetryInv, LookupCap, WorkersAllowed, InboundKnown
<1>6. NotForgotten'
  BY <1>1, <1>3 DEF RetryInv, NotForgotten, Chased, outbound_conn_exists
<1> QED
  BY <1>3, <1>4, <1>5, <1>6 DEF RetryInv

\* A failed dial and the close of the last outbound connection schedule a
\* retry of a registered worker; the other swarm events leave the waiting
\* places alone.
LEMMA SwarmEventStep == RetryInv /\ SwarmEvent => RetryInv'
<1> SUFFICES ASSUME RetryInv, NEW p \in Peers,
                    \/ DialEstablished(p) \/ DialUnreachable(p) \/ DialRefused(p)
                    \/ OutboundClosed(p) \/ InboundEstablished(p) \/ InboundClosed(p)
             PROVE  RetryInv'
  BY DEF SwarmEvent
<1> USE DEF whitelistVars, waitVars, lookupVars
<1>1. CASE DialEstablished(p)
  <2>1. cached' \in SUBSET Peers
    BY <1>1, CachePutType DEF DialEstablished, RetryInv, TypeOK
  <2>2. TypeOK'
    BY <1>1, <2>1 DEF DialEstablished, RetryInv, TypeOK
  <2>3. WaitsOnce' /\ LookupCap' /\ WorkersAllowed' /\ InboundKnown'
    BY <1>1 DEF DialEstablished, RetryInv, WaitsOnce, LookupCap, WorkersAllowed, InboundKnown
  <2>4. /\ outbound_conns'[p] > 0
        /\ \A q \in Peers : q # p => outbound_conns'[q] = outbound_conns[q]
    BY <1>1 DEF DialEstablished, RetryInv, TypeOK
  <2>5. NotForgotten'
    BY <1>1, <2>4 DEF DialEstablished, RetryInv, TypeOK, NotForgotten, Chased, outbound_conn_exists
  <2> QED
    BY <2>2, <2>3, <2>5 DEF RetryInv
<1>2. CASE DialUnreachable(p)
  <2>1. /\ reconnect_queue' \in Seq(Peers)
        /\ reconnect_scheduled' \in SUBSET Peers
        /\ reconnect_scheduled \subseteq reconnect_scheduled'
        /\ WaitsOnce'
        /\ Maintain /\ p \in registered_workers /\ outbound_conns[p] = 0
             => p \in reconnect_scheduled'
    BY <1>2, ScheduleFacts DEF DialUnreachable, RetryInv
  <2>2. TypeOK'
    BY <1>2, <2>1 DEF DialUnreachable, RetryInv, TypeOK
  <2>3. LookupCap' /\ WorkersAllowed' /\ InboundKnown'
    BY <1>2 DEF DialUnreachable, RetryInv, LookupCap, WorkersAllowed, InboundKnown
  <2>4. outbound_conns[p] = 0 \/ outbound_conn_exists(p)
    BY DEF RetryInv, TypeOK, outbound_conn_exists
  <2>5. NotForgotten'
    BY <1>2, <2>1, <2>4 DEF DialUnreachable, RetryInv, NotForgotten, Chased, outbound_conn_exists
  <2> QED
    BY <2>1, <2>2, <2>3, <2>5 DEF RetryInv
<1>3. CASE DialRefused(p)
  <2>1. TypeOK'
    BY <1>3 DEF DialRefused, RetryInv, TypeOK
  <2>2. WaitsOnce' /\ LookupCap' /\ WorkersAllowed' /\ InboundKnown'
    BY <1>3 DEF DialRefused, RetryInv, WaitsOnce, LookupCap, WorkersAllowed, InboundKnown
  <2>3. NotForgotten'
    BY <1>3 DEF DialRefused, RetryInv, WorkersAllowed, NotForgotten, Chased, outbound_conn_exists
  <2> QED
    BY <2>1, <2>2, <2>3 DEF RetryInv
<1>4. CASE OutboundClosed(p)
  <2> DEFINE conns == [outbound_conns EXCEPT ![p] = @ - 1]
  <2>1. outbound_conns' = conns /\ schedule_reconnect(p, conns)
    BY <1>4 DEF OutboundClosed
  <2>2. conns \in [Peers -> Nat] /\ \A q \in Peers : q # p => conns[q] = outbound_conns[q]
    BY <1>4 DEF OutboundClosed, RetryInv, TypeOK, outbound_conn_exists
  <2> HIDE DEF conns
  <2>3. /\ reconnect_queue' \in Seq(Peers)
        /\ reconnect_scheduled' \in SUBSET Peers
        /\ reconnect_scheduled \subseteq reconnect_scheduled'
        /\ WaitsOnce'
        /\ Maintain /\ p \in registered_workers /\ conns[p] = 0
             => p \in reconnect_scheduled'
    BY <1>4, <2>1, ScheduleFacts DEF OutboundClosed, RetryInv
  <2>4. TypeOK'
    BY <1>4, <2>1, <2>2, <2>3 DEF OutboundClosed, RetryInv, TypeOK
  <2>5. LookupCap' /\ WorkersAllowed' /\ InboundKnown'
    BY <1>4 DEF OutboundClosed, RetryInv, LookupCap, WorkersAllowed, InboundKnown
  <2>6. \A q \in Peers : conns[q] = 0 \/ conns[q] > 0
    BY <2>2
  <2>7. NotForgotten'
    BY <1>4, <2>1, <2>2, <2>3, <2>6
    DEF OutboundClosed, RetryInv, TypeOK, NotForgotten, Chased, outbound_conn_exists
  <2> QED
    BY <2>3, <2>4, <2>5, <2>7 DEF RetryInv
<1>5. CASE InboundEstablished(p) \/ InboundClosed(p)
  <2>1. TypeOK'
    BY <1>5 DEF InboundEstablished, InboundClosed, RetryInv, TypeOK
  <2>2. WaitsOnce' /\ LookupCap' /\ WorkersAllowed' /\ InboundKnown'
    BY <1>5 DEF InboundEstablished, InboundClosed, RetryInv, WaitsOnce, LookupCap,
                WorkersAllowed, InboundKnown
  <2>3. NotForgotten'
    BY <1>5 DEF InboundEstablished, InboundClosed, RetryInv, NotForgotten, Chased, outbound_conn_exists
  <2> QED
    BY <2>1, <2>2, <2>3 DEF RetryInv
<1> QED
  BY <1>1, <1>2, <1>3, <1>4, <1>5

\* Every step of the node, and stuttering, preserves the invariant.
LEMMA NextRetryInv == RetryInv /\ [Next]_vars => RetryInv'
<1> SUFFICES ASSUME RetryInv, [Next]_vars PROVE RetryInv'
  OBVIOUS
<1>1. CASE Poll
  BY <1>1, ExpireStep, LaunchStep, PollDialStep DEF Poll
<1>2. CASE InnerEvent
  <2>1. ASSUME NEW p \in Peers, LearnAddress(p)
        PROVE  RetryInv'
    <3>1. cached' \in SUBSET Peers
      BY <2>1, CachePutType, Zenon DEF LearnAddress, CachePutFiltered, RetryInv, TypeOK
    <3> QED
      BY <2>1, <3>1 DEF LearnAddress, whitelistVars, swarmVars, waitVars, lookupVars, RetryInv, TypeOK,
         WaitsOnce, LookupCap, WorkersAllowed, InboundKnown, NotForgotten, Chased, outbound_conn_exists
  <2> QED
    BY <1>2, <2>1, NodesUpdateStep, LookupDoneStep, OtherDialStep DEF InnerEvent
<1>3. CASE SwarmEvent
  BY <1>3, SwarmEventStep
<1>4. CASE UNCHANGED vars
  BY <1>4 DEF vars, whitelistVars, swarmVars, waitVars, lookupVars, RetryInv, TypeOK,
     WaitsOnce, LookupCap, WorkersAllowed, InboundKnown, NotForgotten, Chased, outbound_conn_exists
<1> QED
  BY <1>1, <1>2, <1>3, <1>4 DEF Next

-----------------------------------------------------------------------------
(***************************************************************************)
(* Theorems                                                                *)
(***************************************************************************)

\* The retry loop keeps its invariant for any peers, lookup cap and cache size.
THEOREM RetryInvariant == Spec => []RetryInv
BY InitRetryInv, NextRetryInv, PTL DEF Spec

\* Every structure of BaseBehaviour holds known peers and the connection
\* counter never goes below zero (`*count -= 1' in on_connection_closed).
THEOREM TypeCorrect == Spec => []TypeOK
<1>1. RetryInv => TypeOK
  BY DEF RetryInv
<1> QED
  BY <1>1, RetryInvariant, PTL

\* "A peer waits in at most one place at a time" (base.rs:135).
THEOREM WaitsOnceAlways == Spec => []WaitsOnce
<1>1. RetryInv => WaitsOnce
  BY DEF RetryInv
<1> QED
  BY <1>1, RetryInvariant, PTL

\* Never more than max_concurrent_lookups Kademlia queries.
THEOREM LookupCapAlways == Spec => []LookupCap
<1>1. RetryInv => LookupCap
  BY DEF RetryInv
<1> QED
  BY <1>1, RetryInvariant, PTL

\* No registered worker that does not dial this node is dropped from the
\* retry loop while it is disconnected.
THEOREM NotForgottenAlways == Spec => []NotForgotten
<1>1. RetryInv => NotForgotten
  BY DEF RetryInv
<1> QED
  BY <1>1, RetryInvariant, PTL

-----------------------------------------------------------------------------
(***************************************************************************)
(* A worker that joins the network (WorkerStart)                           *)
(***************************************************************************)

\* the types
StartTypes ==
  /\ now \in Nat /\ now <= MaxTime
  /\ registered_at \in Nat
  /\ registered_at # Never => registered_at <= MaxTime + 1
  /\ tick \in [Nodes -> Nat]
  /\ reading \in [Nodes -> {<<>>} \cup (Nat \X BOOLEAN)]
  /\ wake \in Nat /\ started_at \in Nat
  
\* the clock never passes a tick nor the end of a read
OnTime(n) ==
  /\ now <= tick[n] /\ tick[n] <= now + Interval
  /\ reading[n] # <<>> =>
       /\ reading[n][1] <= now /\ now <= reading[n][1] + Latency
       /\ reading[n][1] + Interval <= tick[n]
       /\ reading[n][2] => registered_at <= reading[n][1]

\* Once the worker is registered, a node has read so since, or reads it now, or
\* will within an interval of the registration.
Informed(n) ==
  \/ /\ n \in whitelisted \cup failed
     /\ registered_at <= now
     /\ reading[n] # <<>> => reading[n][2]
  \/ reading[n] # <<>> /\ reading[n][2] /\ reading[n][1] <= registered_at + Interval
  \/ tick[n] <= registered_at + Interval

WorkerInv ==
  /\ worker = "sleeping" => registered_at <= now /\ wake = registered_at + Interval
  /\ worker = "started" => registered_at <= now /\ started_at >= registered_at + Interval

StartInv ==
  /\ StartTypes
  /\ \A n \in Nodes : OnTime(n) /\ (registered_at # Never => Informed(n))
  /\ WorkerInv

LEMMA InitStartInv ==
  ASSUME StartInit PROVE StartInv
<1>. USE StartAssumption
<1>1. StartTypes
  BY DEF StartInit, Never, StartTypes
<1>2. ASSUME NEW n \in Nodes PROVE OnTime(n)
  BY DEF StartInit, OnTime
<1>. QED  BY <1>1, <1>2 DEF StartInit, StartInv, WorkerInv

\* A read sees a registration whose time has come.
LEMMA TickStartInv ==
  ASSUME StartInv, NEW n \in Nodes, network_nodes_stream(n)
  PROVE  StartInv'
<1>. USE StartAssumption DEF StartInv
<1>1. /\ now' = now /\ registered_at' = registered_at /\ worker' = worker /\ wake' = wake
      /\ started_at' = started_at /\ whitelisted' = whitelisted /\ failed' = failed
      /\ reading[n] = <<>> /\ tick[n] <= now
      /\ tick' = [tick EXCEPT ![n] = tick[n] + Interval]
  BY DEF network_nodes_stream
<1>2. PICK sees \in BOOLEAN : sees <=> registered_at <= now
  BY Zenon
<1>3. reading' = [reading EXCEPT ![n] = <<now, sees>>]
  <2>1. reading' = [reading EXCEPT ![n] = <<now, registered_at <= now>>]
    BY DEF network_nodes_stream
  <2>2. (registered_at <= now) = sees
    BY <1>2
  <2>. QED  BY <2>1, <2>2, Zenon
<1>4. now \in Nat /\ registered_at \in Nat /\ tick[n] \in Nat /\ now <= tick[n]
  BY DEF StartTypes, OnTime
<1>5. tick[n] = now
  BY <1>1, <1>4
<1>6. reading'[n] = <<now, sees>> /\ tick'[n] = now + Interval
  BY <1>1, <1>3, <1>5 DEF StartTypes
<1>7. StartTypes'
  <2>1. <<now, sees>> \in Nat \X BOOLEAN /\ now + Interval \in Nat
    BY <1>4
  <2>2. reading' \in [Nodes -> {<<>>} \cup (Nat \X BOOLEAN)]
    BY <1>3, <2>1 DEF StartTypes
  <2>3. tick' \in [Nodes -> Nat]
    BY <1>1, <1>5, <2>1 DEF StartTypes
  <2>. QED  BY <1>1, <2>2, <2>3 DEF StartTypes, Never
<1>8. ASSUME NEW m \in Nodes
      PROVE  OnTime(m)' /\ ((registered_at # Never)' => Informed(m)')
  <2>1. CASE m # n
    <3>1. tick'[m] = tick[m] /\ reading'[m] = reading[m]
      BY <1>1, <1>3, <2>1 DEF StartTypes
    <3>. QED  BY <1>1, <3>1 DEF OnTime, Informed, Never
  <2>2. CASE m = n
    <3>1. reading'[n] # <<>> /\ reading'[n][1] = now /\ reading'[n][2] = sees
      BY <1>6
    <3>2. sees => registered_at <= now
      BY <1>2
    <3>3. ~sees => now <= registered_at
      BY <1>2, <1>4
    <3>4. OnTime(n)'
      BY <1>1, <1>4, <1>6, <3>1, <3>2 DEF OnTime
    <3>5. ASSUME registered_at # Never
          PROVE  Informed(n)'
      <4>1. CASE sees
        <5>1. n \in whitelisted \cup failed \/ now <= registered_at + Interval
          BY <1>1, <1>5, <3>5 DEF Informed
        <5>. QED  BY <1>1, <3>1, <3>2, <4>1, <5>1 DEF Informed
      <4>2. CASE ~sees
        <5>1. now + Interval <= registered_at + Interval
          BY <1>4, <3>3, <4>2
        <5>. QED  BY <1>1, <1>6, <5>1 DEF Informed
      <4>. QED  BY <4>1, <4>2
    <3>. QED  BY <1>1, <2>2, <3>4, <3>5 DEF Never
  <2>. QED  BY <2>1, <2>2
<1>. QED  BY <1>1, <1>7, <1>8 DEF WorkerInv

\* What a read returns replaces the node's entry of the worker.
LEMMA ReadStartInv ==
  ASSUME StartInv, NEW n \in Nodes, ReadDone(n) \/ ReadFails(n)
  PROVE  StartInv'
<1>. USE StartAssumption DEF StartInv
<1>1. /\ now' = now /\ registered_at' = registered_at /\ worker' = worker /\ wake' = wake
      /\ started_at' = started_at /\ tick' = tick
      /\ reading[n] # <<>> /\ reading' = [reading EXCEPT ![n] = <<>>]
      /\ \A m \in Nodes \ {n} : m \in whitelisted \cup failed => m \in whitelisted' \cup failed'
      /\ n \in failed => n \in failed'
      /\ registered_at <= now /\ reading[n][2] => n \in whitelisted' \cup failed'
  BY DEF ReadDone, ReadFails
<1>2. StartTypes'
  BY <1>1 DEF StartTypes, Never
<1>3. ASSUME NEW m \in Nodes PROVE OnTime(m)' /\ ((registered_at # Never)' => Informed(m)')
  <2>1. CASE m # n
    BY <1>1, <2>1 DEF OnTime, Informed, StartTypes, Never
  <2>2. CASE m = n
    <3>1. reading'[n] = <<>>
      BY <1>1 DEF StartTypes
    <3>2. /\ now \in Nat /\ registered_at \in Nat /\ tick[n] \in Nat
          /\ reading[n][1] \in Nat
      BY <1>1 DEF StartTypes
    <3>3. OnTime(n)'
      BY <1>1, <3>1, <3>2 DEF OnTime
    <3>4. ASSUME registered_at # Never PROVE Informed(n)'
      <4>1. CASE tick[n] <= registered_at + Interval
        BY <1>1, <4>1 DEF Informed
      <4>2. CASE reading[n][2]
        <5>1. registered_at <= now
          BY <1>1, <3>2, <4>2 DEF OnTime
        <5>. QED  BY <1>1, <3>1, <4>2, <5>1 DEF Informed
      <4>. QED  BY <1>1, <3>4, <4>1, <4>2 DEF Informed
    <3>. QED  BY <1>1, <2>2, <3>3, <3>4 DEF Never
  <2>. QED  BY <2>1, <2>2
<1>. QED  BY <1>1, <1>2, <1>3 DEF WorkerInv

\* The worker's own steps touch no other node.
LEMMA WorkerStartInv ==
  ASSUME StartInv, build_worker \/ WakeUp
  PROVE  StartInv'
<1>. USE StartAssumption DEF StartInv
<1>1. /\ now' = now /\ registered_at' = registered_at /\ tick' = tick /\ reading' = reading
      /\ whitelisted' = whitelisted /\ failed' = failed
  BY DEF build_worker, WakeUp, nodeVars
<1>2. now \in Nat /\ registered_at \in Nat /\ wake \in Nat /\ started_at \in Nat
  BY DEF StartTypes
<1>3. wake' \in Nat /\ started_at' \in Nat
  BY <1>2 DEF build_worker, WakeUp, build_swarm
<1>4. WorkerInv'
  <2>1. CASE build_worker
    BY <1>1, <1>2, <2>1 DEF build_worker, build_swarm, WorkerInv
  <2>2. CASE WakeUp
    BY <1>1, <1>2, <2>2 DEF WakeUp, build_swarm, WorkerInv
  <2>. QED  BY <2>1, <2>2
<1>5. StartTypes'
  BY <1>1, <1>3 DEF StartTypes, Never
<1>6. \A n \in Nodes : OnTime(n)' /\ ((registered_at # Never)' => Informed(n)')
  BY <1>1 DEF OnTime, Informed, Never
<1>. QED  BY <1>4, <1>5, <1>6

\* Every node ticks within an interval of the registration.
LEMMA RegisterStartInv ==
  ASSUME StartInv, RegisterWorker
  PROVE  StartInv'
<1>. USE StartAssumption DEF StartInv
<1>1. /\ now' = now /\ tick' = tick /\ reading' = reading /\ whitelisted' = whitelisted
      /\ failed' = failed /\ worker' = worker /\ wake' = wake /\ started_at' = started_at
      /\ registered_at = Never
      /\ registered_at' \in {now, now + 1}
  BY DEF RegisterWorker, nodeVars, StartTypes
<1>2. /\ now \in Nat /\ now <= MaxTime /\ Never = MaxTime + Interval + 1
      /\ registered_at' \in Nat /\ now <= registered_at' /\ registered_at' <= MaxTime + 1
  BY <1>1 DEF StartTypes, Never
<1>3. ASSUME NEW n \in Nodes PROVE OnTime(n)' /\ Informed(n)'
  <2>1. tick[n] \in Nat /\ tick[n] <= now + Interval
    BY DEF StartTypes, OnTime
  <2>2. reading[n] # <<>> => ~reading[n][2]
    <3>. SUFFICES ASSUME reading[n] # <<>>, reading[n][2] PROVE FALSE
      OBVIOUS
    <3>1. reading[n][1] \in Nat /\ reading[n][1] <= now /\ registered_at <= reading[n][1]
      BY DEF StartTypes, OnTime
    <3>. QED  BY <1>1, <1>2, <3>1
  <2>3. OnTime(n)'
    BY <1>1, <2>2 DEF OnTime
  <2>4. tick'[n] <= registered_at' + Interval
    BY <1>1, <1>2, <2>1
  <2>. QED  BY <2>3, <2>4 DEF Informed
<1>4. worker # "sleeping" /\ worker # "started"
  BY <1>1, <1>2 DEF WorkerInv
<1>5. StartTypes'
  BY <1>1, <1>2 DEF StartTypes, Never
<1>. QED  BY <1>1, <1>3, <1>4, <1>5 DEF WorkerInv

\* Time waits for every tick and every read.
LEMMA PassStartInv ==
  ASSUME StartInv, Pass
  PROVE  StartInv'
<1>. USE StartAssumption DEF StartInv
<1>1. /\ now' = now + 1 /\ now < MaxTime
      /\ tick' = tick /\ reading' = reading /\ whitelisted' = whitelisted
      /\ failed' = failed /\ worker' = worker /\ wake' = wake /\ started_at' = started_at
      /\ registered_at' = registered_at
  BY DEF Pass, nodeVars
<1>2. now \in Nat /\ registered_at \in Nat
  BY DEF StartTypes
<1>3. ASSUME NEW n \in Nodes PROVE OnTime(n)' /\ ((registered_at # Never)' => Informed(n)')
  <2>1. tick[n] \in Nat /\ (reading[n] # <<>> => reading[n][1] \in Nat)
    BY DEF StartTypes
  <2>2. /\ reading[n] = <<>> => tick[n] > now
        /\ reading[n] # <<>> => reading[n][1] + Latency > now
    BY DEF Pass
  <2>3. now + 1 <= tick[n]
    BY <1>2, <2>1, <2>2 DEF OnTime
  <2>4. OnTime(n)'
    <3>1. now + 1 <= tick[n] /\ tick[n] <= now + 1 + Interval
      BY <1>2, <2>1, <2>3 DEF OnTime
    <3>2. ASSUME reading[n] # <<>>
          PROVE  /\ reading[n][1] <= now + 1 /\ now + 1 <= reading[n][1] + Latency
                 /\ reading[n][1] + Interval <= tick[n]
                 /\ reading[n][2] => registered_at <= reading[n][1]
      BY <1>2, <2>1, <2>2, <3>2 DEF OnTime
    <3>. QED  BY <1>1, <3>1, <3>2 DEF OnTime
  <2>5. Informed(n) => Informed(n)'
    BY <1>1, <1>2 DEF Informed
  <2>. QED  BY <1>1, <2>4, <2>5 DEF Never
<1>4. StartTypes'
  BY <1>1, <1>2 DEF StartTypes, Never
<1>. QED  BY <1>1, <1>2, <1>3, <1>4 DEF WorkerInv

\* CaughtUp follows: the read that misses the worker would have to be over, and
\* the next one to have begun.
LEMMA StartInvImplies ==
  ASSUME StartInv PROVE CaughtUp
<1>. USE StartAssumption DEF StartInv
<1>. SUFFICES ASSUME worker = "started", now > started_at + Latency, NEW n \in Nodes
             PROVE  n \in whitelisted \cup failed
  BY DEF CaughtUp
<1>1. /\ now \in Nat /\ now <= MaxTime /\ registered_at \in Nat /\ started_at \in Nat /\ tick[n] \in Nat
      /\ reading[n] # <<>> => reading[n][1] \in Nat
  BY DEF StartTypes
<1>2. registered_at <= now /\ started_at >= registered_at + Interval
  BY DEF WorkerInv
<1>3. registered_at # Never
  BY <1>1, <1>2 DEF Never
<1>4. ~(tick[n] <= registered_at + Interval)
  BY <1>1, <1>2 DEF OnTime
<1>5. ~(reading[n] # <<>> /\ reading[n][1] <= registered_at + Interval)
  BY <1>1, <1>2 DEF OnTime
<1>. QED  BY <1>3, <1>4, <1>5 DEF Informed

\* "We need to wait for other nodes to catch up and whitelist our peer ID"
\* (builder.rs:229): waiting for one onchain_update_interval after the
\* registration is enough, for any number of nodes, however their intervals lie,
\* if a read of the chain is shorter than the interval.
THEOREM CaughtUpAlways ==
  StartSpec => []CaughtUp
<1>1. StartInit => StartInv
  BY InitStartInv
<1>2. StartInv /\ [StartNext]_startVars => StartInv'
  <2>. SUFFICES ASSUME StartInv, [StartNext]_startVars PROVE StartInv'
    OBVIOUS
  <2>1. CASE UNCHANGED startVars
    BY <2>1 DEF startVars, StartInv, StartTypes, OnTime, Informed, WorkerInv, Never
  <2>2. CASE StartNext
    BY <2>2, TickStartInv, ReadStartInv, WorkerStartInv, RegisterStartInv, PassStartInv DEF StartNext
  <2>. QED  BY <2>1, <2>2
<1>3. StartInv => CaughtUp
  BY StartInvImplies
<1>. QED  BY <1>1, <1>2, <1>3, PTL DEF StartSpec
=============================================================================
