---------------------------- MODULE LogListeners ----------------------------
(***************************************************************************)
(* How a portal finds the collectors it sends its logs to                  *)
(* (crates/transport/src/actors/portal.rs and portal_logs_collector.rs,    *)
(* with the confidence of behaviour/base.rs).  A collector advertises      *)
(* itself in the DHT once it knows enough of the network; a portal asks    *)
(* the DHT for the providers of the key on an interval, one query at a     *)
(* time, and hands what a query found to the senders of logs through a     *)
(* lossy queue.                                                            *)
(***************************************************************************)
EXTENDS Integers, Sequences, FiniteSetsExt, Functions

CONSTANTS
  Collectors,      \* the collectors whose advertisement is modelled
  Others,          \* other providers of the key, which come and go
  QueryIds,        \* the ids of Kademlia queries, reused
  WhitelistSizes,  \* the sizes a collector's set of registered nodes may have
  QueueSize,       \* PortalConfig::listeners_queue_size
  MaxIdentified    \* bound: the peers a collector identifies

ASSUME ConfigAssumption ==
  /\ Collectors \cap Others = {}
  /\ WhitelistSizes \subseteq Nat
  /\ QueueSize \in Nat \ {0} /\ MaxIdentified \in Nat

NoQuery == 0
ASSUME IdAssumption == QueryIds \subseteq Nat \ {NoQuery}

VARIABLES
  \* the portal
  provider_query,   \* PortalBehaviour::provider_query
  providers_list,   \* PortalBehaviour::providers_list
  listeners_queue,  \* from on_swarm_event to the task of the handle
  log_listeners,    \* PortalTransportHandle::log_listeners
  \* Kademlia
  queries,          \* running provider queries, and what each has reported
  dht,              \* the providers with a record in the DHT
  \* the collectors
  node              \* per collector: <<>> if it does not run

listenVars == <<provider_query, providers_list, listeners_queue, log_listeners, queries, dht, node>>

portal == <<provider_query, providers_list, listeners_queue, log_listeners>>

Providers == Collectors \cup Others

NoQueries == [q \in {} |-> {}]

NewNode ==
  [identified |-> 0,      \* the size of identified_peers
   whitelist |-> 0,       \* whitelist_size()
   initialized |-> FALSE, \* whitelist_initialized
   sent |-> 0,            \* last_sent_confidence_step, 0 if none
   advertised |-> FALSE]  \* advertisement_started

Node ==
  [identified : 0..MaxIdentified, whitelist : WhitelistSizes \cup {0}, initialized : BOOLEAN,
   sent : 0..10, advertised : BOOLEAN]

ListenTypeOK ==
  /\ provider_query \in QueryIds \cup {NoQuery}
  /\ providers_list \subseteq Providers
  /\ listeners_queue \in Seq(SUBSET Providers) /\ Len(listeners_queue) <= QueueSize
  /\ log_listeners \subseteq Providers
  /\ DOMAIN queries \subseteq QueryIds
  /\ \A q \in DOMAIN queries : queries[q] \subseteq Providers
  /\ dht \subseteq Providers
  /\ node \in [Collectors -> {<<>>} \cup {<<n>> : n \in Node}]

ListenInit ==
  /\ provider_query = NoQuery
  /\ providers_list = {}
  /\ listeners_queue = <<>>
  /\ log_listeners = {}
  /\ queries = NoQueries
  /\ dht = {}
  /\ node = [c \in Collectors |-> <<>>]

-----------------------------------------------------------------------------
(***************************************************************************)
(* The portal                                                              *)
(***************************************************************************)

get_providers(q) ==
  /\ q \notin DOMAIN queries
  /\ queries' = [p \in DOMAIN queries \cup {q} |-> IF p = q THEN {} ELSE queries[p]]

\* mutant: a tick of the interval starts over while a query is running
UpdateRestarts ==
  \E q \in QueryIds :
    /\ get_providers(q)
    /\ provider_query' = q
    /\ UNCHANGED <<providers_list, listeners_queue, log_listeners, dht, node>>

\* on every tick of the interval
update_portal_logs_listeners ==
  /\ provider_query = NoQuery
  /\ \E q \in QueryIds :
       /\ get_providers(q)
       /\ provider_query' = q
       /\ UNCHANGED <<providers_list, listeners_queue, log_listeners, dht, node>>

send_lossy(listeners) ==
  listeners_queue' = IF Len(listeners_queue) < QueueSize
                     THEN Append(listeners_queue, listeners) ELSE listeners_queue

\* mutant: the list is copied, not drained
ProviderRecordKeepsList(q, found, last) ==
  IF provider_query # q THEN UNCHANGED portal
  ELSE LET list == providers_list \cup found IN
       /\ log_listeners' = log_listeners
       /\ providers_list' = list
       /\ IF last
          THEN provider_query' = NoQuery /\ send_lossy(list)
          ELSE UNCHANGED <<provider_query, listeners_queue>>

\* `found' is empty for FinishedWithNoAdditionalRecord and for errors
on_provider_record(q, found, last) ==
  IF provider_query # q THEN UNCHANGED portal
  ELSE LET list == providers_list \cup found IN
       /\ log_listeners' = log_listeners
       /\ IF last
          THEN provider_query' = NoQuery /\ providers_list' = {} /\ send_lossy(list)
          ELSE providers_list' = list /\ UNCHANGED <<provider_query, listeners_queue>>

\* A node on the query's path returned some of the records.
ProvidersFound(q, found) ==
  /\ q \in DOMAIN queries
  /\ queries' = [queries EXCEPT ![q] = @ \cup found]
  /\ on_provider_record(q, found, FALSE)
  /\ UNCHANGED <<dht, node>>

\* The query ran out of nodes to ask, or timed out.
QueryEnds(q) ==
  /\ q \in DOMAIN queries
  /\ queries' = Restrict(queries, DOMAIN queries \ {q})
  /\ on_provider_record(q, {}, TRUE)
  /\ UNCHANGED <<dht, node>>

\* the task that keeps log_listeners
ReceiveListeners ==
  /\ listeners_queue # <<>>
  /\ log_listeners' = Head(listeners_queue)
  /\ listeners_queue' = Tail(listeners_queue)
  /\ UNCHANGED <<provider_query, providers_list, queries, dht, node>>

-----------------------------------------------------------------------------
(***************************************************************************)
(* The collectors                                                          *)
(***************************************************************************)

Start(c) ==
  /\ node[c] = <<>>
  /\ node' = [node EXCEPT ![c] = <<NewNode>>]
  /\ UNCHANGED <<portal, queries, dht>>

\* PortalLogsCollectorBehaviour::drop, or a crash: the record stays for a while
Stop(c) ==
  /\ node[c] # <<>>
  /\ node' = [node EXCEPT ![c] = <<>>]
  /\ UNCHANGED <<portal, queries, dht>>

\* tenths of 75% of the whitelist, in exact arithmetic
ConfidenceStep(n) == Min({10, (n.identified * 40) \div (3 * n.whitelist)})

\* try_emit_confidence returns an event
Emits(n) ==
  /\ n.initialized /\ n.whitelist # 0
  /\ ConfidenceStep(n) # 0 /\ ConfidenceStep(n) > n.sent

\* NetworkConnected reaches the collector in the same poll.  start_providing
\* fails only if the store is full, and the collector provides a single key.
try_emit_confidence(n) ==
  IF Emits(n)
  THEN [n EXCEPT !.sent = ConfidenceStep(n), !.advertised = @ \/ ConfidenceStep(n) >= 3]
  ELSE n

\* mutant: nothing is sent for a peer that was identified before
IdentifyNewOnly(c, new) ==
  /\ node[c] # <<>>
  /\ LET n == node[c][1] IN
     /\ new /\ n.identified < MaxIdentified
     /\ node' = [node EXCEPT ![c] = <<try_emit_confidence([n EXCEPT !.identified = @ + 1])>>]
  /\ UNCHANGED <<portal, queries, dht>>

\* on_identify_event, for a peer identified before or, if `new', not
on_identify_event(c, new) ==
  /\ node[c] # <<>>
  /\ LET n == node[c][1] IN
     /\ IF new THEN n.identified < MaxIdentified ELSE n.identified > 0
     /\ node' = [node EXCEPT ![c] =
                   <<try_emit_confidence([n EXCEPT !.identified = IF new THEN @ + 1 ELSE @])>>]
  /\ UNCHANGED <<portal, queries, dht>>

\* on_nodes_update with another set of nodes; no event is sent
on_nodes_update(c, size) ==
  /\ node[c] # <<>>
  /\ size # node[c][1].whitelist
  /\ node' = [node EXCEPT ![c][1].whitelist = size, ![c][1].initialized = TRUE]
  /\ UNCHANGED <<portal, queries, dht>>

Advertises(c) == node[c] # <<>> /\ node[c][1].advertised

\* The provider record is stored, and republished before it expires.
Provide(c) ==
  /\ Advertises(c)
  /\ c \notin dht
  /\ dht' = dht \cup {c}
  /\ UNCHANGED <<portal, queries, node>>

\* Nobody republishes the record.
Expire(c) ==
  /\ c \in dht
  /\ ~Advertises(c)
  /\ dht' = dht \ {c}
  /\ UNCHANGED <<portal, queries, node>>

OtherProvides(o) ==
  /\ dht' = IF o \in dht THEN dht \ {o} ELSE dht \cup {o}
  /\ UNCHANGED <<portal, queries, node>>

-----------------------------------------------------------------------------
ListenNext ==
  \/ update_portal_logs_listeners
  \/ \E q \in QueryIds : (\E found \in SUBSET dht : ProvidersFound(q, found)) \/ QueryEnds(q)
  \/ ReceiveListeners
  \/ \E c \in Collectors :
       \/ Start(c) \/ Stop(c) \/ Provide(c) \/ Expire(c)
       \/ \E new \in BOOLEAN : on_identify_event(c, new)
       \/ \E size \in WhitelistSizes : on_nodes_update(c, size)
  \/ \E o \in Others : OtherProvides(o)

ListenSpec == ListenInit /\ [][ListenNext]_listenVars

\* The portal's tasks run, Kademlia ends every query, stores and expires
\* records; identify is repeated on an interval on every connection.
ListenFairness ==
  /\ WF_listenVars(update_portal_logs_listeners)
  /\ \A q \in QueryIds : WF_listenVars(QueryEnds(q))
  /\ WF_listenVars(ReceiveListeners)
  /\ \A c \in Collectors : WF_listenVars(Provide(c)) /\ WF_listenVars(Expire(c))
  /\ \A c \in Collectors : WF_listenVars(on_identify_event(c, FALSE))

FairListenSpec == ListenSpec /\ ListenFairness

-----------------------------------------------------------------------------
(***************************************************************************)
(* Properties                                                              *)
(***************************************************************************)

\* providers_list holds exactly what the running query has reported: nothing
\* of an earlier query, whose providers may be gone, gets into a later list
\* (on_provider_record), and provider_query never waits for a query that has
\* ended, so that the next tick can start one.
ListOfRunningQuery ==
  IF provider_query = NoQuery
  THEN providers_list = {} /\ DOMAIN queries = {}
  ELSE DOMAIN queries = {provider_query} /\ providers_list = queries[provider_query]

\* from some time on, queries report every record there is
LookupsFind == <>[][\A q \in QueryIds : QueryEnds(q) => queries[q] = dht]_listenVars

\* If lookups work, log_listeners ends up with the providers that keep their
\* record and without those that stay away, although queries are skipped while
\* one is running and lists are dropped when the queue is full.
ListenersFollowRecords ==
  LookupsFind =>
    \A p \in Providers :
      /\ <>[](p \in dht) => <>[](p \in log_listeners)
      /\ <>[](p \notin dht) => <>[](p \notin log_listeners)

\* A collector that knows 30% of the network, by the measure of
\* try_emit_confidence, ends up with a record, whether its whitelist came
\* before or after its peers and however often it grew and shrank; one that
\* does not run ends up without.
ConfidentIsAdvertised ==
  \A c \in Collectors :
    LET confident ==
          /\ node[c] # <<>> /\ node[c][1].initialized /\ node[c][1].whitelist # 0
          /\ ConfidenceStep(node[c][1]) >= 3
    IN /\ <>[]confident => <>[](c \in dht)
       /\ <>[](node[c] = <<>>) => <>[](c \notin dht)
=============================================================================
