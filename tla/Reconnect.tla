----------------------------- MODULE Reconnect -----------------------------
(***************************************************************************)
(* Worker reconnection in BaseBehaviour                                    *)
(* (crates/transport/src/behaviour/base.rs) together with the two inner    *)
(* behaviours it depends on: the on-chain whitelist (node_whitelist.rs)    *)
(* and the address cache (addr_cache.rs).                                  *)
(*                                                                         *)
(* A worker that is not connected waits in `reconnect_queue' (a cooldown)  *)
(* or in `pending_lookups' (room for one more Kademlia query), then is     *)
(* dialled on a cached address or looked up in the DHT and dialled.  The   *)
(* swarm, Kademlia and the chain are external: their answers are           *)
(* nondeterministic.  Addresses are abstracted to "the cache holds at      *)
(* least one for this peer"; a full cache evicts any other peer.           *)
(***************************************************************************)
EXTENDS Integers, Sequences, FiniteSets, Functions

CONSTANTS
  Peers,                 \* the peers this node can hear of
  BootNodes,             \* allowed from the start, whatever the chain says
  InboundPeers,          \* the peers that open connections to this node
  Maintain,              \* maintain_worker_connections() was called
  MaxConcurrentLookups,  \* BaseConfig::max_concurrent_lookups
  AddrCacheSize,         \* BaseConfig::addr_cache_size
  MaxConns               \* bound: outbound connections open to one peer

ASSUME ConfigAssumption ==
  /\ IsFiniteSet(Peers)
  /\ BootNodes \subseteq Peers
  /\ InboundPeers \subseteq Peers
  /\ Maintain \in BOOLEAN
  /\ MaxConcurrentLookups \in Nat
  /\ AddrCacheSize \in Nat \ {0}
  /\ MaxConns \in Nat

VARIABLES
  registered_nodes,     \* WhitelistBehavior::registered_nodes
  allowed,              \* the peers allow_block_list lets through
  registered_workers,   \* BaseBehaviour::registered_workers
  outbound_conns,       \* BaseBehaviour::outbound_conns
  inbound,              \* the peers with an inbound connection (swarm)
  dialing,              \* the peers with a dial in flight (swarm)
  cached,               \* the peers AddressCache::contains
  ongoing_lookups,      \* BaseBehaviour::ongoing_lookups, without query ids
  pending_lookups,      \* BaseBehaviour::pending_lookups
  reconnect_queue,      \* BaseBehaviour::reconnect_queue, in deadline order
  reconnect_scheduled,  \* BaseBehaviour::reconnect_scheduled
  pending_events        \* BaseBehaviour::pending_events: cached-address dials

whitelistVars == <<registered_nodes, allowed, registered_workers>>
swarmVars     == <<outbound_conns, inbound, dialing>>
waitVars      == <<reconnect_queue, reconnect_scheduled>>
lookupVars    == <<pending_lookups, ongoing_lookups, pending_events>>
vars == <<whitelistVars, swarmVars, cached, waitVars, lookupVars>>

TypeOK ==
  /\ registered_nodes \in SUBSET Peers
  /\ allowed \in SUBSET Peers
  /\ registered_workers \in SUBSET Peers
  /\ outbound_conns \in [Peers -> Nat]
  /\ inbound \in SUBSET Peers
  /\ dialing \in SUBSET Peers
  /\ cached \in SUBSET Peers
  /\ ongoing_lookups \in SUBSET Peers
  /\ pending_lookups \in Seq(Peers)
  /\ reconnect_queue \in Seq(Peers)
  /\ reconnect_scheduled \in SUBSET Peers
  /\ pending_events \in Seq(Peers)

Init ==
  /\ registered_nodes = {}
  /\ allowed = BootNodes
  /\ registered_workers = {}
  /\ outbound_conns = [p \in Peers |-> 0]
  /\ inbound = {}
  /\ dialing = {}
  /\ cached = {}
  /\ ongoing_lookups = {}
  /\ pending_lookups = <<>>
  /\ reconnect_queue = <<>>
  /\ reconnect_scheduled = {}
  /\ pending_events = <<>>

-----------------------------------------------------------------------------
(***************************************************************************)
(* Helpers                                                                 *)
(***************************************************************************)

outbound_conn_exists(p) == outbound_conns[p] > 0

Connected(p) == outbound_conn_exists(p) \/ p \in inbound

\* mutant: the lookup loop compares with <=
CanLaunchOneMore ==
  /\ pending_lookups # <<>>
  /\ Cardinality(ongoing_lookups) <= MaxConcurrentLookups

\* poll's lookup loop has a peer to take and room for its query
CanLaunch ==
  /\ pending_lookups # <<>>
  /\ Cardinality(ongoing_lookups) < MaxConcurrentLookups

\* Wrapped polls BaseBehaviour until it has nothing more to do before it polls
\* the inner behaviours, and the swarm polls its behaviour before the
\* connections: other events reach BaseBehaviour only in these states.
Polled == ~CanLaunch /\ pending_events = <<>>

\* AddressCache::put of at least one reachable address for p: every cache it
\* can leave, whichever entry a full cache evicts
CachePut(p, c) ==
  IF p \in c \/ Cardinality(c) < AddrCacheSize
  THEN {c \cup {p}}
  ELSE {(c \ {v}) \cup {p} : v \in c}

\* put filters out unreachable addresses and then may have nothing to add
CachePutFiltered(p, c) == CachePut(p, c) \cup {c}

\* every order in which a HashSet can be iterated
Orderings(S) == Bijection(1..Cardinality(S), S)

\* mutant: the result of reconnect_scheduled.insert is ignored
ScheduleTwice(p, conns) ==
  IF Maintain /\ p \in registered_workers /\ conns[p] = 0
  THEN /\ reconnect_scheduled' = reconnect_scheduled \cup {p}
       /\ reconnect_queue' = Append(reconnect_queue, p)
  ELSE UNCHANGED waitVars

\* mutant: schedule_reconnect does not ask whether p is registered
ScheduleAnyone(p, conns) ==
  IF Maintain /\ conns[p] = 0 /\ p \notin reconnect_scheduled
  THEN /\ reconnect_scheduled' = reconnect_scheduled \cup {p}
       /\ reconnect_queue' = Append(reconnect_queue, p)
  ELSE UNCHANGED waitVars

schedule_reconnect(p, conns) ==
  IF /\ Maintain
     /\ p \in registered_workers
     /\ conns[p] = 0
     /\ p \notin reconnect_scheduled
  THEN /\ reconnect_scheduled' = reconnect_scheduled \cup {p}
       /\ reconnect_queue' = Append(reconnect_queue, p)
  ELSE UNCHANGED waitVars

\* Swarm::dial, with the DialFailure it reports at once.  `skip' is the dial
\* condition being false; c is the address cache at the time of the dial.
Dial(p, skip, c) ==
  \/ /\ skip                                   \* DialPeerConditionFalse
     /\ cached' = c
     /\ UNCHANGED <<dialing, waitVars>>
  \/ /\ ~skip /\ p \notin allowed              \* Denied by the whitelist
     /\ cached' = c
     /\ UNCHANGED <<dialing, waitVars>>
  \/ /\ ~skip /\ p \in allowed /\ p \notin c   \* NoAddresses
     /\ cached' = c \ {p}
     /\ schedule_reconnect(p, outbound_conns)
     /\ UNCHANGED dialing
  \/ /\ ~skip /\ p \in allowed                 \* addresses from the cache or the DHT
     /\ dialing' = dialing \cup {p}
     /\ cached' = c
     /\ UNCHANGED waitVars

-----------------------------------------------------------------------------
(***************************************************************************)
(* BaseBehaviour::poll.  Its loops are unrolled: one action per iteration, *)
(* and nothing else happens until they are done (Polled).                  *)
(***************************************************************************)

\* mutant: an expired peer that is no longer needed stays marked as waiting
ExpireKeepsMark ==
  /\ reconnect_queue # <<>>
  /\ LET p == Head(reconnect_queue) IN
     /\ reconnect_queue' = Tail(reconnect_queue)
     /\ pending_lookups' = IF ~outbound_conn_exists(p) /\ p \in registered_workers
                           THEN Append(pending_lookups, p) ELSE pending_lookups
  /\ UNCHANGED <<whitelistVars, swarmVars, cached, reconnect_scheduled,
                 ongoing_lookups, pending_events>>

\* a cooldown ends; the cooldown is constant, so timers expire in order
ExpireReconnect ==
  /\ reconnect_queue # <<>>
  /\ LET p == Head(reconnect_queue) IN
     /\ reconnect_queue' = Tail(reconnect_queue)
     /\ IF ~outbound_conn_exists(p) /\ p \in registered_workers
        THEN /\ pending_lookups' = Append(pending_lookups, p)
             /\ UNCHANGED reconnect_scheduled
        ELSE /\ reconnect_scheduled' = reconnect_scheduled \ {p}
             /\ UNCHANGED pending_lookups
  /\ UNCHANGED <<whitelistVars, swarmVars, cached, ongoing_lookups, pending_events>>

find_and_dial(p) ==
  \/ /\ p \in cached
     /\ pending_events' = Append(pending_events, p)
     /\ UNCHANGED ongoing_lookups
  \/ /\ p \notin cached
     /\ ongoing_lookups' = ongoing_lookups \cup {p}
     /\ UNCHANGED pending_events

LaunchLookup ==
  /\ CanLaunch
  /\ LET p == Head(pending_lookups) IN
     /\ pending_lookups' = Tail(pending_lookups)
     /\ reconnect_scheduled' = reconnect_scheduled \ {p}
     /\ IF outbound_conn_exists(p)
        THEN UNCHANGED <<ongoing_lookups, pending_events>>
        ELSE find_and_dial(p)
  /\ UNCHANGED <<whitelistVars, swarmVars, cached, reconnect_queue>>

\* the swarm takes a cached-address dial (DisconnectedAndNotDialing)
PollDial ==
  /\ ~CanLaunch
  /\ pending_events # <<>>
  /\ LET p == Head(pending_events) IN
     /\ pending_events' = Tail(pending_events)
     /\ Dial(p, p \in dialing \/ Connected(p), cached)
  /\ UNCHANGED <<whitelistVars, outbound_conns, inbound, pending_lookups, ongoing_lookups>>

-----------------------------------------------------------------------------
(***************************************************************************)
(* Events of the inner behaviours                                          *)
(***************************************************************************)

\* every disconnect requested by an earlier whitelist update has completed:
\* closing a connection takes less than the on-chain update interval
DisconnectsDone ==
  \A p \in Peers \ allowed : ~Connected(p) /\ p \notin dialing

\* WhitelistBehavior::on_nodes_update: an unchanged set of nodes is not passed on
WhitelistUpdate(all_nodes) ==
  /\ all_nodes # registered_nodes
  /\ registered_nodes' = all_nodes
  /\ allowed' = (allowed \ (registered_nodes \ all_nodes)) \cup (all_nodes \ registered_nodes)

\* BaseBehaviour::on_nodes_update
on_nodes_update(workers) ==
  /\ registered_workers' = workers
  /\ LET new == IF Maintain
                THEN {p \in workers : ~outbound_conn_exists(p)} \ reconnect_scheduled
                ELSE {}
     IN /\ reconnect_scheduled' = reconnect_scheduled \cup new
        /\ \E s \in Orderings(new) : pending_lookups' = pending_lookups \o s

NodesUpdate(workers, portals) ==
  /\ Polled
  /\ DisconnectsDone
  /\ WhitelistUpdate(workers \cup portals)
  /\ on_nodes_update(workers)
  /\ UNCHANGED <<swarmVars, cached, reconnect_queue, ongoing_lookups, pending_events>>

\* the Kademlia query for p ends or finds p: cache the addresses found and
\* dial (NotDialing), found or not
LookupDone(p) ==
  /\ Polled
  /\ p \in ongoing_lookups
  /\ ongoing_lookups' = ongoing_lookups \ {p}
  /\ \E c \in CachePutFiltered(p, cached) : Dial(p, p \in dialing, c)
  /\ UNCHANGED <<whitelistVars, outbound_conns, inbound, pending_lookups, pending_events>>

\* identify, RoutablePeer, PendingRoutablePeer, RoutingUpdated and
\* NewExternalAddrOfPeer cache an address of p
LearnAddress(p) ==
  /\ Polled
  /\ cached' \in CachePut(p, cached)
  /\ UNCHANGED <<whitelistVars, swarmVars, waitVars, lookupVars>>

\* Kademlia or a stream client dials p (DisconnectedAndNotDialing)
OtherDial(p) ==
  /\ Polled
  /\ p \notin dialing /\ ~Connected(p)
  /\ Dial(p, FALSE, cached)
  /\ UNCHANGED <<whitelistVars, outbound_conns, inbound, lookupVars>>

-----------------------------------------------------------------------------
(***************************************************************************)
(* Events of the swarm                                                     *)
(***************************************************************************)

DialEstablished(p) ==
  /\ Polled
  /\ p \in dialing /\ p \in allowed
  /\ outbound_conns[p] < MaxConns
  /\ dialing' = dialing \ {p}
  /\ outbound_conns' = [outbound_conns EXCEPT ![p] = @ + 1]
  /\ cached' \in CachePutFiltered(p, cached)
  /\ UNCHANGED <<whitelistVars, inbound, waitVars, lookupVars>>

\* mutant: a failed dial is not retried
DialUnreachableGivesUp(p) ==
  /\ Polled
  /\ p \in dialing
  /\ dialing' = dialing \ {p}
  /\ cached' = cached \ {p}
  /\ UNCHANGED <<whitelistVars, outbound_conns, inbound, waitVars, lookupVars>>

\* Transport or WrongPeerId: the cache evicts p, then p is retried
DialUnreachable(p) ==
  /\ Polled
  /\ p \in dialing
  /\ dialing' = dialing \ {p}
  /\ cached' = cached \ {p}
  /\ schedule_reconnect(p, outbound_conns)
  /\ UNCHANGED <<whitelistVars, outbound_conns, inbound, lookupVars>>

\* Denied or Aborted: p left the whitelist while it was being dialled
DialRefused(p) ==
  /\ Polled
  /\ p \in dialing /\ p \notin allowed
  /\ dialing' = dialing \ {p}
  /\ UNCHANGED <<whitelistVars, outbound_conns, inbound, cached, waitVars, lookupVars>>

OutboundClosed(p) ==
  /\ Polled
  /\ outbound_conn_exists(p)
  /\ LET conns == [outbound_conns EXCEPT ![p] = @ - 1] IN
     /\ outbound_conns' = conns
     /\ schedule_reconnect(p, conns)
  /\ UNCHANGED <<whitelistVars, inbound, dialing, cached, lookupVars>>

\* connections this node did not dial are not tracked
InboundEstablished(p) ==
  /\ Polled
  /\ p \in InboundPeers \cap allowed
  /\ inbound' = inbound \cup {p}
  /\ UNCHANGED <<whitelistVars, outbound_conns, dialing, cached, waitVars, lookupVars>>

\* mutant: the close of a connection is counted whoever dialled
InboundClosedCounted(p) ==
  /\ Polled
  /\ p \in inbound
  /\ inbound' = inbound \ {p}
  /\ outbound_conns' = [outbound_conns EXCEPT ![p] = @ - 1]
  /\ UNCHANGED <<whitelistVars, dialing, cached, waitVars, lookupVars>>

InboundClosed(p) ==
  /\ Polled
  /\ p \in inbound
  /\ inbound' = inbound \ {p}
  /\ UNCHANGED <<whitelistVars, outbound_conns, dialing, cached, waitVars, lookupVars>>

-----------------------------------------------------------------------------
Poll == ExpireReconnect \/ LaunchLookup \/ PollDial

InnerEvent ==
  \/ \E workers, portals \in SUBSET Peers : NodesUpdate(workers, portals)
  \/ \E p \in Peers : LookupDone(p) \/ LearnAddress(p) \/ OtherDial(p)

SwarmEvent ==
  \E p \in Peers :
    \/ DialEstablished(p) \/ DialUnreachable(p) \/ DialRefused(p)
    \/ OutboundClosed(p) \/ InboundEstablished(p) \/ InboundClosed(p)

Next == Poll \/ InnerEvent \/ SwarmEvent

Spec == Init /\ [][Next]_vars

(***************************************************************************)
(* Fairness.  The swarm task keeps polling, cooldowns elapse, a Kademlia   *)
(* query ends within kad_query_timeout, and a dial ends within the         *)
(* transport's timeout.                                                    *)
(***************************************************************************)
DialResolves(p) == DialEstablished(p) \/ DialUnreachable(p) \/ DialRefused(p)

Fairness ==
  /\ WF_vars(ExpireReconnect)
  /\ WF_vars(LaunchLookup)
  /\ WF_vars(PollDial)
  /\ \A p \in Peers : WF_vars(LookupDone(p)) /\ WF_vars(DialResolves(p))

FairSpec == Spec /\ Fairness

-----------------------------------------------------------------------------
(***************************************************************************)
(* Properties                                                              *)
(***************************************************************************)

\* "Peers waiting in `reconnect_queue` or `pending_lookups`.  A peer waits in
\* at most one place at a time" (base.rs:135): no peer waits twice in one
\* queue or in both, and reconnect_scheduled is exactly the waiting peers.
WaitsOnce ==
  /\ IsInjective(reconnect_queue)
  /\ IsInjective(pending_lookups)
  /\ Range(reconnect_queue) \cap Range(pending_lookups) = {}
  /\ reconnect_scheduled = Range(reconnect_queue) \cup Range(pending_lookups)

\* p is waiting, being looked up, or its dial is queued or in flight
Chased(p) ==
  \/ p \in reconnect_scheduled
  \/ p \in ongoing_lookups
  \/ p \in Range(pending_events)
  \/ p \in dialing

\* A registered worker that never connects to this node by itself is either
\* connected or being chased: no order of lookups, failed dials, closed
\* connections and whitelist updates drops it from the retry loop.
NotForgotten ==
  Maintain => \A p \in registered_workers \ InboundPeers :
                outbound_conn_exists(p) \/ Chased(p)

\* "We now know no address for a worker we are supposed to stay connected to.
\* The only way back is a DHT lookup, so one has to be scheduled."
\* (base.rs:837): a registered worker with neither a connection nor a cached
\* address is being chased.
StrandedWorkerIsChased ==
  Maintain => \A p \in registered_workers \ cached :
                Connected(p) \/ Chased(p)

\* BaseConfig::max_concurrent_lookups caps the Kademlia queries, whatever the
\* mix of sweeps, retries and finished queries.
LookupCap == Cardinality(ongoing_lookups) <= MaxConcurrentLookups

\* A worker the retry loop works for is one the whitelist lets it dial: the
\* registered workers never run ahead of the allow list.
WorkersAllowed == registered_workers \subseteq registered_nodes /\ registered_nodes \subseteq allowed

\* Waiting ends: neither the cooldown nor the lookup cap holds a peer forever.
WaitingEnds ==
  \A p \in Peers : p \in reconnect_scheduled ~> p \notin reconnect_scheduled

\* "Dropping off the registered set is what stops the retries." (base.rs:924):
\* once p is deregistered for good, the loop stops working for it.
DeregisteredIsDropped ==
  \A p \in Peers :
    <>[](p \notin registered_workers) =>
      <>[](p \notin reconnect_scheduled \cup ongoing_lookups \cup Range(pending_events))

\* A worker that is looked up again and again is found in the end, and one that
\* is dialled again and again is reached.
Reachable(p) ==
  /\ SF_vars(LookupDone(p) /\ p \in cached')
  /\ SF_vars(DialEstablished(p))

\* A worker that stays registered and is reachable is connected again and
\* again, whatever fails in between.
WorkerReconnected ==
  \A p \in Peers \ InboundPeers :
    Maintain /\ <>[](p \in registered_workers) /\ Reachable(p) => []<>outbound_conn_exists(p)
=============================================================================
