--------------------------- MODULE ContractClient ---------------------------
(***************************************************************************)
(* How the contract client reads workers and portals from the chain        *)
(* (crates/contract-client/src/client.rs, EthersClient, and merge.rs).     *)
(* Portals are in two registries: operators move them from the legacy      *)
(* GatewayRegistry to clusters of the PortalRegistry, and a peer that is   *)
(* not in a cluster is looked up in the old one.  A behaviour is one call  *)
(* of a method of Client, one step per RPC; the chain may change between   *)
(* two RPCs, and any RPC may fail.  The contracts are external.            *)
(***************************************************************************)
EXTENDS Integers, SequencesExt

CONSTANTS
  Peers,        \* peer ids
  Operators,    \* addresses of operators
  InitClusters, \* the lists of active clusters a call may start from
  InitGateways, \* the lists of legacy gateways a call may start from
  InitWorkers,  \* the lists of registered workers a call may start from
  PerPage,      \* portals_per_page, and active_workers_per_page
  L1Head,       \* the last block the L1 RPC node has
  EpochLength,  \* worker_epoch_length, in blocks of L1
  MaxUnits,     \* U256::MAX
  Methods,      \* the methods called
  MaxChanges    \* bound: how often the chain changes during the call

ASSUME ConfigAssumption ==
  /\ {PerPage, EpochLength} \subseteq Nat \ {0}
  /\ {MaxUnits, MaxChanges, L1Head} \subseteq Nat
  /\ EpochLength <= L1Head

VARIABLES
  clusters,  \* getActiveClusters: [id, operator, portals, units]
  gateways,  \* getActiveGateways and getAllocations: [peer, operator, units, default]
  workers,   \* WorkerRegistration, by on-chain id: [peer, registered_at]
  active,    \* getActiveWorkerIds
  epoch,     \* epoch_number
  changes,   \* how often the chain changed during the call
  removed,   \* something was removed from a registry of portals during the call
  call,      \* the method, its portal, portal_registry.is_some(), and what it started from
  pc,        \* the RPC it awaits next
  offset,    \* clusters read, then gateways read: `offset', `page * per page'
  page,      \* the clusters whose units are being read; the pages of workers read
  found,     \* new_portals or new_clusters, the portal's cluster, or onchain_ids
  legacy,    \* legacy_portals or legacy_allocations
  result     \* <<>> until the call returns

chain == <<clusters, gateways, workers, active, epoch, changes, removed>>
vars == <<chain, call, pc, offset, page, found, legacy, result>>

\* the timestamp of a block: some are a second after the one before, some two
TimeOf(block) == (3 * block) \div 2

\* The contracts store bytes; not all of them are peer ids.
IsPeer(bytes) == bytes \in Peers

Lists == {"active_portals", "portal_clusters"}
WorkerMethods == {"active_workers", "worker_registration_time", "worker_id"}
EpochMethods == {"current_epoch", "current_epoch_start", "epoch_length", "epoch_stream"}
PortalMethods == Methods \ (WorkerMethods \cup EpochMethods)
NoPortal == Lists \cup {"active_workers"} \cup EpochMethods

\* get_cluster_id_by_peer_id, 0 for ZERO_CLUSTER_ID
ClusterOf(p) ==
  LET ids == {c.id : c \in {c \in Range(clusters) : p \in Range(c.portals)}}
  IN IF ids = {} THEN 0 ELSE Min(ids)

\* get_computation_units, 0 for a cluster that is not active any more
UnitsOf(id) ==
  LET units == {c.units : c \in {c \in Range(clusters) : c.id = id}}
  IN IF units = {} THEN 0 ELSE Max(units)

\* worker_ids, 0 for a peer that was never a worker
WorkerIdOf(p) == Max({0} \cup {i \in DOMAIN workers : workers[i].peer = p})

\* EthersClient::new: the registry of portals is used unless it is switched off
\* or has no address on the network
portal_registry(disabled, configured) == ~disabled /\ configured

FirstRpc(method, registry) ==
  CASE method = "active_workers" -> "worker_ids"
    [] method \in {"worker_registration_time", "worker_id"} -> "worker_id"
    [] method \in {"current_epoch", "epoch_stream"} -> "epoch_number"
    [] method = "current_epoch_start" -> "next_epoch"
    [] method = "epoch_length" -> "latest"
    [] OTHER -> IF ~registry THEN "gateways"
                ELSE IF method \in Lists THEN "clusters" ELSE "cluster_id"

\* the peers in a registry; portal_clusters skips clusters without units
Registered(method, registry) ==
  LET there == {c \in Range(clusters) : registry /\ (method = "portal_clusters" => c.units # 0)}
  IN Peers \cap (UNION {Range(c.portals) : c \in there} \cup {g.peer : g \in Range(gateways)})

\* The methods about portals read the registries of portals, and those about
\* workers the one of workers.
Init ==
  /\ clusters \in InitClusters \cup {<<>>} /\ gateways \in InitGateways \cup {<<>>}
  /\ workers \in InitWorkers \cup {<<>>}
  /\ active = [i \in DOMAIN workers |-> i]
  /\ epoch = 1
  /\ changes = 0 /\ removed = FALSE
  /\ \E method \in Methods, portal \in Peers, disabled, configured \in BOOLEAN :
       LET registry == portal_registry(disabled, configured) IN
       /\ method \in NoPortal => portal = CHOOSE p \in Peers : TRUE
       /\ method \notin PortalMethods => clusters = <<>> /\ gateways = <<>> /\ ~registry
       /\ method \notin WorkerMethods => workers = <<>>
       /\ call = [method |-> method, portal |-> portal, registry |-> registry,
                  registered |-> Registered(method, registry)]
  /\ pc = FirstRpc(call.method, call.registry)
  /\ offset = 0
  /\ page = <<>>
  /\ found = <<>>
  /\ legacy = <<>>
  /\ result = <<>>

Returns(answer) ==
  /\ pc' = "done"
  /\ result' = answer
  /\ offset' = 0 /\ page' = <<>> /\ found' = <<>> /\ legacy' = <<>>
  /\ UNCHANGED <<chain, call>>

PageOf(list) == SubSeq(list, offset + 1, Min({offset + PerPage, Len(list)}))

-----------------------------------------------------------------------------
(***************************************************************************)
(* merge.rs                                                                *)
(***************************************************************************)

\* filter(|p| seen.insert(*p))
merge_active_portals(new_portals, legacy_portals) ==
  FoldLeft(LAMBDA seen, p : IF p \in Range(seen) THEN seen ELSE Append(seen, p),
           <<>>, new_portals \o legacy_portals)

\* map: operator |-> cluster, for the operators that have one
upsert_cluster(map, operator, portal_ids, units) ==
  IF operator \in DOMAIN map
  THEN [map EXCEPT ![operator] =
          [portals |-> merge_active_portals(@.portals, portal_ids),
           units |-> Min({MaxUnits, @.units + units})]]
  ELSE map @@ (operator :> [portals |-> portal_ids, units |-> units])

\* mutant: every legacy row of an operator counts
UpsertEveryLegacy(map, seen, row) == upsert_cluster(map, row.operator, <<row.peer>>, row.units)

\* seen: legacy_cu_seen
upsert_legacy_allocation(map, seen, row) ==
  upsert_cluster(map, row.operator, <<row.peer>>, IF row.operator \in seen THEN 0 ELSE row.units)

merge_portal_clusters(new_clusters, legacy_allocations) ==
  LET migrated_peers == UNION {Range(c.portals) : c \in Range(new_clusters)}
      by_operator == FoldLeft(LAMBDA map, c : upsert_cluster(map, c.operator, c.portals, c.units),
                              [o \in {} |-> 0], new_clusters)
      rows == SelectSeq(legacy_allocations,
                        LAMBDA row : IsPeer(row.peer) /\ row.peer \notin migrated_peers)
  IN FoldLeft(LAMBDA acc, row : [map |-> upsert_legacy_allocation(acc.map, acc.seen, row),
                                 seen |-> acc.seen \cup {row.operator}],
              [map |-> by_operator, seen |-> {}], rows).map

-----------------------------------------------------------------------------
(***************************************************************************)
(* active_portals and portal_clusters                                      *)
(***************************************************************************)

\* after a page of clusters: the next one, or the legacy registry
NextClusters(page_len) ==
  IF page_len = 0 \/ offset + page_len >= Len(clusters)
  THEN pc' = "gateways" /\ offset' = 0
  ELSE pc' = "clusters" /\ offset' = offset + page_len

GetActiveClusters ==
  /\ pc = "clusters"
  /\ LET read == PageOf(clusters) IN
     IF call.method = "active_portals"
     THEN /\ found' = found \o FlattenSeq([i \in DOMAIN read |-> SelectSeq(read[i].portals, IsPeer)])
          /\ NextClusters(Len(read))
          /\ UNCHANGED page
     ELSE IF read = <<>> THEN NextClusters(0) /\ UNCHANGED <<found, page>>
     ELSE /\ page' = <<read, Len(clusters)>>
          /\ pc' = "units"
          /\ UNCHANGED <<found, offset>>
  /\ UNCHANGED <<chain, call, legacy, result>>

\* the multicall of getComputationUnits, for a page of portal_clusters
GetComputationUnits ==
  /\ pc = "units"
  /\ LET read == page[1]
         total_active == page[2]
         full == [i \in DOMAIN read |->
                    [operator |-> read[i].operator, portals |-> SelectSeq(read[i].portals, IsPeer),
                     units |-> UnitsOf(read[i].id)]]
     IN /\ found' = found \o SelectSeq(full, LAMBDA c : c.units # 0 /\ c.portals # <<>>)
        /\ IF offset + Len(read) >= total_active
           THEN pc' = "gateways" /\ offset' = 0
           ELSE pc' = "clusters" /\ offset' = offset + Len(read)
  /\ page' = <<>>
  /\ UNCHANGED <<chain, call, legacy, result>>

\* mutant: the page is not advanced
GetGatewaysAgain ==
  /\ pc = "gateways" /\ call.method \in Lists
  /\ LET read == PageOf(gateways) IN
     IF Len(read) < PerPage
     THEN Returns(<<"Ok", merge_active_portals(found, <<>>)>>)
     ELSE UNCHANGED vars

\* mutant: a gateway that has a cluster by now is left out of active_portals
GetGatewaysSkipsMigrated ==
  /\ pc = "gateways" /\ call.method \in Lists
  /\ LET read == PageOf(gateways)
         all == legacy \o read
         left == SelectSeq([i \in DOMAIN all |-> all[i].peer],
                           LAMBDA p : IsPeer(p) /\ (call.registry => ClusterOf(p) = 0))
     IN IF Len(read) < PerPage
        THEN Returns(<<"Ok", IF call.method = "active_portals"
                             THEN merge_active_portals(found, left)
                             ELSE merge_portal_clusters(found, all)>>)
        ELSE /\ legacy' = all
             /\ offset' = offset + PerPage
             /\ UNCHANGED <<chain, call, pc, page, found, result>>

\* getActiveGateways or getAllocations, one page, until a page is not full
GetGateways ==
  /\ pc = "gateways" /\ call.method \in Lists
  /\ LET read == PageOf(gateways)
         all == legacy \o read
     IN IF Len(read) < PerPage
        THEN Returns(<<"Ok", IF call.method = "active_portals"
                             THEN merge_active_portals(found,
                                    SelectSeq([i \in DOMAIN all |-> all[i].peer], IsPeer))
                             ELSE merge_portal_clusters(found, all)>>)
        ELSE /\ legacy' = all
             /\ offset' = offset + PerPage
             /\ UNCHANGED <<chain, call, pc, page, found, result>>

-----------------------------------------------------------------------------
(***************************************************************************)
(* The methods about one portal: is_portal_registered,                     *)
(* portal_uses_default_strategy, portal_compute_units_per_epoch,           *)
(* current_allocations (for one worker) and portal_sqd_locked              *)
(***************************************************************************)

\* goes on to another RPC with what this one returned
Then(rpc, value) ==
  /\ pc' = rpc
  /\ found' = <<value>>
  /\ UNCHANGED <<chain, call, offset, page, legacy, result>>

\* the cluster id is enough: every cluster splits evenly
AnsweredById == {"is_portal_registered", "portal_uses_default_strategy"}

GetClusterId ==
  /\ pc = "cluster_id"
  /\ \/ /\ ClusterOf(call.portal) = 0
        /\ pc' = "gateways"
        /\ UNCHANGED <<chain, call, offset, page, found, legacy, result>>
     \/ /\ ClusterOf(call.portal) # 0 /\ call.method \in AnsweredById
        /\ Returns(<<"Ok", TRUE>>)
     \/ /\ ClusterOf(call.portal) # 0 /\ call.method \notin AnsweredById
        /\ Then("cluster", ClusterOf(call.portal))

\* portal_compute_units_per_epoch, and each worker's share in current_allocations
GetUnitsOfCluster ==
  /\ pc = "cluster" /\ call.method \in {"portal_compute_units_per_epoch", "current_allocations"}
  /\ Returns(<<"Ok", UnitsOf(found[1])>>)

\* goes on to the legacy registry if the cluster is gone
GetLockedInCluster ==
  /\ pc = "cluster" /\ call.method = "portal_sqd_locked"
  /\ LET there == {c \in Range(clusters) : c.id = found[1]} IN
     \/ \E c \in there : Returns(<<"Ok", c.operator>>)
     \/ /\ there = {}
        /\ pc' = "gateways"
        /\ UNCHANGED <<chain, call, offset, page, found, legacy, result>>

\* The legacy registry knows no operator and no units for other peers.
Rows == {g \in Range(gateways) : g.peer = call.portal}

Legacy(rpc, method) == pc = rpc /\ call.method = method

GetGateway ==
  /\ Legacy("gateways", "is_portal_registered")
  /\ Returns(<<"Ok", Rows # {}>>)

\* a peer without a gateway has no strategy
GetUsedStrategy ==
  /\ Legacy("gateways", "portal_uses_default_strategy")
  /\ Returns(<<"Ok", \E g \in Rows : g.default>>)

GetUnitsAvailable ==
  /\ Legacy("gateways", "portal_compute_units_per_epoch")
  /\ Returns(<<"Ok", Max({0} \cup {g.units : g \in Rows})>>)

\* current_allocations: the strategy, and then its units for the worker
GetStrategy ==
  /\ Legacy("gateways", "current_allocations")
  /\ Then("strategy", \E g \in Rows : g.default)

GetStrategyUnits ==
  /\ pc = "strategy"
  /\ Returns(<<"Ok", Max({0} \cup {g.units : g \in Rows})>>)

\* portal_sqd_locked: the operator, and then its stake
GetOperator ==
  /\ Legacy("gateways", "portal_sqd_locked")
  /\ \/ Rows = {} /\ Returns(<<"Ok", 0>>)
     \/ \E g \in Rows : Then("stake", g.operator)

GetStake ==
  /\ pc = "stake"
  /\ Returns(<<"Ok", found[1]>>)

-----------------------------------------------------------------------------
(***************************************************************************)
(* active_workers and worker_registration_time                             *)
(***************************************************************************)

GetActiveWorkerIds ==
  /\ pc = "worker_ids"
  /\ \/ active = <<>> /\ Returns(<<"Ok", <<>>>>)
     \/ /\ active # <<>>
        /\ found' = active
        /\ page' = [n \in 1..(Len(active) + PerPage - 1) \div PerPage |-> <<>>]
        /\ pc' = "workers"
        /\ UNCHANGED <<chain, call, offset, legacy, result>>

\* Worker::new for every worker, with the id it was asked for
WithIds(read) ==
  SelectSeq([i \in 1..Min({Len(read), Len(found)}) |-> [id |-> found[i], peer |-> read[i].peer]],
            LAMBDA w : IsPeer(w.peer))

\* The multicalls of all pages run at once, and answer in any order.
GetWorkers ==
  /\ pc = "workers"
  /\ \E n \in DOMAIN page :
       /\ page[n] = <<>>
       /\ LET ids == SubSeq(found, (n - 1) * PerPage + 1, Min({n * PerPage, Len(found)}))
              read == [page EXCEPT ![n] = [i \in DOMAIN ids |-> workers[ids[i]]]]
          IN IF \A m \in DOMAIN page : read[m] # <<>>
             THEN Returns(<<"Ok", WithIds(FlattenSeq(read))>>)
             ELSE page' = read /\ UNCHANGED <<chain, call, pc, offset, found, legacy, result>>

worker_id ==
  /\ pc = "worker_id" /\ call.method = "worker_id"
  /\ Returns(<<"Ok", WorkerIdOf(call.portal)>>)

\* worker_registration_time, 0 for None
GetWorkerId ==
  /\ pc = "worker_id" /\ call.method = "worker_registration_time"
  /\ LET id == WorkerIdOf(call.portal) IN
     \/ id = 0 /\ Returns(<<"Ok", 0>>)
     \/ id # 0 /\ Then("worker", id)

GetWorker ==
  /\ pc = "worker"
  /\ Then("block", workers[found[1]].registered_at)

\* 0 for None: L1 may not have the block yet
GetBlock ==
  /\ pc = "block"
  /\ Returns(<<"Ok", IF found[1] <= L1Head THEN TimeOf(found[1]) ELSE 0>>)

-----------------------------------------------------------------------------
(***************************************************************************)
(* The methods about epochs.  The contract sets the length of an epoch     *)
(* once, so that reading it together with another value is one step.       *)
(***************************************************************************)

EpochStart(e) == e * EpochLength

current_epoch ==
  /\ pc = "epoch_number" /\ call.method = "current_epoch"
  /\ Returns(<<"Ok", epoch>>)

\* current_epoch, and then current_epoch_start
epoch_stream ==
  /\ pc = "epoch_number" /\ call.method = "epoch_stream"
  /\ Then("next_epoch", epoch)

\* next_epoch - worker_epoch_length
GetNextEpoch ==
  /\ pc = "next_epoch"
  /\ pc' = "start_block"
  /\ found' = Append(found, EpochStart(epoch + 1) - EpochLength)
  /\ UNCHANGED <<chain, call, offset, page, legacy, result>>

\* the L1 node may not have the block yet
GetStartBlock ==
  /\ pc = "start_block"
  /\ LET block == Last(found) IN
     \/ block > L1Head /\ Returns(<<"Err">>)
     \/ /\ block <= L1Head
        /\ Returns(<<"Ok", IF call.method = "epoch_stream"
                           THEN <<found[1], TimeOf(block)>> ELSE TimeOf(block)>>)

\* epoch_length: the latest block and the one an epoch's length before it
GetLatestBlock ==
  /\ pc = "latest"
  /\ Then("hist_block", L1Head)

GetHistBlock ==
  /\ pc = "hist_block"
  /\ Returns(<<"Ok", TimeOf(found[1]) - TimeOf(found[1] - EpochLength)>>)

\* `?' after any of the RPCs
RpcFails ==
  /\ pc # "done"
  /\ Returns(<<"Err">>)

-----------------------------------------------------------------------------
(***************************************************************************)
(* The chain                                                               *)
(***************************************************************************)

Changes ==
  /\ pc # "done" /\ changes < MaxChanges
  /\ changes' = changes + 1
  /\ UNCHANGED <<call, pc, offset, page, found, legacy, result>>

\* The operator of a legacy gateway makes a cluster of it, and the gateway
\* goes, or stays for a while.
Migrate ==
  \E i \in DOMAIN gateways, stays \in BOOLEAN :
    /\ gateways[i].peer \notin UNION {Range(c.portals) : c \in Range(clusters)}
    /\ clusters' = Append(clusters,
         [id |-> 1 + Max({0} \cup {c.id : c \in Range(clusters)}),
          operator |-> gateways[i].operator, portals |-> <<gateways[i].peer>>, units |-> 1])
    /\ UNCHANGED <<workers, active, epoch>>
    /\ gateways' = IF stays THEN gateways ELSE RemoveAt(gateways, i)
    /\ removed' = (removed \/ ~stays)
    /\ Changes

\* A cluster is deactivated.
Deactivate ==
  \E i \in DOMAIN clusters :
    /\ clusters' = RemoveAt(clusters, i)
    /\ removed' = TRUE
    /\ UNCHANGED <<gateways, workers, active, epoch>>
    /\ Changes

\* A worker is deregistered; its record stays.
Deregister ==
  \E i \in DOMAIN active :
    /\ active' = RemoveAt(active, i)
    /\ UNCHANGED <<clusters, gateways, workers, epoch, removed>>
    /\ Changes

\* A worker registers, in a block L1 may not have yet.
Register ==
  /\ call.method \in WorkerMethods
  /\ \E p \in Peers :
       /\ WorkerIdOf(p) = 0
       /\ workers' = Append(workers, [peer |-> p, registered_at |-> L1Head + 1])
       /\ active' = Append(active, Len(workers'))
       /\ UNCHANGED <<clusters, gateways, epoch, removed>>
       /\ Changes

NewEpoch ==
  /\ call.method \in EpochMethods
  /\ epoch' = epoch + 1
  /\ UNCHANGED <<clusters, gateways, workers, active, removed>>
  /\ Changes

Read ==
  \/ GetActiveClusters \/ GetComputationUnits \/ GetGateways
  \/ GetClusterId \/ GetUnitsOfCluster \/ GetLockedInCluster
  \/ GetGateway \/ GetUsedStrategy \/ GetUnitsAvailable \/ GetStrategy \/ GetStrategyUnits
  \/ GetOperator \/ GetStake
  \/ GetActiveWorkerIds \/ GetWorkers \/ worker_id \/ GetWorkerId \/ GetWorker \/ GetBlock
  \/ current_epoch \/ epoch_stream \/ GetNextEpoch \/ GetStartBlock \/ GetLatestBlock \/ GetHistBlock

Next == Read \/ RpcFails \/ Migrate \/ Deactivate \/ Deregister \/ Register \/ NewEpoch

Spec == Init /\ [][Next]_vars

\* Every RPC is answered, or fails by its timeout.
FairSpec == Spec /\ WF_vars(Read)

-----------------------------------------------------------------------------
(***************************************************************************)
(* Properties                                                              *)
(***************************************************************************)

\* What a call should return, read off the chain: clusters count only if they
\* have computation units and portals, legacy rows only if their peer is in
\* none of these, and of an operator's rows only the first one's units.
Seen == IF call.registry THEN clusters ELSE <<>>
Counted ==
  {i \in DOMAIN Seen : Seen[i].units # 0 /\ Range(Seen[i].portals) \cap Peers # {}}
Unmigrated ==
  {i \in DOMAIN gateways : /\ IsPeer(gateways[i].peer)
                           /\ \A k \in Counted : gateways[i].peer \notin Range(Seen[k].portals)}
OwnClusters(o) == {i \in Counted : Seen[i].operator = o}
OwnRows(o) == {i \in Unmigrated : gateways[i].operator = o}
ClusterUnits(o) == FoldSet(LAMBDA i, sum : sum + Seen[i].units, 0, OwnClusters(o))
RowUnits(o) == IF OwnRows(o) = {} THEN 0 ELSE gateways[Min(OwnRows(o))].units

ClustersExact(map) ==
  /\ DOMAIN map = {o \in Operators : OwnClusters(o) \cup OwnRows(o) # {}}
  /\ \A o \in DOMAIN map :
       /\ Range(map[o].portals) =
            UNION {Range(Seen[i].portals) \cap Peers : i \in OwnClusters(o)}
              \cup {gateways[i].peer : i \in OwnRows(o)}
       /\ map[o].units = Min({MaxUnits, ClusterUnits(o) + RowUnits(o)})

PortalsExact(list) ==
  /\ IsInjective(list)
  /\ Range(list) =
       Peers \cap (UNION {Range(c.portals) : c \in Range(Seen)} \cup {g.peer : g \in Range(gateways)})

\* for the methods about one portal
PortalExact(answer) ==
  LET own == {c \in Range(Seen) : call.portal \in Range(c.portals)}
      rows == {g \in Range(gateways) : g.peer = call.portal}
      entry == IF own # {} THEN own ELSE rows
  IN CASE call.method = "is_portal_registered" -> answer = (entry # {})
       [] call.method = "portal_uses_default_strategy" ->
            answer = (own # {} \/ \E g \in rows : g.default)
       [] call.method = "portal_sqd_locked" ->
            IF entry = {} THEN answer = 0 ELSE answer \in {e.operator : e \in entry}
       [] OTHER -> IF entry = {} THEN answer = 0 ELSE answer \in {e.units : e \in entry}

WorkersExact(list) ==
  /\ \A i \in DOMAIN list : list[i].peer = workers[list[i].id].peer
  /\ changes = 0 => [i \in DOMAIN list |-> list[i].id] =
                      SelectSeq(active, LAMBDA id : IsPeer(workers[id].peer))

TimeExact(answer) ==
  LET id == WorkerIdOf(call.portal)
  IN answer = IF id # 0 /\ workers[id].registered_at <= L1Head
              THEN TimeOf(workers[id].registered_at) ELSE 0

\* for the methods about epochs
EpochExact(answer) ==
  LET during == (epoch - changes)..epoch  \* the epochs of the call
  IN CASE call.method = "current_epoch" -> answer \in during
       [] call.method = "current_epoch_start" -> \E e \in during : answer = TimeOf(EpochStart(e))
       [] call.method = "epoch_stream" ->
            \E n, e \in during : n <= e /\ answer = <<n, TimeOf(EpochStart(e))>>
       [] call.method = "epoch_length" -> answer = TimeOf(L1Head) - TimeOf(L1Head - EpochLength)

\* the peers an answer of active_portals or of portal_clusters contains
Listed(answer) ==
  IF call.method = "active_portals" THEN Range(answer)
  ELSE UNION {Range(answer[o].portals) : o \in DOMAIN answer}

\* If portals are only added while active_portals or portal_clusters reads its
\* pages, also by migrating to a cluster before they leave the old registry,
\* the answer contains every portal that was registered when the call began.
NothingMissed ==
  call.method \in Lists /\ ~removed /\ result # <<>> /\ result[1] = "Ok" =>
    call.registered \subseteq Listed(result[2])

\* On a chain that does not change meanwhile, every method returns what the
\* contracts hold: nothing is lost or read twice at the edge of a page, a
\* portal in both registries counts once and for the new one, and an operator
\* has one cluster (active_portals, portal_clusters, merge.rs).  A worker is
\* never given another worker's on-chain id, whatever changes, and bytes that
\* are no peer id shift nobody (active_workers).  A start of an epoch belongs to
\* the epoch it is given with, or to a later one that began during the call.
ReadsExact ==
  result # <<>> /\ result[1] = "Ok" =>
    CASE call.method = "active_workers" -> WorkersExact(result[2])
      [] call.method = "worker_registration_time" -> changes = 0 => TimeExact(result[2])
      [] call.method = "worker_id" -> changes = 0 => result[2] = WorkerIdOf(call.portal)
      [] call.method \in EpochMethods -> EpochExact(result[2])
      [] call.method = "active_portals" -> changes = 0 => PortalsExact(result[2])
      [] call.method = "portal_clusters" -> changes = 0 => ClustersExact(result[2])
      [] OTHER -> changes = 0 => PortalExact(result[2])

\* A call returns although the registries change while it reads them page by
\* page.
CallReturns == <>(pc = "done")
=============================================================================
