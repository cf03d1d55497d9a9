-------------------------- MODULE MCContractClient --------------------------
(***************************************************************************)
(* Instances of ContractClient for TLC: lists that end inside and at the   *)
(* edge of a page, operators with several clusters and gateways, peers in  *)
(* both registries, empty clusters, clusters without units, and bytes that *)
(* are no peer id; and of WorkerStart, which waits for what a call returns *)
(***************************************************************************)
EXTENDS ContractClient, WorkerStart

CONSTANTS p1, p2, p3, garbage, a, b

VARIABLE scenario

allVars == <<scenario, vars, startVars>>

Cluster(i, o, ps, u) == [id |-> i, operator |-> o, portals |-> ps, units |-> u]
Gateway(p, o, u) == [peer |-> p, operator |-> o, units |-> u, default |-> u # 2]

MCClusters == {
  <<>>,
  <<Cluster(1, a, <<p1>>, 2)>>,
  <<Cluster(1, a, <<p1, garbage>>, 0), Cluster(2, b, <<p2>>, 1)>>,
  <<Cluster(1, a, <<p1, p2>>, 2), Cluster(2, a, <<p3>>, 3)>>,
  <<Cluster(1, b, <<garbage>>, 1), Cluster(2, a, <<p1>>, 1), Cluster(3, b, <<p2>>, 1)>>,
  <<Cluster(1, a, <<p1>>, 1), Cluster(2, a, <<p2>>, 1), Cluster(3, a, <<p3>>, 1),
    Cluster(4, b, <<>>, 1)>>}

MCGateways == {
  <<>>,
  <<Gateway(p1, a, 1)>>,
  <<Gateway(p1, a, 1), Gateway(p2, a, 2)>>,
  <<Gateway(p2, b, 2), Gateway(garbage, a, 3), Gateway(p3, b, 1)>>,
  <<Gateway(p3, a, 1), Gateway(p2, b, 1), Gateway(p1, a, 2), Gateway(garbage, b, 1)>>}

MCWorker(p, n) == [peer |-> p, registered_at |-> n]
MCWorkers == {
  <<>>,
  <<MCWorker(p1, 1)>>,
  <<MCWorker(garbage, 1), MCWorker(p1, 1), MCWorker(p2, L1Head + 1)>>,
  <<MCWorker(p1, 1), MCWorker(garbage, 1), MCWorker(p2, L1Head + 1), MCWorker(p3, 1)>>}

-----------------------------------------------------------------------------
\* one call of the client, or one start of a worker
ClientInit ==
  \/ scenario = "call" /\ Init /\ StartInit /\ tick = [n \in Nodes |-> 0]
  \/ /\ scenario = "start" /\ StartInit
     /\ clusters = <<>> /\ gateways = <<>> /\ workers = <<>> /\ active = <<>>
     /\ epoch = 1 /\ changes = 0 /\ removed = FALSE
     /\ call = [method |-> "none"] /\ pc = "done"
     /\ offset = 0 /\ page = <<>> /\ found = <<>> /\ legacy = <<>> /\ result = <<>>

ClientNext ==
  /\ \/ scenario = "call" /\ Next /\ UNCHANGED startVars
     \/ scenario = "start" /\ StartNext /\ UNCHANGED vars
  /\ UNCHANGED scenario

\* Every RPC is answered, or fails by its timeout.
FairClient ==
  /\ ClientInit /\ [][ClientNext]_allVars
  /\ WF_allVars(scenario = "call" /\ Read /\ UNCHANGED <<scenario, startVars>>)
=============================================================================
