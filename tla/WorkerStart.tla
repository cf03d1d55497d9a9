---------------------------- MODULE WorkerStart ----------------------------
(***************************************************************************)
(* When a worker joins the network: build_worker waits for its             *)
(* registration on chain and then for the other nodes to whitelist it      *)
(* (crates/transport/src/builder.rs), and every node reads the registered  *)
(* workers on an interval of the same length (network_nodes_stream of      *)
(* crates/contract-client/src/client.rs, base.rs).  Time is in ticks of a  *)
(* clock all nodes share; the chain is external.                           *)
(***************************************************************************)
EXTENDS Naturals

CONSTANTS
  Nodes,     \* the other nodes
  Interval,  \* BaseConfig::onchain_update_interval, on every node
  Recheck,   \* the sleep between two checks of the registration
  Latency,   \* how long a read of the chain takes at most
  MaxTime    \* bound: the end of time

\* tokio's interval panics on a period of zero; a read is over before the next
ASSUME StartAssumption ==
  /\ Interval \in Nat /\ Recheck \in Nat /\ Latency \in Nat /\ MaxTime \in Nat
  /\ Latency < Interval

Never == MaxTime + Interval + 1

VARIABLES
  now,            \* the time
  registered_at,  \* the time of the block the worker is registered at, or Never
  tick,           \* per node: when its interval ticks next
  reading,        \* per node: the read in progress, [at, sees], or <<>>
  whitelisted,    \* the nodes whose whitelist has the worker
  failed,         \* the nodes a read failed on since the registration
  worker,         \* "checking" the registration, "sleeping", "started" or "failed"
  wake,           \* when its sleep ends
  started_at      \* when it built its swarm

startVars == <<now, registered_at, tick, reading, whitelisted, failed, worker, wake, started_at>>

nodeVars == <<tick, reading, whitelisted, failed>>

StartInit ==
  /\ now = 0
  /\ registered_at = Never
  /\ tick \in [Nodes -> 0..(Interval - 1)]
  /\ reading = [n \in Nodes |-> <<>>]
  /\ whitelisted = {} /\ failed = {}
  /\ worker = "checking" /\ wake = 0
  /\ started_at = Never

-----------------------------------------------------------------------------
(***************************************************************************)
(* The other nodes: a tick of the interval starts a read, unless one is in *)
(* progress, and its result replaces the whitelist                         *)
(***************************************************************************)

\* mutant: the interval starts over when a read is done
TickFromResult(n) ==
  /\ tick[n] <= now /\ reading[n] = <<>>
  /\ tick' = [tick EXCEPT ![n] = now + Interval + Latency + 1]
  /\ reading' = [reading EXCEPT ![n] = <<now, registered_at <= now>>]
  /\ UNCHANGED <<now, registered_at, whitelisted, failed, worker, wake, started_at>>

network_nodes_stream(n) ==
  /\ tick[n] <= now /\ reading[n] = <<>>
  /\ tick' = [tick EXCEPT ![n] = @ + Interval]
  /\ reading' = [reading EXCEPT ![n] = <<now, registered_at <= now>>]
  /\ UNCHANGED <<now, registered_at, whitelisted, failed, worker, wake, started_at>>

\* on_nodes_update with what the read returned
ReadDone(n) ==
  /\ reading[n] # <<>>
  /\ reading' = [reading EXCEPT ![n] = <<>>]
  /\ whitelisted' = IF reading[n][2] THEN whitelisted \cup {n} ELSE whitelisted \ {n}
  /\ UNCHANGED <<now, registered_at, tick, failed, worker, wake, started_at>>

\* the stream yields an error, which is logged
ReadFails(n) ==
  /\ reading[n] # <<>>
  /\ reading' = [reading EXCEPT ![n] = <<>>]
  /\ failed' = IF registered_at <= now THEN failed \cup {n} ELSE failed
  /\ UNCHANGED <<now, registered_at, tick, whitelisted, worker, wake, started_at>>

-----------------------------------------------------------------------------
(***************************************************************************)
(* The worker                                                              *)
(***************************************************************************)

\* build_swarm listens, and dials the boot nodes; any of it may fail
build_swarm ==
  /\ \/ worker' = "started" /\ started_at' = now
     \/ worker' = "failed" /\ UNCHANGED started_at
  /\ UNCHANGED wake

\* mutant: a registered worker starts at once
BuildAtOnce ==
  /\ worker = "checking" /\ wake <= now
  /\ IF registered_at > now
     THEN wake' = now + Recheck /\ UNCHANGED <<worker, started_at>>
     ELSE build_swarm
  /\ UNCHANGED <<now, registered_at, nodeVars>>

\* worker_registration_time, which has no answer before L1 has the block, and
\* the sleep for what is left of the interval
build_worker ==
  /\ worker = "checking" /\ wake <= now
  /\ LET elapsed == now - registered_at IN
     \/ /\ registered_at > now
        /\ wake' = now + Recheck
        /\ UNCHANGED <<worker, started_at>>
     \/ /\ registered_at <= now /\ elapsed < Interval
        /\ wake' = now + (Interval - elapsed)
        /\ worker' = "sleeping"
        /\ UNCHANGED started_at
     \/ registered_at <= now /\ elapsed >= Interval /\ build_swarm
  /\ UNCHANGED <<now, registered_at, nodeVars>>

WakeUp ==
  /\ worker = "sleeping" /\ wake <= now
  /\ build_swarm
  /\ UNCHANGED <<now, registered_at, nodeVars>>

-----------------------------------------------------------------------------
(***************************************************************************)
(* The chain and the clock                                                 *)
(***************************************************************************)

\* in the next block, or in one to come
RegisterWorker ==
  /\ registered_at = Never
  /\ \E later \in 0..1 : registered_at' = now + later
  /\ UNCHANGED <<now, nodeVars, worker, wake, started_at>>

\* Nodes are not late; the worker may be.
Pass ==
  /\ now < MaxTime
  /\ \A n \in Nodes :
       /\ reading[n] = <<>> => tick[n] > now
       /\ reading[n] # <<>> => reading[n][1] + Latency > now
  /\ now' = now + 1
  /\ UNCHANGED <<registered_at, nodeVars, worker, wake, started_at>>

StartNext ==
  \/ \E n \in Nodes : network_nodes_stream(n) \/ ReadDone(n) \/ ReadFails(n)
  \/ build_worker \/ WakeUp \/ RegisterWorker \/ Pass

StartSpec == StartInit /\ [][StartNext]_startVars

-----------------------------------------------------------------------------
(***************************************************************************)
(* Properties                                                              *)
(***************************************************************************)

\* "We need to wait for other nodes to catch up and whitelist our peer ID"
\* (builder.rs:229): once the worker has been running for longer than a read
\* of the chain takes, every node no read failed on has it in its whitelist,
\* however the intervals of the nodes lie and whenever the worker asked.
CaughtUp ==
  worker = "started" /\ now > started_at + Latency => Nodes \subseteq whitelisted \cup failed
=============================================================================
