# TLA+ verification of sqd-network

This directory holds TLA+ models of the crates of the SQD network, TLC
configurations that check them on small instances, and TLAPS proofs of the
properties that matter most for every instance. File and line references are
to `src/crates/`; `PROJECT.json` gives the source lines of every definition,
the hazards each property is aimed at, and for every property a mutant (an
operator marked `mutant:`) that breaks it.

## The system

Nodes of the network (workers, portals, the scheduler, the collectors of logs
and pings, observers, boot nodes) share one peer-to-peer transport:

* **Base behaviour** (`transport/src/behaviour/base.rs`): keeps a node
  connected. It follows the set of registered nodes on chain
  (`node_whitelist.rs`), caches addresses (`addr_cache.rs`), looks workers up
  in the DHT and dials them again after every failure, and reports how much
  of the network it has identified.
* **Streams** (`transport/src/libp2p_stream/`): a patched copy of
  libp2p-stream. Any task can open a stream to a peer; the swarm dials, and a
  handler per connection negotiates.
* **Requests** (`behaviour/stream_client.rs`, `behaviour/stream_server.rs`,
  `actors/*.rs`): one request and one response per stream, with a limit of
  streams per peer, timeouts, and bounded queues between the swarm and the
  consumer of events.
* **Pubsub** (`behaviour/pubsub.rs`): gossip topics whose messages are
  validated by sequence number and rate per source.
* **Log delivery** (`actors/portal.rs`, `actors/portal_logs_collector.rs`):
  collectors advertise themselves in the DHT, portals look them up and send
  them their logs.
* **Tasks and connections** (`util/task_manager.rs`, `behaviour/keep_alive.rs`,
  `builder.rs`): how a transport starts, keeps idle connections, and stops when
  its last handle is dropped.
* **Assignments** (`assignments/`): the scheduler builds a file that tells
  workers and portals which worker holds which chunk of which dataset; they
  read it. There is a format for workers, one for portals, the legacy format
  for both, and an example program that converts it to the other two.
* **Contract client** (`contract-client/`): reads workers, portals, compute
  units and epochs from the chain; its stream of nodes feeds the whitelist.
* **Messages** (`messages/`, `data-chunk/`): the wire types, the signatures of
  queries and results, and sets of block ranges.
* **Boot node, observer, keygen**: small binaries over the above.

What is hard in it: callers, the swarm task and one task per connection
interleave at the granularity of a lock; dials, lookups and timeouts end in
any order and each end has to start the next attempt; the far side of a
stream may vanish at any byte; every queue is bounded and drops; builders
stage rows that later calls reject; the chain changes between two RPCs.

## Modules

| module | models | state (the code's) | actions |
|---|---|---|---|
| `Reconnect` | retry loop of the base behaviour, whitelist, address cache | `registered_workers`, `outbound_conns`, `reconnect_queue`, `pending_lookups`, `reconnect_scheduled`, `ongoing_lookups`, `pending_events`; connections and dials of the swarm | one per branch of `poll`, per event of an inner behaviour, per swarm event |
| `StreamShared` | opening outbound streams | the maps of `Shared`, the dial queue, the messages in each channel, `Handler::pending_upgrade`; connections and dials of the swarm | one per critical section, and per step without the lock |
| `OpenStreamApi` | what `open_stream` promises | the state of each call | one per outcome |
| `StreamSharedApi` | that `StreamShared` implements it: the refinement mapping | | |
| `RequestResponse` | stream client, stream server, worker actor | permits, the two directions of each stream, every queue a request passes | one per await point |
| `Pubsub` | message validation | `peer_states` of each topic and source | subscribe, a message, a tick of the clock |
| `LogListeners` | provider lookups of a portal, advertising of a collector | `provider_query`, `providers_list`, the queue, `log_listeners`; confidence and advertisement; the DHT | ticks, query progress, identify events, whitelist updates |
| `PortalLogs` | `send_logs` of a portal; codec, request server and events of the collectors | per call the progress of each listener's future, per stream its bytes and end, per collector the queues | one per await point |
| `TaskManager` | `spawn`, `spawn_periodic`, `await_stop` and drop, with the tasks, loops and handles of every actor | handles, tokens, the state of each task and of its join, the queue of events | one per branch of a `select!`, per method of the manager |
| `KeepAlive` | keep-alive streams of several clients and a server | the mode of each client, the task per connection, both ends of each stream, the accept channel; connections | one per handler and per end of a task |
| `WorkerStart` | `build_worker` and the nodes that poll the chain | the clock, each node's interval and read, whitelists, the worker's sleep | one per step of the clock, a read, the worker |
| `Searches` | the reader's hand-written bisections | the loop variables | one per loop iteration |
| `AssignmentColumns` | columns shared by the two assignments: hashes, tops, offsets, versions | (operators) | |
| `WorkerAssignment`, `PortalAssignment` | builder and reader of the two files | the builder's fields, the open dataset and chunk, the finished file; beside it what the caller was promised | one per method, with rejected calls and dropped builders |
| `LegacyAssignment` | builder and reader of the legacy file | the builder's fields, the cache of lists of files, the finished file | one per method |
| `ConvertAssignment` | the converter, composed of the three formats | the program counter, and the state of all three | one per call the program makes |
| `RangeSets` | `RangeSet` | the list, and the counters of the loop in `extend` | one per iteration |
| `QuerySignatures` | what signatures of queries and results cover | what was signed, and the signatures | sign a query, its result, report a summary |
| `ContractClient` | one call of a method about workers, portals or epochs | the registries and the epoch; the loop variables of the method | one per RPC, one per transaction on chain |
| `ReconnectProofs`, `StreamSharedProofs`, `RequestResponseProofs`, `MessageProofs`, `ComponentProofs`, `PortalAssignmentProofs`, `WorkerAssignmentProofs`, `ColumnLemmas` | proofs, see below | | |

The `MC*` modules extend or instantiate these with the inputs of the runs.
`MCTransports` (`LogListeners`, `PortalLogs`, `TaskManager`, `KeepAlive`),
`MCAlgorithms` (`Searches`, `RangeSets`, `QuerySignatures`, `Pubsub`) and
`MCContractClient` (`ContractClient`, `WorkerStart`) put several models into one
run: a variable says which one a behaviour is about, and the others rest. libp2p (swarm,
Kademlia, gossipsub, stream transport), the contracts, and the consumers of
events are external: they are modelled by what this code relies on, with
every answer they may give.

The models meet at these points. `Reconnect` and `StreamShared` both see the
swarm's connections and dials, and each allows for the other's through an
action `OtherDial`. `RequestResponse` starts where `StreamShared` gave the
caller a stream. `LogListeners` and `Reconnect` both take whitelist updates,
which are answers of `ContractClient`; `WorkerStart` takes such an answer as
one step and models when it is read. `PortalLogs` takes any list
`LogListeners` may end up with, and in `KeepAlive` `open_stream` just picks a
connection or dials.
The assignments use the results of `partition_point` and `lookup_index_by_key`
that `Searches` checks loop by loop. `ConvertAssignment` is a composition
proper: it extends `LegacyAssignment`, instantiates `WorkerAssignment` and
`PortalAssignment`, and every call the program makes of a builder is that
builder's own action.

### Abstractions

* Addresses are "the cache holds one for this peer"; a full cache evicts any
  entry. Peers, connections, channels and requests are model values.
* A stream is a count of bytes each way and how the direction ended. An end
  without a close arrives as a reset or as an end of file: both occur
  (`stream_server.rs:57`). Logs are records of equal size; a message that ends
  inside a record does not decode, one that ends between two records does.
* Cooldowns expire in order of their deadlines, at any time. Time is counted
  only in `Pubsub` and `WorkerStart`, where the properties are about it; the
  clocks of all nodes and of the chain agree.
* Signatures are what was signed and by whom, hashes have no collisions. The
  signed encoding is spelled out in bytes, with shorter numbers and fixed-length
  fields, as whether it is unambiguous is the question. Encrypted headers are a
  value only the worker they were encrypted for can open.
* `compression` and `chunk_version` of a query are in no signature and are left
  out of the model.
* A chunk of the legacy format is built in one step: the setters of its builder
  only fill the argument of `finish`.
* futures' `channel(n)` holds n messages and one more per sender; a dropped
  oneshot sender is an error at the receiver.
* FlatBuffers are the tables written to them; a byte of a bitmap is the set
  of its bits (2 per byte in the run, so that rosters span bytes), hashes
  have at most 3 bytes instead of 8 and are padded and cut as in the code.
* The step of the confidence is computed in exact arithmetic instead of
  floating point; the whitelist and the identified peers are their sizes.
* `current_allocations` is called for one worker; the others get the same
  number, or their own from the same multicall.

## Runs

| run | checks | states |
|---|---|---|
| `reconnect` | no peer waits in two places (`WaitsOnce`), no registered worker that never connects to this node by itself falls out of the loop (`NotForgotten`; the others are finding 1), the cap of queries holds (`LookupCap`), `outbound_conns` never underflows (`TypeOK`); waiting ends, deregistered workers leave, reachable ones (again of those that never connect by themselves) are connected again and again | 30,250 |
| `reconnect_stranded` | finding 1 | |
| `stream_shared` | a pending channel always has a dial that takes or fails it (`PendingIsServed`), a request's message is in one place and goes to its peer (`HeldOnce`), no sender outlives its connection (`NoSenderLeak`); every `open_stream` returns (`OpenStreamReturns`), and `StreamShared` refines `OpenStreamApi` (`ImplementsApi`) | 73,742 |
| `request` | for the protocols whose clients refuse an empty response (`query`, `sql_query`): permits are conserved, a stream has one owner at the worker and is let go of, a call succeeds only if the consumer began to answer it, and with the whole response if `send` reported success (`SuccessIsAnswered`; for `logs` and `status` it allows an empty response besides, which is finding 5) | 659,601 |
| `request_empty` | finding 5 | |
| `pubsub_future` | finding 2 | |
| `transports` | lists of two lookups never mix, listeners follow the DHT, a confident collector is advertised; logs arrive at most once, and whole if the portal finished sending them (`LogsWhole`), sending returns; dropping the last handle returns and ends every task that is not stuck in a periodic function (`HandleStops`); a connection whose keep-alive stream the server took stays unless it fails, and every other one gets such a stream or is closed (`KeptAlive`) | 35,563 |
| `algorithms` | searches are in bounds, terminate and equal a linear scan; a `RangeSet` is the set of what it was given, if no range ends at the largest number (`RangeSetExact`); signatures verify for what was signed only, up to `request_id` (`SignaturesBind`); accepted gossip respects order and rate (`RateLimited`: at most `2 * max_burst - 1` messages of a source in any `min_interval`), and a message that is not accepted does not move `last_seq_no` | 314,440 |
| `signature_covers` | finding 4 | |
| `assignments` | what was staged is read back, for workers and portals; a worker's holdings and urls are exact, nothing of a dataset reaches the next; lookups by block and time are exact in the portal and the legacy format; a conversion succeeds on consistent sources without gaps, and neither moves a query between chunks nor, if the chunks of each dataset have one base url, changes what a worker holds (`ConversionExact`) | 1,772,116 |
| `convert_gap` | finding 3 | |
| `contract_client` | on a stable chain answers are exact (`ReadsExact`), workers never get each other's ids, an epoch is never paired with an earlier start; while portals are only added, or join a cluster and stay in the old registry, none is missed (`NothingMissed`); a worker that started is whitelisted by every node none of whose reads failed (`CaughtUp`); calls return on any chain | 297,570 |

### Bounds

* `reconnect`: two workers, one of which also connects to this node; one
  lookup at a time and one cache entry, so that the workers compete for both;
  two outbound connections per peer, so that counts above one occur.
* `stream_shared`: two calls and two connections are the least for the races
  between a caller, a dial and an inbound connection. Four channels are enough:
  every step that needs a new channel finds one that nothing refers to (with
  three, a caller that still holds the sender of a closed channel can block such
  a step). There is one peer; that messages are not misrouted between peers is
  part of `HeldOnce`, which is proved for any number of them.
* `request`: two calls on two handles with one permit each and queues that
  hold one entry. The client reads responses of 1 byte, the server sends 2 and
  takes requests of 1; sizes go from 0 to 3, so that each limit is met exactly
  and passed. `request_empty`: one call with the same limits.
* gossip (`algorithms`, `pubsub_future`): one source (sources are independent);
  a window of 2 in 5 units of time and up to 5 sequence numbers, so that windows
  restart twice and messages are older than `keep_last`.
* `transports`, log listeners: whitelists of 0 and 5 nodes and up to 2
  identified peers reach confidences below and above the threshold of 3 tenths.
  Two query ids leave room for a second query beside the first; the portal never
  starts one, so the guard of `on_provider_record` against another query's
  answer never fires.
* `transports`, logs: two collectors, one call of up to 2 records of 1 byte
  with a limit of 1 byte at the collector: one record is exactly at the limit,
  two are past it, and a stream may break before, between and after records; a
  queue of one event, and one request of the previous version.
* `transports`, tasks: every kind of transport, two handles, a queue of one.
* `transports`, keep-alive: two clients and two connections in all, of one
  client or of both, one of which may fail: enough for a burst that finds the
  one slot of the channel taken, and for two connections to one peer.
* searches: all vectors of up to five elements over four values, sorted or not,
  and keys below, between and above them.
* range sets: numbers 0 to 5, two calls with up to two ranges each, so that a
  call meets separate, touching, nested and repeated ranges of the one before.
* signatures: fields of zero to two bytes over three byte values, such
  that without the length prefixes two different queries encode alike (the mutant
  `Unprefixed`).
* assignments: workers' with one dataset id and two chunks, portals' with two
  dataset ids, legacy ones with up to two datasets and three chunks; inputs chosen for falling
  tops, gaps, hashes of several lengths, missing and equal timestamps, trimmed
  and unlisted tables, and ids that disagree with their ranges. These are chosen
  inputs, not all inputs: assignments with more chunks or other combinations are
  model-checked (the proofs cover all of them but the conversion and the legacy
  format). In the workers' and the portals' files a u32 counts to 3 and to 5, so
  that worker references, and bytes of bitmaps, pass it; in the conversion it
  counts to 1000.
* `contract_client`: lists of 0 to 4 entries with pages of 2, so that lists
  end inside and at the edge of a page, and two changes of the chain per call.
  Two nodes with any phase of an interval of 3, reads of up to 1, and 9 units of
  time: a registration in the first 4, which is at every phase of the intervals, is
  followed until the worker has run for longer than a read takes.

Deadlock is checked in `reconnect` and `reconnect_stranded`, which run for good.
The other models stop when the bounded number of calls, messages or chunks is
used up.

`TypeOK` is a property of the run `reconnect` only. Those of `StreamShared`,
`Searches` and `RequestResponse` are proved; that of `LogListeners` documents
the variables.

### Fairness

* `Reconnect`: weak fairness of the branches of `poll`, of the end of each
  Kademlia query (it has a timeout) and of each dial. `WorkerReconnected` in
  addition assumes, in its antecedent, that a worker looked up again and again
  is found and one dialled again and again is reached.
* `StreamShared`: weak fairness of the tasks. The swarm's taking of dials and
  their ends get strong fairness: they are disabled for the moment in which a
  connection is being established, and the swarm polls its behaviours and
  dials between any two such moments.
* `RequestResponse`: the worker's tasks and timeouts, and a consumer that
  answers or drops each event it took. Nothing is assumed of the client.
* `LogListeners`: the interval, the end of each query, the storing and expiry
  of records, and repeated identify events (identify runs on an interval on
  every connection). `ListenersFollowRecords` assumes in its antecedent that
  lookups eventually report what is in the DHT.
* `PortalLogs`: the call is polled and its timeouts expire. Nothing is assumed
  of the collectors.
* `TaskManager`: tasks are scheduled, the timeouts of `await_stop` expire, and
  the user reads the stream of events. Breaking out of a loop gets strong
  fairness: tokio's `select!` picks among the ready branches at random, so that
  a swarm that always has an event cannot hide the cancellation for ever. The
  function of a periodic task may never return.
* `KeepAlive`: tasks are scheduled, the server's swarm is polled, dials and
  negotiations end (they have timeouts), and idle connections time out.
* `Searches`: the loop runs. `ContractClient`: each RPC ends, which the timeout
  of `transport.rs` ensures over HTTP.

## Proofs

TLAPS proves these for every value of the constants. Where a theorem names a
definition, TLC checks the same definition in the runs above; those of the
assignments are checked through the instances of `MCAssignments`.

* **`ReconnectProofs`**, two models.
  * The retry loop (`ConfigAssumption` of `Reconnect`): `TypeOK`, `WaitsOnce`,
    `LookupCap` and `NotForgotten`. `NotForgotten` is not inductive: whether a
    registered worker is scheduled depends on the cooldown queue, the lookups and
    the dials being disjoint. `RetryInv` therefore adds `WaitsOnce`, that
    registered workers are allowed to connect, and that only `InboundPeers` have
    inbound connections. There is a lemma per action or group of swarm events;
    `AppendFacts` and `TailFacts` say what appending and taking the head do to
    the contents of a queue.
  * Starting a worker (`StartAssumption`: a read takes less than the interval
    between two): `CaughtUp`. `StartInv` says that the clock passes neither a
    tick nor the end of a read, and that since the registration each node has
    read it, is reading it, or will within an interval.
* **`StreamSharedProofs`** (`NoneAssumption`): `PendingIsServed`, `NoSenderLeak`
  and `HeldOnce`, and the safety part of the refinement of `OpenStreamApi`.
  `SharedInv` adds to the first two that `connections` records the peer each
  connection is really to; `HeldInv`, for the other two, that a channel has one
  receiving end, kept with the peer or connection it is for, and a message
  is in one channel or handler.
* **`RequestResponseProofs`** (`ConfigAssumption`): `PermitsConserved`,
  `OwnedOnce` and, for every protocol, `SuccessIsAnswered`. `RequestInv` adds to
  them how long each place may hold a stream, and that bytes are in a stream
  only if a response was begun.
* **`MessageProofs`**, two models.
  * Gossip (`GossipAssumption`: `max_burst` is at least 1): `RateLimited`,
    `GossipInOrder`. The invariant says that accepted messages fall into windows
    of at most `max_burst` messages that open `min_interval` apart, and that the
    state of a source is that of its last window. A message and the
    one `2 * max_burst - 1` later lie in different windows that are far enough
    apart; `2 * max_burst - 1` of them at the edge of two windows are possible.
  * Signatures (`SignatureAssumption`; a hash stands for what it was
    computed from): `SignaturesBind`. The encodings are shown to be unambiguous
    field by field.
* **`ComponentProofs`**, five models.
  * Searches (`InputAssumption`): the searches stay in bounds and return what a
    linear scan defines, for vectors of any length. `SearchInv` says that what
    lies outside the two bounds has been told apart from the key. Correctness is
    conditional on ascending vectors; staying in bounds is not.
  * Range sets (`RangeAssumption`): `RangeSetExact`, for any bound of the
    numbers, any number of calls and any ranges that end below that bound. The
    property says nothing of the middle of `extend`, where the list holds merged
    ranges up to `pi`, leftovers, and ranges still to come from `i`. `RangeInv`
    says that the first and the last of these together cover what was given,
    that the merged ones are separated, and that the ones to come begin no
    earlier than the last merged one, in order.
  * Log listeners (`IdAssumption`): `ListOfRunningQuery`, which is inductive.
  * Logs (`LogsAssumption`): `LogsWhole`. `LogsInv` says for each call and each
    collector (`PairInv`) that the logs are in one place at most, between the
    codec and the consumer, and what was written to the stream by then.
  * Keep-alive: the safety part of `KeptAlive` (`StreamKeepsConnection`), from
    `KeepInv`: a stream is on one connection.
* **`PortalAssignmentProofs`** (assuming `PortalCalls`: numbers are unsigned, ids
  are valid `DataChunk`s): a portal reads back what was staged (`RoundTrip`) and
  finds blocks and timestamps as a linear scan would (`FindsExact`). `PortalInv`
  relates the staged columns to the rows promised to the caller, and every
  emitted dataset to such columns, also past the limit of the worker
  references, where the dataset is refused.
* **`WorkerAssignmentProofs`** (assuming `WorkerCalls`, likewise): a worker reads
  back what was accepted, without gaps under `check_continuity` (`RoundTrip`,
  `Contiguous`), and holds exactly the chunks that name it, under the right urls
  (`HoldingsExact`, `GenerationsScoped`). `WorkerInv` has the same core, and adds
  that the lists staged for an open chunk are its own, and that generations
  belong to the open dataset.
* **`ColumnLemmas`** has what the last two share: hashes, tops, offsets and
  versions are read back as they were pushed, and the two bisections are right.
  These are recursive functions; a claim about all their windows is proved from
  a window of least size that violates it (`LeastElement`).

`CallsAssumption` of `MCAssignments` has TLC check that the inputs of the run
satisfy `PortalCalls` and `WorkerCalls`.

Only model-checked, on the instances above:

* all liveness properties (fairness and ENABLED are beyond TLAPS), the
  termination of the searches among them: what is proved is that they are right
  if they return;
* `TaskManager`, whose one property is liveness;
* `ContractClient`: its answers are folds over the registries, with operators as
  arguments that the provers do not expand;
* `LegacyFindsExact` and `ConversionExact`, which are not proved yet: the
  conversion drives three builders through a program of its own. The bisections
  of the legacy reader are proved in `ComponentProofs`.

## Findings

1. `StrandedWorkerIsChased` (`reconnect_stranded`). A dial to a cached address
   is skipped if the worker has connected to this node meanwhile, and a skipped
   dial is not retried (`base.rs:250`, `base.rs:386-400`). If the worker
   disconnects and its address is evicted, no lookup is scheduled, although a
   test says that "one has to be scheduled" (`base.rs:837`). `NotForgotten`
   is therefore stated for workers outside `InboundPeers`.
2. `NotFromFuture` (`pubsub_future`). The first message of a source is accepted
   with any sequence number (`pubsub.rs:181`), although these "can't be from the
   future" (`pubsub.rs:140`).
3. `GapsConvert` (`convert_gap`). "Gaps are legal in the source, and the new format
   carries each chunk's own end" (`convert_assignment.rs:176`), but `push_chunk`
   reports a gap as an error also with the check off (after appending the
   chunk), and the converter ends on every error
   (`convert_assignment.rs:201`, `:247`). A legacy assignment with a gap is not
   converted.
4. `SignatureCoversAbove` (`signature_covers`). The signature of a query "covers
   all the above fields" (`messages.proto:43`); `request_id` is above it and is not
   signed (`messages/src/signatures.rs:51`). `SignaturesBind` is stated up to
   `request_id`.
5. `DroppedIsError` (`request_empty`). Of a dropped `ResponseSender`, "Either way
   the request does not succeed ... callers treat both as an error"
   (`stream_server.rs:57-61`), and "In every variant, dropping `resp_chan` without
   sending resets the stream and the client sees an error" (`worker.rs:29`). The
   clients of `query` and `sql_query` refuse an empty response, and for them
   TLC finds no violation; `request_logs` (`logs_collector.rs:81`) and
   `request_heartbeat` (`pings_collector.rs:118`) decode it, so that a dropped
   request succeeds with no logs or a default heartbeat where the transport
   reports an end of file. `SuccessIsAnswered` therefore allows an
   empty response for these two.

Other observations made while reading the code, which no run checks:

* `node_whitelist.rs`: a change of roles that leaves the union of nodes as it
  was leaves `registered_workers` stale.
* "Maximum messages per min_interval" (`pubsub.rs:36`) holds for the window that
  is opened by its first message. In an interval of that length that straddles
  two windows, up to `2 * max_burst - 1` messages are accepted, which is what
  `RateLimited` states.
* The converter gives a dataset the base url of its first chunk
  (`convert_assignment.rs:187`) and verifies that url only (`:301`): chunks under
  another one are converted and verified, and workers then get other urls for
  them. `ConversionExact` compares holdings only where a dataset has one
  (`OneBaseUrl`).
* `control.rs:71` says that `accept` buffers nothing; `channel(0)` buffers one
  stream per sender.
* `keep_alive.rs:16` says that "any incoming stream is accepted and held open
  indefinitely". In a burst of inbound streams the one slot is taken and further
  ones are dropped, which the clients do not retry: a connection
  left without another such stream is then closed as idle, as `KeptAlive` says.
* `RangeSet::extend` computes `end + 1`, which overflows for a range that ends at
  `u64::MAX`; `RangeSetExact` excludes such ranges.
* A removal between two pages shifts the later entries, and a portal that migrates
  and leaves the old registry between the reads of the two may be in neither: one
  answer of `active_portals` can then miss a portal. `NothingMissed` excludes
  removals.
* Clones of `StreamClientHandle` do not share permits.
* Without `check_continuity` the portal builder emits chunks out of order,
  although the schema says ascending.
* `last + 1` in the continuity check of the builders overflows for a chunk that
  ends at `u64::MAX`.
* Only HTTP requests of the contract client have a timeout; an RPC that is never
  answered over a websocket blocks its caller.
* `portals_per_page = 0` makes the paging loop endless; `ContractClient`
  assumes that it is not 0. `max_concurrent_lookups = 0` stops all lookups: the
  run uses 1, and the proofs, being about safety, cover 0 as well.

## Not modelled

* Cryptography itself: keys, ciphers and hash functions.
* Generated code: FlatBuffers accessors, Protobuf types, contract bindings.
* Formatting and parsing: chunk names (`data-chunk`), version strings, the
  run-length and deflate coding of bit strings, command lines and configuration.
* `DummyClient`, which returns the contents of a file; the verify-only mode of the
  converter; the parallel reads inside `network_nodes_stream`, which `WorkerStart`
  takes as one read.
* Metrics, the noise behaviour, and the forwarding of libp2p callbacks, which keep
  no state.
* The observer binary, boot node and keygen, which only wire the parts together.

`PROJECT.json` lists every part with its status.

## Plan

1. Proofs of `LegacyFindsExact` and of the conversion, from those of the builders it drives.
2. `KeepAlive` over `StreamShared` instead of over its promise.
3. Bit strings against sets of numbers.
