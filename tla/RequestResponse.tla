-------------------------- MODULE RequestResponse --------------------------
(***************************************************************************)
(* One request and one response per stream: StreamClientHandle on the      *)
(* client (behaviour/stream_client.rs) and, on the worker, the accept      *)
(* buffer of libp2p_stream, ServerBehaviour (behaviour/stream_server.rs)   *)
(* and the worker actor (actors/worker.rs).  All calls go to one worker on *)
(* one protocol: semaphores and servers of others are independent.         *)
(*                                                                         *)
(* A stream is two byte counts, one per direction; each write moves one    *)
(* byte.  The end of a direction that is dropped, not closed, reaches the  *)
(* other side as a reset or as an end of file, depending on the transport  *)
(* (stream_server.rs:57-61).  open_stream is modelled in StreamShared; the *)
(* worker's consumer of events is external.                                *)
(***************************************************************************)
EXTENDS Naturals, Sequences, FiniteSets, Functions

CONSTANTS
  Calls,              \* bound: the requests made
  Handles,            \* the StreamClientHandle and its clones
  None,
  Limit,              \* ClientConfig::max_concurrent_streams
  ClientMax,          \* ClientConfig::max_response_size
  ServerMax,          \* ServerConfig::max_response_size
  RequestMax,         \* ServerConfig::max_request_size
  MaxSize,            \* bound: the largest request or response
  IncomingCapacity,   \* ServerConfig::incoming_capacity
  RequestsQueueSize,  \* ServerConfig::requests_queue_size
  EventsQueueSize,    \* WorkerConfig::events_queue_size
  Protocol            \* "query", "sql_query", "logs" or "status"

ASSUME ConfigAssumption ==
  /\ IsFiniteSet(Calls) /\ None \notin Handles
  /\ Limit \in Nat \ {0} /\ MaxSize \in Nat
  /\ {ClientMax, ServerMax, RequestMax, IncomingCapacity} \subseteq Nat
  /\ {RequestsQueueSize, EventsQueueSize} \subseteq Nat \ {0}
  /\ Protocol \in {"query", "sql_query", "logs", "status"}

VARIABLES
  permits,     \* free permits of each handle's semaphore for the worker
  handle,      \* the handle a call is made on
  client,      \* the progress of each call
  req_size,    \* the size of its request
  up,          \* client to worker: bytes written and how the direction ended
  down,        \* worker to client
  arriving,    \* streams the worker's connection handler has not seen yet
  incoming,    \* IncomingStreams
  reading,     \* read_request tasks
  requests,    \* ServerBehaviour::requests_rx
  events,      \* the queue of WorkerEvents
  handling,    \* events the consumer holds
  responding,  \* ResponseSender::send in progress
  resp_size,   \* the size of the response being sent
  sent         \* the result of ResponseSender::send

clientVars == <<permits, handle, client, req_size>>
serverVars == <<arriving, incoming, reading, requests, events, handling, responding>>
vars == <<clientVars, up, down, serverVars, resp_size, sent>>

Sizes == 0..MaxSize
Direction == [n : Sizes, end : {"none", "open", "eof", "reset"}]

TypeOK ==
  /\ permits \in [Handles -> 0..Limit]
  /\ handle \in [Calls -> Handles \cup {None}]
  /\ client \in [Calls -> {"idle", "permit", "opening", "writing", "reading", "ok", "err"}]
  /\ req_size \in [Calls -> Sizes] /\ resp_size \in [Calls -> Sizes]
  /\ up \in [Calls -> Direction] /\ down \in [Calls -> Direction]
  /\ {arriving, reading, handling, responding} \subseteq SUBSET Calls
  /\ {incoming, requests, events} \subseteq Seq(Calls)
  /\ Len(incoming) <= IncomingCapacity + 1
  /\ Len(requests) <= RequestsQueueSize
  /\ Len(events) <= EventsQueueSize
  /\ sent \in [Calls -> {"none", "ok", "err"}]

Init ==
  /\ permits = [h \in Handles |-> Limit]
  /\ handle = [r \in Calls |-> None]
  /\ client = [r \in Calls |-> "idle"]
  /\ req_size = [r \in Calls |-> 0] /\ resp_size = [r \in Calls |-> 0]
  /\ up = [r \in Calls |-> [n |-> 0, end |-> "none"]]
  /\ down = [r \in Calls |-> [n |-> 0, end |-> "none"]]
  /\ arriving = {} /\ reading = {} /\ handling = {} /\ responding = {}
  /\ incoming = <<>> /\ requests = <<>> /\ events = <<>>
  /\ sent = [r \in Calls |-> "none"]

-----------------------------------------------------------------------------
(***************************************************************************)
(* Streams                                                                 *)
(***************************************************************************)

Written(dir, r) == [dir EXCEPT ![r].n = @ + 1]

Ended(dir, r, end) == [dir EXCEPT ![r].end = IF @ = "open" THEN end ELSE @]

\* one side drops the stream without closing it
Dropped(dir, r) == {Ended(dir, r, end) : end \in {"eof", "reset"}}

\* the call holds a permit, and has a stream or is opening one
Holds(r) == client[r] \in {"opening", "writing", "reading"}

\* what the worker holds streams in, from its connection handler to the consumer
Owners == <<arriving, Range(incoming), reading, Range(requests), Range(events), handling, responding>>

Held == UNION Range(Owners)

-----------------------------------------------------------------------------
(***************************************************************************)
(* The client: get_raw_stream and request_response                         *)
(***************************************************************************)

Call(r, h, n) ==
  /\ client[r] = "idle"
  /\ client' = [client EXCEPT ![r] = "permit"]
  /\ handle' = [handle EXCEPT ![r] = h]
  /\ req_size' = [req_size EXCEPT ![r] = n]
  /\ UNCHANGED <<permits, up, down, serverVars, resp_size, sent>>

Acquire(r) ==
  /\ client[r] = "permit"
  /\ permits[handle[r]] > 0
  /\ permits' = [permits EXCEPT ![handle[r]] = @ - 1]
  /\ client' = [client EXCEPT ![r] = "opening"]
  /\ UNCHANGED <<handle, req_size, up, down, serverVars, resp_size, sent>>

Opened(r) ==
  /\ client[r] = "opening"
  /\ client' = [client EXCEPT ![r] = "writing"]
  /\ up' = [up EXCEPT ![r].end = "open"]
  /\ down' = [down EXCEPT ![r].end = "open"]
  /\ arriving' = arriving \cup {r}
  /\ UNCHANGED <<permits, handle, req_size, incoming, reading, requests, events, handling,
                 responding, resp_size, sent>>

\* mutant: the permit is not part of the stream
ReturnsKeepsPermit(r, result) ==
  /\ client' = [client EXCEPT ![r] = result]
  /\ permits' = permits

\* the call returns; with the stream goes the permit
Returns(r, result) ==
  /\ client' = [client EXCEPT ![r] = result]
  /\ permits' = IF Holds(r) THEN [permits EXCEPT ![handle[r]] = @ + 1] ELSE permits

\* open_stream failed
OpenFails(r) ==
  /\ client[r] = "opening"
  /\ Returns(r, "err")
  /\ UNCHANGED <<handle, req_size, up, down, serverVars, resp_size, sent>>

\* write_all, and close
WriteRequest(r) ==
  /\ client[r] = "writing"
  /\ up[r].end = "open"
  /\ \/ /\ up[r].n < req_size[r]
        /\ up' = Written(up, r)
        /\ UNCHANGED client
     \/ /\ up[r].n = req_size[r]
        /\ up' = Ended(up, r, "eof")
        /\ client' = [client EXCEPT ![r] = "reading"]
  /\ UNCHANGED <<permits, handle, req_size, down, serverVars, resp_size, sent>>

\* the worker dropped the stream or the connection is lost
WriteFails(r) ==
  /\ client[r] = "writing"
  /\ r \notin Held \/ up[r].end = "reset"
  /\ Returns(r, "err")
  /\ up' \in Dropped(up, r)
  /\ UNCHANGED <<handle, req_size, down, serverVars, resp_size, sent>>

\* send_query and send_sql_query refuse an empty response; request_logs and
\* request_heartbeat decode it
EmptyIsError == Protocol \in {"query", "sql_query"}

\* mutant: the response is read up to max_response_size bytes, not one more
ReadResponseNoExcess(r) ==
  /\ client[r] = "reading"
  /\ \/ down[r].n >= ClientMax /\ Returns(r, "ok")
     \/ /\ down[r].n < ClientMax /\ down[r].end = "eof"
        /\ Returns(r, IF down[r].n = 0 /\ EmptyIsError THEN "err" ELSE "ok")
     \/ down[r].end = "reset" /\ Returns(r, "err")
  /\ UNCHANGED <<handle, req_size, up, down, serverVars, resp_size, sent>>

\* mutant: an empty response is a success for every protocol
ReadResponseEmptyOk(r) ==
  /\ client[r] = "reading"
  /\ \/ down[r].n > ClientMax /\ Returns(r, "err")
     \/ down[r].n <= ClientMax /\ down[r].end = "eof" /\ Returns(r, "ok")
     \/ down[r].end = "reset" /\ Returns(r, "err")
  /\ UNCHANGED <<handle, req_size, up, down, serverVars, resp_size, sent>>

\* read_to_end of at most max_response_size + 1 bytes, and what the actor
\* makes of an empty response
ReadResponse(r) ==
  /\ client[r] = "reading"
  /\ \/ down[r].n > ClientMax /\ Returns(r, "err")
     \/ /\ down[r].n <= ClientMax /\ down[r].end = "eof"
        /\ Returns(r, IF down[r].n = 0 /\ EmptyIsError THEN "err" ELSE "ok")
     \/ down[r].end = "reset" /\ Returns(r, "err")
  /\ UNCHANGED <<handle, req_size, up, down, serverVars, resp_size, sent>>

\* connect_timeout, request_timeout, or the caller drops its raw stream
Abandon(r) ==
  /\ client[r] \in {"permit", "opening", "writing", "reading"}
  /\ Returns(r, "err")
  /\ up' \in Dropped(up, r)
  /\ UNCHANGED <<handle, req_size, down, serverVars, resp_size, sent>>

-----------------------------------------------------------------------------
(***************************************************************************)
(* The worker                                                              *)
(***************************************************************************)

\* Shared::on_inbound_stream: the channel holds capacity + 1 streams
on_inbound_stream(r) ==
  /\ r \in arriving
  /\ arriving' = arriving \ {r}
  /\ IF Len(incoming) <= IncomingCapacity
     THEN incoming' = Append(incoming, r) /\ UNCHANGED down
     ELSE down' \in Dropped(down, r) /\ UNCHANGED incoming
  /\ UNCHANGED <<clientVars, up, reading, requests, events, handling, responding, resp_size, sent>>

\* ServerBehaviour::poll spawns a task per incoming stream
spawn_read_task ==
  /\ incoming # <<>>
  /\ reading' = reading \cup {Head(incoming)}
  /\ incoming' = Tail(incoming)
  /\ UNCHANGED <<clientVars, up, down, arriving, requests, events, handling, responding,
                 resp_size, sent>>

\* mutant: a task that fails to queue its request keeps the stream
ReadRequestLeaks(r) ==
  /\ r \in reading
  /\ up[r].end = "eof"
  /\ reading' = reading \ {r}
  /\ requests' = IF Len(requests) < RequestsQueueSize THEN Append(requests, r) ELSE requests
  /\ UNCHANGED <<clientVars, up, down, arriving, incoming, events, handling, responding,
                 resp_size, sent>>

\* mutant: reading has no timeout
ReadRequestNoTimeout(r) ==
  /\ r \in reading
  /\ up[r].end \in {"eof", "reset"}
  /\ reading' = reading \ {r}
  /\ \/ /\ up[r].end = "eof" /\ up[r].n <= RequestMax
        /\ Len(requests) < RequestsQueueSize
        /\ requests' = Append(requests, r)
        /\ UNCHANGED down
     \/ /\ down' \in Dropped(down, r)
        /\ UNCHANGED requests
  /\ UNCHANGED <<clientVars, up, arriving, incoming, events, handling, responding, resp_size, sent>>

\* read_request: a request that is too large, fails, times out (also with its
\* last bytes in flight) or finds the queue full drops the stream
read_request(r) ==
  /\ r \in reading
  /\ reading' = reading \ {r}
  /\ \/ /\ up[r].end = "eof" /\ up[r].n <= RequestMax
        /\ Len(requests) < RequestsQueueSize
        /\ requests' = Append(requests, r)
        /\ UNCHANGED down
     \/ /\ down' \in Dropped(down, r)
        /\ UNCHANGED requests
  /\ UNCHANGED <<clientVars, up, arriving, incoming, events, handling, responding, resp_size, sent>>

\* on_query and on_sql_query drop an empty request, and send_lossy drops the
\* event if the queue is full
on_request ==
  /\ requests # <<>>
  /\ requests' = Tail(requests)
  /\ LET r == Head(requests) IN
     IF (Protocol \in {"query", "sql_query"} /\ up[r].n = 0) \/ Len(events) = EventsQueueSize
     THEN down' \in Dropped(down, r) /\ UNCHANGED events
     ELSE events' = Append(events, r) /\ UNCHANGED down
  /\ UNCHANGED <<clientVars, up, arriving, incoming, reading, handling, responding, resp_size, sent>>

TakeEvent ==
  /\ events # <<>>
  /\ handling' = handling \cup {Head(events)}
  /\ events' = Tail(events)
  /\ UNCHANGED <<clientVars, up, down, arriving, incoming, reading, requests, responding,
                 resp_size, sent>>

\* the consumer drops the event without answering
DropEvent(r) ==
  /\ r \in handling
  /\ handling' = handling \ {r}
  /\ down' \in Dropped(down, r)
  /\ UNCHANGED <<clientVars, up, arriving, incoming, reading, requests, events, responding,
                 resp_size, sent>>

\* ResponseSender::send, up to its first write
Send(r, n) ==
  /\ r \in handling
  /\ handling' = handling \ {r}
  /\ resp_size' = [resp_size EXCEPT ![r] = n]
  /\ IF n > ServerMax
     THEN /\ sent' = [sent EXCEPT ![r] = "err"]
          /\ down' \in Dropped(down, r)
          /\ UNCHANGED responding
     ELSE /\ responding' = responding \cup {r}
          /\ UNCHANGED <<sent, down>>
  /\ UNCHANGED <<clientVars, up, arriving, incoming, reading, requests, events>>

\* write_all, and close
WriteResponse(r) ==
  /\ r \in responding
  /\ down[r].end = "open"
  /\ \/ /\ down[r].n < resp_size[r]
        /\ down' = Written(down, r)
        /\ UNCHANGED <<responding, sent>>
     \/ /\ down[r].n = resp_size[r]
        /\ down' = Ended(down, r, "eof")
        /\ responding' = responding \ {r}
        /\ sent' = [sent EXCEPT ![r] = "ok"]
  /\ UNCHANGED <<clientVars, up, arriving, incoming, reading, requests, events, handling, resp_size>>

\* write_timeout, the client is gone or the connection is lost
SendFails(r) ==
  /\ r \in responding
  /\ responding' = responding \ {r}
  /\ sent' = [sent EXCEPT ![r] = "err"]
  /\ down' \in Dropped(down, r)
  /\ UNCHANGED <<clientVars, up, arriving, incoming, reading, requests, events, handling, resp_size>>

\* the connection closes under the stream; an inbound stream that was not
\* handed over yet is gone
Lost(r) ==
  /\ down[r].end = "open"
  /\ up' = [up EXCEPT ![r].end = "reset"]
  /\ down' = [down EXCEPT ![r].end = "reset"]
  /\ arriving' = arriving \ {r}
  /\ UNCHANGED <<clientVars, incoming, reading, requests, events, handling, responding,
                 resp_size, sent>>

-----------------------------------------------------------------------------
ClientStep(r) ==
  \/ \E h \in Handles, n \in Sizes : Call(r, h, n)
  \/ Acquire(r) \/ Opened(r) \/ OpenFails(r)
  \/ WriteRequest(r) \/ WriteFails(r) \/ ReadResponse(r) \/ Abandon(r)

ServerStep(r) ==
  \/ on_inbound_stream(r) \/ read_request(r)
  \/ DropEvent(r) \/ \E n \in Sizes : Send(r, n)
  \/ WriteResponse(r) \/ SendFails(r)

Next ==
  \/ \E r \in Calls : ClientStep(r) \/ ServerStep(r) \/ Lost(r)
  \/ spawn_read_task \/ on_request \/ TakeEvent

Spec == Init /\ [][Next]_vars

(***************************************************************************)
(* Fairness.  The worker's swarm and tasks keep running, a read or a write *)
(* ends by its timeout, and the consumer takes events and answers or drops *)
(* each of them.  Nothing is assumed of the client.                        *)
(***************************************************************************)
Fairness ==
  /\ WF_vars(spawn_read_task) /\ WF_vars(on_request) /\ WF_vars(TakeEvent)
  /\ \A r \in Calls :
       /\ WF_vars(on_inbound_stream(r)) /\ WF_vars(read_request(r))
       /\ WF_vars(DropEvent(r) \/ \E n \in Sizes : Send(r, n))
       /\ WF_vars(SendFails(r))

FairSpec == Spec /\ Fairness

-----------------------------------------------------------------------------
(***************************************************************************)
(* Properties                                                              *)
(***************************************************************************)

\* A permit is held for exactly as long as its stream, or the attempt to open
\* one: whatever times out, fails or is dropped, no handle loses a permit (its
\* calls to the worker would stall for good) or gains one.
PermitsConserved ==
  \A h \in Handles :
    permits[h] + Cardinality({r \in Calls : handle[r] = h /\ Holds(r)}) = Limit

\* On the worker a stream is owned by one task, queue or event at a time, and
\* one the client may still wait on is owned: no path through the bounded
\* queues forgets a stream or hands it out twice.
OwnedOnce ==
  /\ IsInjective(incoming) /\ IsInjective(requests) /\ IsInjective(events)
  /\ \A r \in Calls :
       LET owners == {i \in DOMAIN Owners : r \in Owners[i]}
       IN /\ Cardinality(owners) <= 1
          /\ down[r].end = "open" => owners # {}

\* A call of send_query or send_sql_query succeeds only if the worker's consumer
\* started to send a response to it, however many queues its request could have
\* been dropped from (ResponseSender, stream_server.rs:57); one of request_logs
\* or request_heartbeat, which decode an empty response, succeeds without that
\* on an empty response only.  And if ResponseSender::send reports success, a
\* client that succeeds has the whole response, no longer than the client's
\* max_response_size.
SuccessIsAnswered ==
  \A r \in Calls :
    client[r] = "ok" =>
      /\ sent[r] # "none" \/ r \in responding \/ (~EmptyIsError /\ down[r].n = 0)
      /\ sent[r] = "ok" => down[r].n = resp_size[r] /\ resp_size[r] <= ClientMax

\* "Dropping it without calling [`ResponseSender::send`] ends the stream without
\* writing a response ... Either way the request does not succeed ... callers
\* treat both as an error." (stream_server.rs:57), and "In every variant,
\* dropping `resp_chan` without sending resets the stream and the client sees
\* an error" (worker.rs:30): once the consumer has the event, the call succeeds
\* only if the consumer answers it.
DroppedIsError ==
  \A r \in Calls :
    [](r \in handling => [](client[r] = "ok" => sent[r] # "none" \/ r \in responding))

\* The worker lets go of every stream, whatever the client does or omits to do
\* with its side.
StreamsReleased ==
  \A r \in Calls : r \in Held ~> r \notin Held
=============================================================================
