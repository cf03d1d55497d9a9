----------------------------- MODULE PortalLogs -----------------------------
(***************************************************************************)
(* How a portal sends its logs to the collectors it knows: send_logs of    *)
(* crates/transport/src/actors/portal.rs on one side, and on the other     *)
(* ProtoCodec (codec.rs), ServerBehaviour (behaviour/request_server.rs)    *)
(* and the event queue of actors/portal_logs_collector.rs.  LogListeners   *)
(* models how the list of listeners comes about; here it changes freely.   *)
(*                                                                         *)
(* A batch is a number of records of RecordSize bytes each; a write moves  *)
(* one byte.  A stream dropped before it is closed ends in a reset or in   *)
(* an end of file for the other side (stream_server.rs:57-61).             *)
(***************************************************************************)
EXTENDS Naturals, Sequences

CONSTANTS
  LogCollectors, \* listeners a portal may know of
  Sends,        \* bound: the calls of send_logs
  MaxRecords,   \* bound: the records of a batch
  RecordSize,   \* bytes per record
  MaxMsgSize,   \* MAX_LOGS_MSG_SIZE
  EventsQueue,  \* PortalLogsCollectorConfig::events_queue_size
  MaxV1         \* bound: the requests of portals that still speak version 1

\* "v1" stands for the requests that no call modelled here makes
ASSUME LogsAssumption ==
  /\ RecordSize \in Nat /\ RecordSize >= 1
  /\ MaxRecords \in Nat
  /\ "v1" \notin Sends

VARIABLES
  listeners,  \* PortalTransportHandle::log_listeners
  batch,      \* per call: <<>> or <<the number of records>>
  to,         \* per call: the progress of send_logs_to_listener, by listener
  returned,   \* the calls that returned
  stream,     \* per call and collector: bytes written, and how the stream ended
  serving,    \* streams a collector reads a request from
  decoded,    \* per collector: requests its swarm has not handled yet
  events,     \* per collector: the queue of LogQuery events
  received,   \* per collector: the events its consumer took
  v1          \* requests of version 1 made

logsVars == <<listeners, batch, to, returned, stream, serving, decoded, events, received, v1>>

portalVars == <<listeners, batch, to, returned>>
collectorVars == <<serving, decoded, events, received, v1>>

LogsInit ==
  /\ listeners = {}
  /\ batch = [s \in Sends |-> <<>>]
  /\ to = [s \in Sends |-> [c \in {} |-> "opening"]]
  /\ returned = {}
  /\ stream = [s \in Sends |-> [c \in LogCollectors |-> [n |-> 0, end |-> "none"]]]
  /\ serving = {}
  /\ decoded = [c \in LogCollectors |-> <<>>]
  /\ events = [c \in LogCollectors |-> <<>>]
  /\ received = [c \in LogCollectors |-> <<>>]
  /\ v1 = 0

-----------------------------------------------------------------------------
(***************************************************************************)
(* The portal                                                              *)
(***************************************************************************)

\* the task of the handle stores what a lookup found; bound: only as long as a
\* call is to come that reads it
ListenersChange(found) ==
  /\ \E s \in Sends : batch[s] = <<>>
  /\ listeners' = found
  /\ UNCHANGED <<batch, to, returned, stream, collectorVars>>

\* publish_portal_logs starts sending to all listeners of this moment
send_logs(s, n) ==
  /\ batch[s] = <<>>
  /\ batch' = [batch EXCEPT ![s] = <<n>>]
  /\ to' = [to EXCEPT ![s] = [c \in listeners |-> "opening"]]
  /\ UNCHANGED <<listeners, returned, stream, collectorVars>>

Sending(s, c) == c \in DOMAIN to[s] /\ to[s][c] \in {"opening", "writing"}

Ends(s, c, state) == to' = [to EXCEPT ![s][c] = state]

\* the portal drops the stream
Dropped(s, c) ==
  {IF stream[s][c].end = "open" THEN [stream EXCEPT ![s][c].end = end] ELSE stream :
     end \in {"eof", "reset"}}

\* get_raw_stream succeeds, and the collector starts to read a request
get_raw_stream(s, c) ==
  /\ Sending(s, c) /\ to[s][c] = "opening"
  /\ Ends(s, c, "writing")
  /\ stream' = [stream EXCEPT ![s][c].end = "open"]
  /\ serving' = serving \cup {<<s, c>>}
  /\ UNCHANGED <<listeners, batch, returned, decoded, events, received, v1>>

\* write_all, and close
write_all(s, c) ==
  /\ Sending(s, c) /\ to[s][c] = "writing"
  /\ stream[s][c].end = "open"
  /\ \/ /\ stream[s][c].n < batch[s][1] * RecordSize
        /\ stream' = [stream EXCEPT ![s][c].n = @ + 1]
        /\ UNCHANGED to
     \/ /\ stream[s][c].n = batch[s][1] * RecordSize
        /\ stream' = [stream EXCEPT ![s][c].end = "eof"]
        /\ Ends(s, c, "ok")
  /\ UNCHANGED <<listeners, batch, returned, collectorVars>>

\* mutant: sending to a listener ends only when a write fails
NoSendingTimeout(s, c) ==
  /\ Sending(s, c)
  /\ <<s, c>> \notin serving
  /\ Ends(s, c, "err")
  /\ stream' \in Dropped(s, c)
  /\ UNCHANGED <<listeners, batch, returned, collectorVars>>

\* connecting or writing fails, or log_sending_timeout is over
SendingFails(s, c) ==
  /\ Sending(s, c)
  /\ Ends(s, c, "err")
  /\ stream' \in Dropped(s, c)
  /\ UNCHANGED <<listeners, batch, returned, collectorVars>>

\* join_all: send_logs returns, and only warns of failures
publish_portal_logs(s) ==
  /\ batch[s] # <<>> /\ s \notin returned
  /\ \A c \in DOMAIN to[s] : ~Sending(s, c)
  /\ returned' = returned \cup {s}
  /\ UNCHANGED <<listeners, batch, to, stream, collectorVars>>

-----------------------------------------------------------------------------
(***************************************************************************)
(* The collectors                                                          *)
(***************************************************************************)

\* ServerBehaviour hands the request on; a failure is only logged
Request(c, request) == decoded' = [decoded EXCEPT ![c] = Append(@, request)]

\* mutant: at most max_req_size bytes are read, not one more
ReadRequestCut(s, c) ==
  /\ <<s, c>> \in serving
  /\ serving' = serving \ {<<s, c>>}
  /\ \/ /\ stream[s][c].end = "eof" \/ stream[s][c].n >= MaxMsgSize
        /\ stream[s][c].n % RecordSize = 0
        /\ Request(c, [v |-> 2, send |-> s,
                       records |-> IF stream[s][c].n > MaxMsgSize
                                   THEN MaxMsgSize \div RecordSize
                                   ELSE stream[s][c].n \div RecordSize])
     \/ UNCHANGED decoded
  /\ UNCHANGED <<portalVars, stream, events, received, v1>>

\* ProtoCodec::read_request: the records of a request that ended and is not too
\* long.  A request cut between two records decodes too.  Reading may also
\* fail, or time out (REQUEST_TIMEOUT).
read_request(s, c) ==
  /\ <<s, c>> \in serving
  /\ serving' = serving \ {<<s, c>>}
  /\ \/ /\ stream[s][c].end = "eof"
        /\ stream[s][c].n <= MaxMsgSize
        /\ stream[s][c].n % RecordSize = 0
        /\ Request(c, [v |-> 2, send |-> s, records |-> stream[s][c].n \div RecordSize])
     \/ UNCHANGED decoded
  /\ UNCHANGED <<portalVars, stream, events, received, v1>>

\* a portal of the previous version sends one record
V1Request(c) ==
  /\ v1 < MaxV1
  /\ v1' = v1 + 1
  /\ Request(c, [v |-> 1, send |-> "v1"])
  /\ UNCHANGED <<portalVars, stream, serving, events, received>>

\* one record, and all records of the request
on_collector_v1_request(request) == [send |-> request.send, records |-> 1]

on_collector_v2_request(request) == [send |-> request.send, records |-> request.records]

\* on_inner_event and on_swarm_event: the empty response is sent first, whether
\* or not somebody waits for it; send_lossy drops the event if the queue is full
on_inner_event(c) ==
  /\ decoded[c] # <<>>
  /\ decoded' = [decoded EXCEPT ![c] = Tail(@)]
  /\ LET request == Head(decoded[c])
         event == IF request.v = 1 THEN on_collector_v1_request(request)
                                   ELSE on_collector_v2_request(request)
     IN events' = IF Len(events[c]) < EventsQueue
                  THEN [events EXCEPT ![c] = Append(@, event)] ELSE events
  /\ UNCHANGED <<portalVars, stream, serving, received, v1>>

TakeEvent(c) ==
  /\ events[c] # <<>>
  /\ events' = [events EXCEPT ![c] = Tail(@)]
  /\ received' = [received EXCEPT ![c] = Append(@, Head(events[c]))]
  /\ UNCHANGED <<portalVars, stream, serving, decoded, v1>>

-----------------------------------------------------------------------------
LogsNext ==
  \/ \E found \in SUBSET LogCollectors : ListenersChange(found)
  \/ \E s \in Sends :
       \/ \E n \in 1..MaxRecords : send_logs(s, n)
       \/ publish_portal_logs(s)
       \/ \E c \in LogCollectors :
            get_raw_stream(s, c) \/ write_all(s, c) \/ SendingFails(s, c) \/ read_request(s, c)
  \/ \E c \in LogCollectors : V1Request(c) \/ on_inner_event(c) \/ TakeEvent(c)

LogsSpec == LogsInit /\ [][LogsNext]_logsVars

-----------------------------------------------------------------------------
(***************************************************************************)
(* Properties                                                              *)
(***************************************************************************)

Of(s, c) == {i \in DOMAIN received[c] : received[c][i].send = s}

\* A collector hands the logs of a call to its consumer once at most, and all
\* of them if the portal finished sending them to it: logs that are too long
\* for the collector are lost, not cut.  Of logs the portal gave up sending
\* (log_sending_timeout) it may hand on the first ones.
LogsWhole ==
  \A s \in Sends, c \in LogCollectors :
    /\ \A i, j \in Of(s, c) : i = j
    /\ \A i \in Of(s, c) :
         /\ c \in DOMAIN to[s]
         /\ received[c][i].records <= batch[s][1]
         /\ to[s][c] = "ok" => received[c][i].records = batch[s][1]

\* send_logs returns although some of its listeners are unreachable or do not
\* read (join_all of futures with a timeout each).
SendLogsReturns ==
  \A s \in Sends : batch[s] # <<>> ~> s \in returned
=============================================================================
