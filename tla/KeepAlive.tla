----------------------------- MODULE KeepAlive -----------------------------
(***************************************************************************)
(* How idle connections are kept: KeepAliveBehaviour                       *)
(* (crates/transport/src/behaviour/keep_alive.rs) of several clients, some *)
(* in client mode, and of one server they connect to, with the inbound     *)
(* side of libp2p_stream.  A client opens a stream per connection and      *)
(* reads from it; the server takes the streams from a channel with one     *)
(* slot and reads from them; neither ever writes.  StreamShared models how *)
(* open_stream finds a connection; here it picks one or dials.             *)
(***************************************************************************)
EXTENDS Naturals, Sequences

CONSTANTS
  Clients,
  Conns,      \* bound: the connections ever made
  MaxFails    \* bound: the connections lost

VARIABLES
  active,    \* the clients in client mode (keep_all_connections_alive)
  conn,      \* per connection: "new", "live" or "closed"
  client,    \* per connection: the client it is of
  opener,    \* per connection: the task spawned when it was established
  on,        \* per task: the connections of its stream, none or one
  end,       \* per task: the server's end of its stream
  incoming,  \* the channel of IncomingStreams
  fails

keepVars == <<active, conn, client, opener, on, end, incoming, fails>>

KeepInit ==
  /\ active \in SUBSET Clients
  /\ conn = [m \in Conns |-> "new"]
  /\ client = [m \in Conns |-> CHOOSE c \in Clients : TRUE]
  /\ opener = [m \in Conns |-> "none"]
  /\ on = [m \in Conns |-> {}]
  /\ end = [m \in Conns |-> "none"]
  /\ incoming = <<>>
  /\ fails = 0

Live(c) == {m \in Conns : conn[m] = "live" /\ client[m] = c}

Lost(n) == \E m \in on[n] : conn[m] = "closed"

-----------------------------------------------------------------------------
(***************************************************************************)
(* The clients                                                             *)
(***************************************************************************)

\* the task that ensure_keep_alive spawns in client mode
ensure_keep_alive(c) == IF c \in active THEN "opening" ELSE "none"

\* on_swarm_event(ConnectionEstablished); the new connection also gets the
\* streams that waited for a dial
ConnectionEstablished(m, c) ==
  /\ conn[m] = "new"
  /\ conn' = [conn EXCEPT ![m] = "live"]
  /\ client' = [client EXCEPT ![m] = c]
  /\ LET waits(n) == opener[n] = "dialing" /\ client[n] = c IN
     /\ opener' = [n \in Conns |-> IF n = m THEN ensure_keep_alive(c)
                                   ELSE IF waits(n) THEN "asked" ELSE opener[n]]
     /\ on' = [n \in Conns |-> IF waits(n) THEN {m} ELSE on[n]]
  /\ UNCHANGED <<active, end, incoming, fails>>

\* any connection to the peer, not always the one the task was spawned for; a
\* peer that is not connected any more is dialed again
open_stream(n) ==
  /\ opener[n] = "opening"
  /\ \/ /\ Live(client[n]) = {}
        /\ opener' = [opener EXCEPT ![n] = "dialing"]
        /\ UNCHANGED on
     \/ \E m \in Live(client[n]) :
          /\ opener' = [opener EXCEPT ![n] = "asked"]
          /\ on' = [on EXCEPT ![n] = {m}]
  /\ UNCHANGED <<active, conn, client, end, incoming, fails>>

\* the task is over: the dial or the negotiation failed or timed out, or the
\* read returned as the other end or the connection is gone
OpenerEnds(n) ==
  /\ \/ opener[n] \in {"dialing", "asked"}
     \/ opener[n] = "reading" /\ (end[n] = "dropped" \/ Lost(n))
  /\ opener' = [opener EXCEPT ![n] = "ended"]
  /\ UNCHANGED <<active, conn, client, on, end, incoming, fails>>

-----------------------------------------------------------------------------
(***************************************************************************)
(* The server                                                              *)
(***************************************************************************)

\* the stream is negotiated; one that finds the channel full is dropped
on_inbound_stream(n) ==
  /\ opener[n] = "asked" /\ ~Lost(n)
  /\ opener' = [opener EXCEPT ![n] = "reading"]
  /\ \/ /\ Len(incoming) = 0
        /\ incoming' = Append(incoming, n)
        /\ end' = [end EXCEPT ![n] = "queued"]
     \/ /\ Len(incoming) > 0
        /\ end' = [end EXCEPT ![n] = "dropped"]
        /\ UNCHANGED incoming
  /\ UNCHANGED <<active, conn, client, on, fails>>

\* mutant: the accepted stream is not read, and so dropped
PollDropsStream ==
  /\ incoming # <<>>
  /\ incoming' = Tail(incoming)
  /\ end' = [end EXCEPT ![Head(incoming)] = "dropped"]
  /\ UNCHANGED <<active, conn, client, opener, on, fails>>

\* poll: a task of its own reads the stream
poll ==
  /\ incoming # <<>>
  /\ incoming' = Tail(incoming)
  /\ end' = [end EXCEPT ![Head(incoming)] = "held"]
  /\ UNCHANGED <<active, conn, client, opener, on, fails>>

\* its read returns, and the stream is dropped
ReadReturns(n) ==
  /\ end[n] = "held" /\ (opener[n] = "ended" \/ Lost(n))
  /\ end' = [end EXCEPT ![n] = "dropped"]
  /\ UNCHANGED <<active, conn, client, opener, on, incoming, fails>>

-----------------------------------------------------------------------------
(***************************************************************************)
(* The swarms                                                              *)
(***************************************************************************)

\* the connection has no stream on one side, for as long as the idle timeout
Idle(m) ==
  \/ \A n \in Conns : m \in on[n] => opener[n] = "ended"
  \/ \A n \in Conns : m \in on[n] => end[n] \in {"none", "dropped"}

IdleTimeout(m) ==
  /\ conn[m] = "live" /\ Idle(m)
  /\ conn' = [conn EXCEPT ![m] = "closed"]
  /\ UNCHANGED <<active, client, opener, on, end, incoming, fails>>

Fails(m) ==
  /\ conn[m] = "live" /\ fails < MaxFails
  /\ conn' = [conn EXCEPT ![m] = "closed"]
  /\ fails' = fails + 1
  /\ UNCHANGED <<active, client, opener, on, end, incoming>>

KeepNext ==
  \/ \E m \in Conns :
       \/ \E c \in Clients : ConnectionEstablished(m, c)
       \/ open_stream(m) \/ OpenerEnds(m) \/ on_inbound_stream(m) \/ ReadReturns(m)
       \/ IdleTimeout(m) \/ Fails(m)
  \/ poll

KeepSpec == KeepInit /\ [][KeepNext]_keepVars

-----------------------------------------------------------------------------
(***************************************************************************)
(* Properties                                                              *)
(***************************************************************************)

Streams(m, ends) == {n \in Conns : m \in on[n] /\ opener[n] = "reading" /\ end[n] \in ends}

\* a connection with a stream that found a slot in the server's channel stays,
\* with such a stream, unless it fails
StreamKeepsConnection ==
  \A m \in Conns : conn[m] = "live" /\ Streams(m, {"queued", "held"}) # {} =>
    \/ conn'[m] = "live" /\ Streams(m, {"queued", "held"})' # {}
    \/ fails' > fails

\* "This prevents the connection from being closed due to idle timeout"
\* (keep_alive.rs:17): a connection with a stream that found a slot in the
\* server's channel stays, unless it fails, and every connection gets there or
\* is closed: one whose stream was dropped in a burst, or was opened on another
\* connection to the peer, does not linger.
KeptAlive ==
  /\ [][StreamKeepsConnection]_keepVars
  /\ \A m \in Conns : conn[m] = "live" ~> conn[m] = "closed" \/ Streams(m, {"held"}) # {}
=============================================================================
