---------------------------- MODULE StreamShared ----------------------------
(***************************************************************************)
(* Opening outbound streams: the patched libp2p-stream behaviour           *)
(* (crates/transport/src/libp2p_stream).  Any number of tasks call         *)
(* Control::open_stream at the same time; each call takes the Shared lock  *)
(* once, to get the sender of a channel, and then works without it.  The   *)
(* swarm task takes the lock for each connection event, and every          *)
(* connection runs its Handler on a task of its own.                       *)
(*                                                                         *)
(* One action is one critical section, or one step taken without the lock. *)
(* The swarm (dials, connections) and stream negotiation are external.     *)
(***************************************************************************)
EXTENDS Naturals, Sequences, FiniteSets, Functions

CONSTANTS
  Peers,     \* the peers streams are opened to
  Conns,     \* bound: connections that can exist at a time
  Chans,     \* bound: (Sender, Receiver) pairs in use at a time
  Requests,  \* bound: calls of open_stream
  None       \* Option::None

ASSUME NoneAssumption == None \notin Peers \cup Conns \cup Chans \cup Requests

VARIABLES
  connections,       \* Shared::connections
  senders,           \* Shared::senders
  pending_channels,  \* Shared::pending_channels
  dial_queue,        \* the channel from Shared::dial_sender to Behaviour::dial_receiver
  behaviour,         \* "running", then "closed" and "dropped" (Behaviour::drop)
  messages,          \* the NewStream messages inside each channel
  receiver_of,       \* Handler::receiver of the live handler of a connection
  pending_upgrade,   \* Handler::pending_upgrade
  dialing,           \* swarm: the peers with a dial in flight
  established,       \* swarm: the peer of each established connection
  establishing,      \* swarm: the connection whose handler was just created
  state,             \* the progress of each open_stream call
  target,            \* its peer argument
  new_stream_sender  \* the channel it holds a sender of

sharedVars  == <<connections, senders, pending_channels>>
handlerVars == <<receiver_of, pending_upgrade>>
swarmVars   == <<dialing, established, establishing>>
callVars    == <<target, new_stream_sender>>
vars == <<sharedVars, dial_queue, behaviour, messages, handlerVars, swarmVars, state, callVars>>

TypeOK ==
  /\ connections \in [Conns -> Peers \cup {None}]
  /\ senders \in [Conns -> Chans \cup {None}]
  /\ pending_channels \in [Peers -> Chans \cup {None}]
  /\ dial_queue \in Seq(Peers)
  /\ behaviour \in {"running", "closed", "dropped"}
  /\ messages \in [Chans -> Seq(Requests)]
  /\ receiver_of \in [Conns -> Chans \cup {None}]
  /\ pending_upgrade \in [Conns -> Requests \cup {None}]
  /\ dialing \in SUBSET Peers
  /\ established \in [Conns -> Peers \cup {None}]
  /\ establishing \in Conns \cup {None}
  /\ state \in [Requests -> {"idle", "sending", "waiting", "ok", "err", "cancelled"}]
  /\ target \in [Requests -> Peers \cup {None}]
  /\ new_stream_sender \in [Requests -> Chans \cup {None}]

Init ==
  /\ connections = [c \in Conns |-> None]
  /\ senders = [c \in Conns |-> None]
  /\ pending_channels = [p \in Peers |-> None]
  /\ dial_queue = <<>>
  /\ behaviour = "running"
  /\ messages = [ch \in Chans |-> <<>>]
  /\ receiver_of = [c \in Conns |-> None]
  /\ pending_upgrade = [c \in Conns |-> None]
  /\ dialing = {}
  /\ established = [c \in Conns |-> None]
  /\ establishing = None
  /\ state = [r \in Requests |-> "idle"]
  /\ target = [r \in Requests |-> None]
  /\ new_stream_sender = [r \in Requests |-> None]

-----------------------------------------------------------------------------
(***************************************************************************)
(* Channels                                                                *)
(***************************************************************************)

\* the receiving end of ch exists: in pending_channels or in a handler
Open(ch) == ch \in Range(pending_channels) \cup Range(receiver_of)

Unused(ch) == ~Open(ch) /\ ch \notin Range(senders) \cup Range(new_stream_sender)

\* mpsc::channel(0) returns a pair nothing refers to; which one stands for it
\* makes no difference
Fresh(ch) == Unused(ch) /\ ch = CHOOSE unused \in Chans : Unused(unused)

\* the oneshot of every request in R is answered, or dropped (an error)
Answer(R, result) ==
  state' = [r \in Requests |-> IF r \in R /\ state[r] = "waiting" THEN result ELSE state[r]]

\* what the handler of c still owns when it is dropped
OwnedBy(c) ==
  {pending_upgrade[c]} \cup
  (IF receiver_of[c] = None THEN {} ELSE Range(messages[receiver_of[c]]))

-----------------------------------------------------------------------------
(***************************************************************************)
(* Control::open_stream                                                    *)
(***************************************************************************)

\* Shared::connected_sender: the sender of any connection to p, if it has one
connected_sender(p) ==
  LET conns == {c \in Conns : connections[c] = p}
  IN IF conns = {} THEN {None} ELSE {senders[c] : c \in conns}

\* mutant: a failed unbounded_send of the dial is ignored
OpenStreamIgnoresClosed(r, p) ==
  /\ state[r] = "idle"
  /\ target' = [target EXCEPT ![r] = p]
  /\ state' = [state EXCEPT ![r] = "sending"]
  /\ \E s \in connected_sender(p), ch \in Chans :
     \/ /\ ch = s \/ (s = None /\ ch = pending_channels[p])
        /\ new_stream_sender' = [new_stream_sender EXCEPT ![r] = ch]
        /\ UNCHANGED <<pending_channels, dial_queue>>
     \/ /\ s = None /\ pending_channels[p] = None
        /\ Fresh(ch)
        /\ new_stream_sender' = [new_stream_sender EXCEPT ![r] = ch]
        /\ pending_channels' = [pending_channels EXCEPT ![p] = ch]
        /\ dial_queue' = IF behaviour = "running" THEN Append(dial_queue, p) ELSE dial_queue
  /\ UNCHANGED <<connections, senders, behaviour, messages, handlerVars, swarmVars>>

\* the critical section of open_stream: Shared::sender
OpenStream(r, p) ==
  /\ state[r] = "idle"
  /\ target' = [target EXCEPT ![r] = p]
  /\ \E s \in connected_sender(p) :
     \/ /\ s # None                                \* existing connection
        /\ new_stream_sender' = [new_stream_sender EXCEPT ![r] = s]
        /\ state' = [state EXCEPT ![r] = "sending"]
        /\ UNCHANGED <<pending_channels, dial_queue>>
     \/ /\ s = None /\ pending_channels[p] # None  \* pending connection
        /\ new_stream_sender' = [new_stream_sender EXCEPT ![r] = pending_channels[p]]
        /\ state' = [state EXCEPT ![r] = "sending"]
        /\ UNCHANGED <<pending_channels, dial_queue>>
     \/ /\ s = None /\ pending_channels[p] = None  \* not connected: dial
        /\ behaviour = "running"
        /\ dial_queue' = Append(dial_queue, p)
        /\ \E ch \in Chans :
             /\ Fresh(ch)
             /\ pending_channels' = [pending_channels EXCEPT ![p] = ch]
             /\ new_stream_sender' = [new_stream_sender EXCEPT ![r] = ch]
        /\ state' = [state EXCEPT ![r] = "sending"]
     \/ /\ s = None /\ pending_channels[p] = None  \* dial_sender is closed
        /\ behaviour # "running"
        /\ state' = [state EXCEPT ![r] = "err"]
        /\ UNCHANGED <<pending_channels, dial_queue, new_stream_sender>>
  /\ UNCHANGED <<connections, senders, behaviour, messages, handlerVars, swarmVars>>

\* the message goes into the channel (each sender has a slot of its own), or
\* the receiving end is gone: ConnectionReset
Send(r) ==
  /\ state[r] = "sending"
  /\ LET ch == new_stream_sender[r] IN
     IF Open(ch)
     THEN /\ messages' = [messages EXCEPT ![ch] = Append(@, r)]
          /\ state' = [state EXCEPT ![r] = "waiting"]
     ELSE /\ state' = [state EXCEPT ![r] = "err"]
          /\ UNCHANGED messages
  /\ new_stream_sender' = [new_stream_sender EXCEPT ![r] = None]
  /\ UNCHANGED <<sharedVars, dial_queue, behaviour, handlerVars, swarmVars, target>>

\* the caller drops the open_stream future (StreamClientHandle's timeout)
Cancel(r) ==
  /\ state[r] \in {"sending", "waiting"}
  /\ state' = [state EXCEPT ![r] = "cancelled"]
  /\ new_stream_sender' = [new_stream_sender EXCEPT ![r] = None]
  /\ UNCHANGED <<sharedVars, dial_queue, behaviour, messages, handlerVars, swarmVars, target>>

-----------------------------------------------------------------------------
(***************************************************************************)
(* Dials.  The swarm task runs one event at a time, so no event is handled *)
(* between a connection's handler being created and its                    *)
(* ConnectionEstablished; callers and handlers do run in between.          *)
(***************************************************************************)

SwarmIdle == behaviour = "running" /\ establishing = None

Connected(p) == p \in Range(established)

on_dial_failure(p) ==
  LET ch == pending_channels[p] IN
  IF ch = None
  THEN UNCHANGED <<pending_channels, messages, state>>
  ELSE /\ pending_channels' = [pending_channels EXCEPT ![p] = None]
       /\ messages' = [messages EXCEPT ![ch] = <<>>]
       /\ Answer(Range(messages[ch]), "err")

\* mutant: a skipped dial is ignored, as before the patch
SkipIgnored(p) == UNCHANGED <<pending_channels, messages, state>>

\* mutant: the requests are forwarded but the pending channel is kept
SkipKeepsChannel(p) ==
  \E s \in connected_sender(p) :
    /\ messages' = IF s = None \/ pending_channels[p] = None \/ ~Open(s)
                   THEN messages
                   ELSE [messages EXCEPT ![s] = @ \o messages[pending_channels[p]]]
    /\ UNCHANGED <<pending_channels, state>>

\* requests that raced a new connection are handed to it; try_send fails only
\* if its handler is gone
on_dial_skipped(p) ==
  LET ch == pending_channels[p] IN
  \E s \in connected_sender(p) :
    \/ /\ s = None \/ ch = None
       /\ UNCHANGED <<pending_channels, messages, state>>
    \/ /\ s # None /\ ch # None
       /\ pending_channels' = [pending_channels EXCEPT ![p] = None]
       /\ IF Open(s)
          THEN /\ messages' = [messages EXCEPT ![s] = @ \o messages[ch], ![ch] = <<>>]
               /\ UNCHANGED state
          ELSE /\ messages' = [messages EXCEPT ![ch] = <<>>]
               /\ Answer(Range(messages[ch]), "err")

\* Swarm::dial: skipped, failed at once (NoAddresses, Denied), or started.  A
\* NotDialing dial is not skipped for a connected peer.
Dial(p, skip_connected) ==
  \/ /\ p \in dialing \/ (skip_connected /\ Connected(p))
     /\ on_dial_skipped(p)
     /\ UNCHANGED dialing
  \/ /\ p \notin dialing /\ ~(skip_connected /\ Connected(p))
     /\ on_dial_failure(p)
     /\ UNCHANGED dialing
  \/ /\ p \notin dialing /\ ~(skip_connected /\ Connected(p))
     /\ dialing' = dialing \cup {p}
     /\ UNCHANGED <<pending_channels, messages, state>>

\* Behaviour::poll, and the dial it asks for
PollDial ==
  /\ SwarmIdle
  /\ dial_queue # <<>>
  /\ dial_queue' = Tail(dial_queue)
  /\ Dial(Head(dial_queue), TRUE)
  /\ UNCHANGED <<connections, senders, behaviour, handlerVars, established, establishing, callVars>>

\* BaseBehaviour or Kademlia dials p, with either condition
OtherDial(p) ==
  /\ SwarmIdle
  /\ \E skip_connected \in BOOLEAN : Dial(p, skip_connected)
  /\ UNCHANGED <<connections, senders, dial_queue, behaviour, handlerVars, established,
                 establishing, callVars>>

\* Transport, Denied, Aborted, WrongPeerId...
DialFailed(p) ==
  /\ SwarmIdle
  /\ p \in dialing
  /\ dialing' = dialing \ {p}
  /\ on_dial_failure(p)
  /\ UNCHANGED <<connections, senders, dial_queue, behaviour, handlerVars, established,
                 establishing, callVars>>

-----------------------------------------------------------------------------
(***************************************************************************)
(* Connections                                                             *)
(***************************************************************************)

\* Shared::receiver, called by handle_established_*_connection
receiver(p, c) ==
  \E ch \in Chans :
    /\ \/ pending_channels[p] = ch
       \/ pending_channels[p] = None /\ Fresh(ch)
    /\ pending_channels' = [pending_channels EXCEPT ![p] = None]
    /\ senders' = [senders EXCEPT ![c] = ch]
    /\ receiver_of' = [receiver_of EXCEPT ![c] = ch]

NewConnection(p, c) ==
  /\ SwarmIdle
  /\ established[c] = None /\ senders[c] = None
  /\ receiver(p, c)
  /\ established' = [established EXCEPT ![c] = p]
  /\ establishing' = c
  /\ UNCHANGED <<connections, dial_queue, behaviour, messages, pending_upgrade, state, callVars>>

DialSucceeded(p, c) ==
  /\ p \in dialing
  /\ dialing' = dialing \ {p}
  /\ NewConnection(p, c)

Inbound(p, c) ==
  /\ NewConnection(p, c)
  /\ UNCHANGED dialing

on_connection_established ==
  /\ establishing # None
  /\ connections' = [connections EXCEPT ![establishing] = established[establishing]]
  /\ establishing' = None
  /\ UNCHANGED <<senders, pending_channels, dial_queue, behaviour, messages, handlerVars,
                 dialing, established, state, callVars>>

\* mutant: the request being negotiated outlives its handler
HandlerDroppedKeepsUpgrade(c) ==
  LET ch == receiver_of[c] IN
  /\ ch # None
  /\ Answer(Range(messages[ch]), "err")
  /\ messages' = [messages EXCEPT ![ch] = <<>>]
  /\ receiver_of' = [receiver_of EXCEPT ![c] = None]
  /\ UNCHANGED <<sharedVars, dial_queue, behaviour, pending_upgrade, swarmVars, callVars>>

\* the connection's task ends and drops its handler, before the swarm knows
HandlerDropped(c) ==
  LET ch == receiver_of[c] IN
  /\ ch # None
  /\ Answer(OwnedBy(c), "err")
  /\ messages' = [messages EXCEPT ![ch] = <<>>]
  /\ receiver_of' = [receiver_of EXCEPT ![c] = None]
  /\ pending_upgrade' = [pending_upgrade EXCEPT ![c] = None]
  /\ UNCHANGED <<sharedVars, dial_queue, behaviour, swarmVars, callVars>>

\* mutant: the sender of a closed connection is kept, as before the patch
ClosedKeepsSender(c) ==
  /\ SwarmIdle
  /\ established[c] # None /\ receiver_of[c] = None
  /\ established' = [established EXCEPT ![c] = None]
  /\ connections' = [connections EXCEPT ![c] = None]
  /\ UNCHANGED <<senders, pending_channels, dial_queue, behaviour, messages, handlerVars,
                 dialing, establishing, state, callVars>>

on_connection_closed(c) ==
  /\ SwarmIdle
  /\ established[c] # None /\ receiver_of[c] = None
  /\ established' = [established EXCEPT ![c] = None]
  /\ connections' = [connections EXCEPT ![c] = None]
  /\ senders' = [senders EXCEPT ![c] = None]
  /\ UNCHANGED <<pending_channels, dial_queue, behaviour, messages, handlerVars, dialing,
                 establishing, state, callVars>>

-----------------------------------------------------------------------------
(***************************************************************************)
(* Handler                                                                 *)
(***************************************************************************)

\* Handler::poll takes one request at a time
HandlerPoll(c) ==
  LET ch == receiver_of[c] IN
  /\ ch # None
  /\ pending_upgrade[c] = None
  /\ messages[ch] # <<>>
  /\ pending_upgrade' = [pending_upgrade EXCEPT ![c] = Head(messages[ch])]
  /\ messages' = [messages EXCEPT ![ch] = Tail(@)]
  /\ UNCHANGED <<sharedVars, dial_queue, behaviour, receiver_of, swarmVars, state, callVars>>

\* FullyNegotiatedOutbound or DialUpgradeError
UpgradeDone(c) ==
  /\ pending_upgrade[c] # None
  /\ \E result \in {"ok", "err"} : Answer({pending_upgrade[c]}, result)
  /\ pending_upgrade' = [pending_upgrade EXCEPT ![c] = None]
  /\ UNCHANGED <<sharedVars, dial_queue, behaviour, messages, receiver_of, swarmVars, callVars>>

-----------------------------------------------------------------------------
(***************************************************************************)
(* Behaviour::drop: the swarm shuts down.  Close first, then clear.        *)
(***************************************************************************)

DropClose ==
  /\ SwarmIdle
  /\ behaviour' = "closed"
  /\ UNCHANGED <<sharedVars, dial_queue, messages, handlerVars, swarmVars, state, callVars>>

\* on_behaviour_dropped; the dials still queued go with the receiver
DropClear ==
  LET chans == Range(pending_channels) \ {None} IN
  /\ behaviour = "closed"
  /\ behaviour' = "dropped"
  /\ dial_queue' = <<>>
  /\ pending_channels' = [p \in Peers |-> None]
  /\ messages' = [ch \in Chans |-> IF ch \in chans THEN <<>> ELSE messages[ch]]
  /\ Answer(UNION {Range(messages[ch]) : ch \in chans}, "err")
  /\ UNCHANGED <<connections, senders, handlerVars, swarmVars, callVars>>

-----------------------------------------------------------------------------
Next ==
  \/ \E r \in Requests : (\E p \in Peers : OpenStream(r, p)) \/ Send(r) \/ Cancel(r)
  \/ PollDial
  \/ \E p \in Peers : OtherDial(p) \/ DialFailed(p)
  \/ \E p \in Peers, c \in Conns : DialSucceeded(p, c) \/ Inbound(p, c)
  \/ on_connection_established
  \/ \E c \in Conns : HandlerDropped(c) \/ on_connection_closed(c) \/ HandlerPoll(c) \/ UpgradeDone(c)
  \/ DropClose \/ DropClear

Spec == Init /\ [][Next]_vars

(***************************************************************************)
(* Fairness.  Callers, the swarm task and the connections' tasks keep      *)
(* running, a dial ends within the transport's timeout, a negotiation      *)
(* within the swarm's substream upgrade timeout, and a dropped swarm takes *)
(* its connections with it.  The swarm polls its behaviours and the ended  *)
(* dials between any two connection events, so a churn of other            *)
(* connections does not starve them: strong fairness.                      *)
(***************************************************************************)
DialResolves(p) == DialFailed(p) \/ \E c \in Conns : DialSucceeded(p, c)

Fairness ==
  /\ \A r \in Requests : WF_vars(Send(r))
  /\ SF_vars(PollDial) /\ WF_vars(on_connection_established) /\ WF_vars(DropClear)
  /\ \A p \in Peers : SF_vars(DialResolves(p))
  /\ \A c \in Conns : /\ WF_vars(HandlerPoll(c)) /\ WF_vars(UpgradeDone(c))
                      /\ WF_vars(behaviour = "dropped" /\ HandlerDropped(c))

FairSpec == Spec /\ Fairness

-----------------------------------------------------------------------------
(***************************************************************************)
(* Properties                                                              *)
(***************************************************************************)

\* "A dial in flight resolves the pending channel itself; a connected peer
\* means the request raced the new connection, and nothing else would ever
\* take that channel." (shared.rs:122): while the behaviour runs, every
\* pending channel has a dial queued or in flight that will take or fail it,
\* and once the behaviour is dropped there is no pending channel.
PendingIsServed ==
  \A p \in Peers :
    pending_channels[p] # None =>
      \/ behaviour = "running" /\ (p \in Range(dial_queue) \/ p \in dialing)
      \/ behaviour = "closed"

\* the channels and handlers a request's NewStream message is in
Holders(r) ==
  {ch \in Chans : r \in Range(messages[ch])} \cup {c \in Conns : pending_upgrade[c] = r}

Waiting(r) == state[r] \in {"sending", "waiting"}

\* A request waits for its answer exactly while one channel with a live
\* receiver, or one handler, holds its message: the hand-overs of Shared and
\* Handler neither lose a message nor copy it, so no call hangs on a message
\* that is gone and none is answered twice.  A handler only ever holds requests
\* for the peer it is connected to, even when a pending channel is taken by a
\* connection nobody asked for: an opened stream leads to the peer the caller
\* named.
HeldOnce ==
  /\ \A ch \in Chans : /\ messages[ch] # <<>> => Open(ch)
                       /\ IsInjective(messages[ch])
  /\ \A r \in Requests : /\ Cardinality(Holders(r)) <= 1
                         /\ state[r] = "waiting" => Holders(r) # {}
                         /\ Holders(r) # {} => state[r] \in {"waiting", "cancelled"}
  /\ \A c \in Conns, r \in Requests :
       \/ r = pending_upgrade[c]
       \/ receiver_of[c] # None /\ r \in Range(messages[receiver_of[c]])
       => target[r] = established[c]

\* The patches of this behaviour prevent "an unbounded connection-churn leak"
\* (libp2p_stream/mod.rs): Shared holds a sender for exactly the connections
\* the swarm has.
NoSenderLeak ==
  \A c \in Conns : senders[c] # None <=> established[c] # None

\* The patches also "prevent hung `open_stream` calls": every call returns,
\* whatever dials fail, connections close or race it, and when the behaviour
\* is dropped.
OpenStreamReturns ==
  \A r \in Requests : Waiting(r) ~> ~Waiting(r)
=============================================================================
