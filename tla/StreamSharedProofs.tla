-------------------------- MODULE StreamSharedProofs --------------------------
(***************************************************************************)
(* Proofs about StreamShared, for any number of peers, connections,        *)
(* channels and concurrent calls: no pending channel is left without a     *)
(* dial, Shared keeps a sender for exactly the live connections, a request *)
(* of open_stream is held in exactly one channel or handler, which leads   *)
(* to its peer, and Shared, the handlers and the swarm together implement  *)
(* the safety part of OpenStreamApi.                                       *)
(***************************************************************************)
EXTENDS StreamShared, StreamSharedApi, TLAPS

-----------------------------------------------------------------------------
(***************************************************************************)
(* Queues kept in sequences (VecDeque, DelayQueue, channels)               *)
(***************************************************************************)

\* Pushing to the back of a queue adds the element and keeps the queue free
\* of duplicates if the element was not in it (push_back, DelayQueue::insert).
LEMMA AppendFacts ==
  ASSUME NEW S, NEW s \in Seq(S), NEW x \in S
  PROVE  /\ Append(s, x) \in Seq(S)
         /\ Range(Append(s, x)) = Range(s) \cup {x}
         /\ IsInjective(s) /\ x \notin Range(s) => IsInjective(Append(s, x))
<1>1. Append(s, x) \in Seq(S)
  OBVIOUS
<1>2. /\ Len(s) \in Nat /\ DOMAIN s = 1..Len(s)
      /\ DOMAIN Append(s, x) = 1..(Len(s) + 1)
      /\ \A i \in 1..Len(s) : Append(s, x)[i] = s[i]
      /\ Append(s, x)[Len(s) + 1] = x
  OBVIOUS
<1>3. Range(Append(s, x)) = Range(s) \cup {x}
  <2>1. Len(s) + 1 \in DOMAIN Append(s, x) /\ DOMAIN s \subseteq DOMAIN Append(s, x)
    BY <1>2
  <2>2. \A i \in DOMAIN Append(s, x) : i \in DOMAIN s \/ i = Len(s) + 1
    BY <1>2
  <2> QED
    BY <1>2, <2>1, <2>2 DEF Range
<1>4. ASSUME IsInjective(s), x \notin Range(s)
      PROVE  IsInjective(Append(s, x))
  BY <1>2, <1>4 DEF Range, IsInjective
<1> QED
  BY <1>1, <1>3, <1>4

\* Taking the front of a queue removes that element and no other (pop_front,
\* poll_expired).
LEMMA TailFacts ==
  ASSUME NEW S, NEW s \in Seq(S), s # <<>>
  PROVE  /\ Tail(s) \in Seq(S)
         /\ Head(s) \in S
         /\ Range(s) = {Head(s)} \cup Range(Tail(s))
         /\ IsInjective(s) => IsInjective(Tail(s)) /\ Head(s) \notin Range(Tail(s))
<1>1. Tail(s) \in Seq(S) /\ Head(s) \in S
  OBVIOUS
<1>2. /\ Len(s) \in Nat \ {0}
      /\ DOMAIN s = 1..Len(s)
      /\ DOMAIN Tail(s) = 1..(Len(s) - 1)
      /\ \A i \in 1..(Len(s) - 1) : Tail(s)[i] = s[i + 1]
      /\ Head(s) = s[1]
  OBVIOUS
<1>3. Range(s) = {Head(s)} \cup Range(Tail(s))
  <2>1. ASSUME NEW i \in 1..Len(s)
        PROVE  s[i] \in {Head(s)} \cup Range(Tail(s))
    <3>1. CASE i = 1
      BY <1>2, <3>1
    <3>2. CASE i # 1
      <4>1. i - 1 \in 1..(Len(s) - 1) /\ Tail(s)[i - 1] = s[i]
        BY <1>2, <3>2
      <4> QED
        BY <4>1, <1>2, Zenon DEF Range
    <3> QED
      BY <3>1, <3>2
  <2>2. ASSUME NEW i \in 1..(Len(s) - 1)
        PROVE  Tail(s)[i] \in Range(s)
    BY <1>2 DEF Range
  <2>3. Head(s) \in Range(s)
    BY <1>2 DEF Range
  <2> QED
    BY <2>1, <2>2, <2>3, <1>2 DEF Range
<1>4. ASSUME IsInjective(s)
      PROVE  IsInjective(Tail(s)) /\ Head(s) \notin Range(Tail(s))
  BY <1>2, <1>4 DEF IsInjective, Range
<1> QED
  BY <1>1, <1>3, <1>4

\* Appending one queue to another (the sweep of on_nodes_update).
LEMMA ConcatFacts ==
  ASSUME NEW S, NEW s \in Seq(S), NEW t \in Seq(S)
  PROVE  /\ s \o t \in Seq(S)
         /\ Range(s \o t) = Range(s) \cup Range(t)
         /\ IsInjective(s) /\ IsInjective(t) /\ Range(s) \cap Range(t) = {}
              => IsInjective(s \o t)
<1>1. s \o t \in Seq(S)
  OBVIOUS
<1>2. /\ Len(s) \in Nat /\ Len(t) \in Nat
      /\ DOMAIN s = 1..Len(s) /\ DOMAIN t = 1..Len(t)
      /\ DOMAIN (s \o t) = 1..(Len(s) + Len(t))
      /\ \A i \in 1..(Len(s) + Len(t)) :
           (s \o t)[i] = IF i <= Len(s) THEN s[i] ELSE t[i - Len(s)]
  OBVIOUS
<1>3. Range(s \o t) = Range(s) \cup Range(t)
  <2>1. ASSUME NEW i \in 1..(Len(s) + Len(t))
        PROVE  (s \o t)[i] \in Range(s) \cup Range(t)
    <3>1. CASE i <= Len(s)
      BY <1>2, <3>1 DEF Range
    <3>2. CASE ~(i <= Len(s))
      <4>1. i - Len(s) \in 1..Len(t) /\ (s \o t)[i] = t[i - Len(s)]
        BY <1>2, <3>2
      <4> QED
        BY <4>1, <1>2 DEF Range
    <3> QED
      BY <3>1, <3>2
  <2>2. ASSUME NEW i \in 1..Len(s)
        PROVE  s[i] \in Range(s \o t)
    <3>1. i \in 1..(Len(s) + Len(t)) /\ (s \o t)[i] = s[i]
      BY <1>2
    <3> QED
      BY <3>1, <1>2 DEF Range
  <2>3. ASSUME NEW i \in 1..Len(t)
        PROVE  t[i] \in Range(s \o t)
    <3>1. i + Len(s) \in 1..(Len(s) + Len(t)) /\ (s \o t)[i + Len(s)] = t[i]
      BY <1>2
    <3> QED
      BY <3>1, <1>2, Zenon DEF Range
  <2> QED
    BY <2>1, <2>2, <2>3, <1>2, Zenon DEF Range
<1>4. ASSUME IsInjective(s), IsInjective(t), Range(s) \cap Range(t) = {},
             NEW i \in 1..(Len(s) + Len(t)), NEW j \in 1..(Len(s) + Len(t)), i # j
      PROVE  (s \o t)[i] # (s \o t)[j]
  <2>1. \A k \in 1..Len(s), m \in 1..Len(t) : s[k] # t[m]
    BY <1>2, <1>4, Zenon DEF Range
  <2>2. CASE i <= Len(s) /\ j <= Len(s)
    BY <1>2, <1>4, <2>2 DEF IsInjective
  <2>3. CASE i <= Len(s) /\ ~(j <= Len(s))
    BY <1>2, <2>1, <2>3
  <2>4. CASE ~(i <= Len(s)) /\ j <= Len(s)
    BY <1>2, <2>1, <2>4
  <2>5. CASE ~(i <= Len(s)) /\ ~(j <= Len(s))
    <3>1. /\ i - Len(s) \in 1..Len(t) /\ j - Len(s) \in 1..Len(t)
          /\ i - Len(s) # j - Len(s)
          /\ (s \o t)[i] = t[i - Len(s)] /\ (s \o t)[j] = t[j - Len(s)]
      BY <1>2, <1>4, <2>5
    <3> QED
      BY <1>2, <1>4, <3>1 DEF IsInjective
  <2> QED
    BY <2>2, <2>3, <2>4, <2>5
<1> QED
  BY <1>1, <1>2, <1>3, <1>4 DEF IsInjective

-----------------------------------------------------------------------------
\* Shared::connections is what the swarm has, except for the connection whose
\* ConnectionEstablished is still to come.
ConnectionsKnown ==
  \A c \in Conns :
    /\ connections[c] # None => connections[c] = established[c]
    /\ established[c] # None /\ c # establishing => connections[c] = established[c]

SharedInv ==
  /\ TypeOK
  /\ ConnectionsKnown
  /\ NoSenderLeak
  /\ PendingIsServed

-----------------------------------------------------------------------------
(***************************************************************************)
(* Who holds a request: the invariant behind HeldOnce.  A channel has one  *)
(* receiving end, kept with the peer or the connection its requests are    *)
(* for; a request is in one channel or handler.                            *)
(***************************************************************************)

\* a channel is pending for one peer or belongs to one connection
ChannelsOwned ==
  /\ \A p, q \in Peers :
       pending_channels[p] # None /\ pending_channels[p] = pending_channels[q] => p = q
  /\ \A c, d \in Conns : senders[c] # None /\ senders[c] = senders[d] => c = d
  /\ \A p \in Peers, c \in Conns :
       pending_channels[p] # None => pending_channels[p] # senders[c]
  /\ \A c \in Conns : receiver_of[c] # None => senders[c] = receiver_of[c]
  /\ \A c \in Conns : pending_upgrade[c] # None => receiver_of[c] # None

\* the NewStream message of r is in channel ch
In(r, ch) == r \in Range(messages[ch])

HasReceiver(ch) ==
  (\E p \in Peers : pending_channels[p] = ch) \/ (\E c \in Conns : receiver_of[c] = ch)

\* no message is in a channel without receiver, or twice
MessagesOnce ==
  /\ \A ch \in Chans : messages[ch] # <<>> => HasReceiver(ch)
  /\ \A ch \in Chans : IsInjective(messages[ch])
  /\ \A r \in Requests, ch, ch2 \in Chans : In(r, ch) /\ In(r, ch2) => ch = ch2
  /\ \A r \in Requests, c \in Conns, ch \in Chans : pending_upgrade[c] = r => ~In(r, ch)
  /\ \A r \in Requests, c, d \in Conns : pending_upgrade[c] = r /\ pending_upgrade[d] = r => c = d

HasHolder(r) == (\E ch \in Chans : In(r, ch)) \/ (\E c \in Conns : pending_upgrade[c] = r)

\* a call knows a sender until it sends, and waits only for a message that is held
CallStates ==
  \A r \in Requests :
    /\ state[r] = "waiting" => HasHolder(r)
    /\ HasHolder(r) => state[r] \in {"waiting", "cancelled"}
    /\ new_stream_sender[r] # None <=> state[r] = "sending"

\* a request is only in, or about to be sent into, channels of its own peer
Targets ==
  /\ \A r \in Requests, p \in Peers :
       /\ pending_channels[p] # None
       /\ In(r, pending_channels[p]) \/ new_stream_sender[r] = pending_channels[p]
       => target[r] = p
  /\ \A r \in Requests, c \in Conns :
       /\ receiver_of[c] # None
       /\ In(r, receiver_of[c]) \/ new_stream_sender[r] = receiver_of[c]
       => target[r] = established[c]
  /\ \A r \in Requests, c \in Conns : pending_upgrade[c] = r => target[r] = established[c]

HeldInv == ChannelsOwned /\ MessagesOnce /\ CallStates /\ Targets

\* A channel is open if it has a receiver.
LEMMA OpenIff ==
  ASSUME TypeOK
  PROVE  \A ch \in Chans : Open(ch) <=> HasReceiver(ch)
BY DEF Open, HasReceiver, Range, TypeOK

\* An empty channel holds no message.
LEMMA EmptyHasNone == \A x : x \notin Range(<<>>)
BY DEF Range

\* The sender of a connection leads to the handler of that connection: nobody
\* else can have its receiver.
LEMMA SenderLeadsHome ==
  ASSUME TypeOK, ChannelsOwned, NEW c \in Conns, senders[c] # None
  PROVE  /\ \A d \in Conns : receiver_of[d] = senders[c] => d = c
         /\ \A p \in Peers : pending_channels[p] # senders[c]
         /\ Open(senders[c]) => receiver_of[c] = senders[c]
<1> USE NoneAssumption
<1>1. senders[c] \in Chans
  BY DEF TypeOK
<1>2. \A d \in Conns : receiver_of[d] = senders[c] => d = c
  BY <1>1 DEF ChannelsOwned
<1>3. \A p \in Peers : pending_channels[p] # senders[c]
  BY <1>1 DEF ChannelsOwned
<1> QED
  BY <1>1, <1>2, <1>3, OpenIff DEF HasReceiver

\* A channel nothing refers to is empty and belongs to nobody.
LEMMA FreshFacts ==
  ASSUME TypeOK, MessagesOnce, NEW ch \in Chans, Fresh(ch)
  PROVE  /\ messages[ch] = <<>>
         /\ \A p \in Peers : pending_channels[p] # ch
         /\ \A c \in Conns : receiver_of[c] # ch /\ senders[c] # ch
         /\ \A r \in Requests : new_stream_sender[r] # ch
<1>1. /\ ch \notin Range(pending_channels) /\ ch \notin Range(receiver_of)
      /\ ch \notin Range(senders) /\ ch \notin Range(new_stream_sender)
  BY DEF Fresh, Unused, Open
<1>2. /\ \A p \in Peers : pending_channels[p] # ch
      /\ \A c \in Conns : receiver_of[c] # ch /\ senders[c] # ch
      /\ \A r \in Requests : new_stream_sender[r] # ch
  BY <1>1 DEF Range, TypeOK
<1> QED
  BY <1>2 DEF MessagesOnce, HasReceiver

\* Shared::new: no channel and no message.
LEMMA InitHeldInv == Init => HeldInv
<1> SUFFICES ASSUME Init PROVE HeldInv
  OBVIOUS
<1> USE NoneAssumption
<1>1. \A r \in Requests, ch \in Chans : ~In(r, ch)
  BY EmptyHasNone DEF Init, In
<1>2. ChannelsOwned
  BY DEF Init, ChannelsOwned
<1>3. MessagesOnce
  BY <1>1 DEF Init, MessagesOnce, IsInjective
<1>4. CallStates
  BY <1>1 DEF Init, CallStates, HasHolder
<1>5. Targets
  BY DEF Init, Targets
<1> QED
  BY <1>2, <1>3, <1>4, <1>5 DEF HeldInv

\* what HeldInv is about
heldVars == <<pending_channels, senders, messages, receiver_of, pending_upgrade, established,
              state, target, new_stream_sender>>

\* A step that touches none of it preserves the invariant.
LEMMA HeldUntouched ==
  ASSUME HeldInv, UNCHANGED heldVars
  PROVE  HeldInv'
<1>1. ChannelsOwned'
  BY DEF HeldInv, ChannelsOwned, heldVars
<1>2. MessagesOnce'
  BY DEF HeldInv, MessagesOnce, HasReceiver, In, heldVars
<1>3. CallStates'
  BY DEF HeldInv, CallStates, HasHolder, In, heldVars
<1>4. Targets'
  BY DEF HeldInv, Targets, In, heldVars
<1> QED
  BY <1>1, <1>2, <1>3, <1>4 DEF HeldInv

-----------------------------------------------------------------------------
(***************************************************************************)
(* Dials                                                                   *)
(***************************************************************************)

\* Appending the pending channel's messages to the connection's.
LEMMA ForwardFacts ==
  ASSUME TypeOK, MessagesOnce, NEW ch \in Chans, NEW s \in Chans, s # ch,
         messages' = [messages EXCEPT ![s] = messages[s] \o messages[ch], ![ch] = <<>>]
  PROVE  /\ messages'[ch] = <<>>
         /\ \A ch2 \in Chans \ {s, ch} : messages'[ch2] = messages[ch2]
         /\ \A ch2 \in Chans : IsInjective(messages'[ch2])
         /\ Range(messages'[s]) = Range(messages[s]) \cup Range(messages[ch])
<1>1. /\ messages[s] \in Seq(Requests) /\ messages[ch] \in Seq(Requests)
      /\ IsInjective(messages[s]) /\ IsInjective(messages[ch])
  BY DEF TypeOK, MessagesOnce
<1>2. Range(messages[s]) \cap Range(messages[ch]) = {}
  <2>1. \A x \in Range(messages[s]) : x \in Requests
    BY <1>1 DEF Range
  <2> QED
    BY <2>1 DEF MessagesOnce, In
<1>3. /\ messages'[s] = messages[s] \o messages[ch] /\ messages'[ch] = <<>>
      /\ \A ch2 \in Chans \ {s, ch} : messages'[ch2] = messages[ch2]
  BY DEF TypeOK
<1>4. /\ IsInjective(messages[s] \o messages[ch])
      /\ Range(messages[s] \o messages[ch]) = Range(messages[s]) \cup Range(messages[ch])
  BY <1>1, <1>2, ConcatFacts
<1>5. IsInjective(<<>>)
  BY DEF IsInjective
<1>6. \A ch2 \in Chans : IsInjective(messages'[ch2])
  BY <1>3, <1>4, <1>5, Zenon DEF MessagesOnce
<1> QED
  BY <1>3, <1>4, <1>6, Zenon

\* on_dial_skipped hands the pending requests to the connection that exists: it
\* leads to the same peer, so they stay in one place and with their target.
LEMMA ForwardHeld ==
  ASSUME SharedInv, HeldInv, NEW p \in Peers, NEW c \in Conns, NEW ch \in Chans, NEW s \in Chans,
         pending_channels[p] = ch, connections[c] = p, senders[c] = s, Open(s),
         \A q \in Peers : pending_channels'[q] = IF q = p THEN None ELSE pending_channels[q],
         messages'[ch] = <<>>,
         \A ch2 \in Chans \ {s, ch} : messages'[ch2] = messages[ch2],
         \A ch2 \in Chans : IsInjective(messages'[ch2]),
         Range(messages'[s]) = Range(messages[s]) \cup Range(messages[ch]),
         UNCHANGED <<senders, receiver_of, pending_upgrade, established, target, new_stream_sender,
                     state>>
  PROVE  HeldInv'
<1> USE NoneAssumption DEF In
<1>1. /\ TypeOK /\ ConnectionsKnown /\ ChannelsOwned /\ MessagesOnce /\ CallStates /\ Targets
  BY DEF SharedInv, HeldInv
<1>2. s # ch /\ receiver_of[c] = s /\ established[c] = p
  BY <1>1, SenderLeadsHome DEF ConnectionsKnown, ChannelsOwned
<1>3. \A q \in Requests, ch2 \in Chans :
        q \in Range(messages'[ch2]) <=>
          ch2 # ch /\ (q \in Range(messages[ch2]) \/ (ch2 = s /\ q \in Range(messages[ch])))
  BY <1>2, EmptyHasNone
<1>4. ChannelsOwned'
  BY <1>1 DEF ChannelsOwned
<1>5. MessagesOnce'
  <2>1. \A ch2 \in Chans : messages'[ch2] # <<>> => HasReceiver(ch2)'
    <3> SUFFICES ASSUME NEW ch2 \in Chans, messages'[ch2] # <<>> PROVE HasReceiver(ch2)'
      OBVIOUS
    <3>1. CASE ch2 = s
      BY <1>2, <3>1 DEF HasReceiver
    <3>2. CASE ch2 # s
      <4>1. ch2 # ch /\ messages[ch2] # <<>>
        BY <3>2
      <4>2. CASE \E q \in Peers : pending_channels[q] = ch2
        BY <4>1, <4>2 DEF HasReceiver
      <4>3. CASE \E d \in Conns : receiver_of[d] = ch2
        BY <4>3 DEF HasReceiver
      <4> QED
        BY <1>1, <4>1, <4>2, <4>3 DEF MessagesOnce, HasReceiver
    <3> QED
      BY <3>1, <3>2
  <2>2. \A q \in Requests, ch1, ch2 \in Chans :
          q \in Range(messages'[ch1]) /\ q \in Range(messages'[ch2]) => ch1 = ch2
    BY <1>1, <1>3 DEF MessagesOnce
  <2>3. \A q \in Requests, d \in Conns, ch2 \in Chans :
          pending_upgrade'[d] = q => q \notin Range(messages'[ch2])
    BY <1>1, <1>3 DEF MessagesOnce
  <2> QED
    BY <1>1, <2>1, <2>2, <2>3 DEF MessagesOnce
<1>6. CallStates'
  <2>1. \A q \in Requests : HasHolder(q)' <=> HasHolder(q)
    BY <1>2, <1>3 DEF HasHolder
  <2> QED
    BY <1>1, <2>1 DEF CallStates
<1>7. Targets'
  <2>1. \A q \in Requests, d \in Conns :
          receiver_of[d] # None /\ q \in Range(messages'[receiver_of[d]]) =>
            target[q] = established[d]
    <3> SUFFICES ASSUME NEW q \in Requests, NEW d \in Conns, receiver_of[d] # None,
                        q \in Range(messages'[receiver_of[d]])
                 PROVE  target[q] = established[d]
      OBVIOUS
    <3>1. receiver_of[d] \in Chans
      BY <1>1 DEF TypeOK
    <3>2. CASE q \in Range(messages[receiver_of[d]])
      BY <1>1, <3>2 DEF Targets
    <3>3. CASE receiver_of[d] = s /\ q \in Range(messages[ch])
      <4>1. d = c
        BY <1>1, <3>3, SenderLeadsHome
      <4> QED
        BY <1>1, <1>2, <3>3, <4>1 DEF Targets
    <3> QED
      BY <1>3, <3>1, <3>2, <3>3
  <2>2. \A q \in Requests, d \in Peers :
          pending_channels'[d] # None /\ q \in Range(messages'[pending_channels'[d]]) =>
            target[q] = d
    <3> SUFFICES ASSUME NEW q \in Requests, NEW d \in Peers, pending_channels'[d] # None,
                        q \in Range(messages'[pending_channels'[d]])
                 PROVE  target[q] = d
      OBVIOUS
    <3>1. PICK ch2 \in Chans : ch2 = pending_channels[d] /\ ch2 = pending_channels'[d]
      BY <1>1 DEF TypeOK
    <3>2. ch2 # s
      BY <1>1, <3>1 DEF ChannelsOwned
    <3>3. q \in Range(messages[ch2])
      BY <1>3, <3>1, <3>2
    <3> QED
      BY <1>1, <3>1, <3>3 DEF Targets
  <2>3. \A d \in Peers : pending_channels'[d] # None => pending_channels'[d] = pending_channels[d]
    OBVIOUS
  <2> QED
    BY <1>1, <2>1, <2>2, <2>3 DEF Targets
<1> QED
  BY <1>4, <1>5, <1>6, <1>7 DEF HeldInv

\* Answering the requests R, all held, when exactly they are let go.
LEMMA AnswerCallStates ==
  ASSUME TypeOK, CallStates, NEW R, NEW result \in {"ok", "err"}, Answer(R, result),
         UNCHANGED new_stream_sender,
         \A q \in Requests : HasHolder(q)' <=> HasHolder(q) /\ q \notin R
  PROVE  CallStates'
<1>1. \A q \in Requests :
        state'[q] = IF q \in R /\ state[q] = "waiting" THEN result ELSE state[q]
  BY DEF Answer
<1> QED
  BY <1>1 DEF CallStates

\* Pending channels are dropped with the requests inside (on_dial_failure,
\* on_behaviour_dropped, and on_dial_skipped if the connection's handler is gone).
LEMMA ClearHeld ==
  ASSUME TypeOK, HeldInv, NEW P \in SUBSET Peers,
         pending_channels' = [p \in Peers |-> IF p \in P THEN None ELSE pending_channels[p]],
         NEW D, D = {pending_channels[p] : p \in P} \ {None},
         messages' = [ch \in Chans |-> IF ch \in D THEN <<>> ELSE messages[ch]],
         Answer(UNION {Range(messages[ch]) : ch \in D}, "err"),
         UNCHANGED <<senders, receiver_of, pending_upgrade, established, target, new_stream_sender>>
  PROVE  HeldInv'
<1> USE NoneAssumption DEF In
<1>1. /\ ChannelsOwned /\ MessagesOnce /\ CallStates /\ Targets
  BY DEF HeldInv
<1>2. \A q \in Requests, ch \in Chans :
        q \in Range(messages'[ch]) <=> q \in Range(messages[ch]) /\ ch \notin D
  BY EmptyHasNone
<1>3. ChannelsOwned'
  BY <1>1 DEF ChannelsOwned
<1>4. MessagesOnce'
  <2>1. \A ch \in Chans : messages'[ch] # <<>> => HasReceiver(ch)'
    <3> SUFFICES ASSUME NEW ch \in Chans, messages'[ch] # <<>> PROVE HasReceiver(ch)'
      OBVIOUS
    <3>1. ch \notin D /\ messages[ch] # <<>>
      OBVIOUS
    <3>2. CASE \E p \in Peers : pending_channels[p] = ch
      <4>1. PICK p \in Peers : pending_channels[p] = ch
        BY <3>2
      <4>2. p \notin P
        BY <3>1, <4>1
      <4>3. pending_channels'[p] = ch
        BY <4>1, <4>2
      <4> QED
        BY <4>3 DEF HasReceiver
    <3>3. CASE \E c \in Conns : receiver_of[c] = ch
      BY <3>3 DEF HasReceiver
    <3> QED
      BY <1>1, <3>1, <3>2, <3>3 DEF MessagesOnce, HasReceiver
  <2>2. \A ch \in Chans : IsInjective(messages'[ch])
    <3>1. IsInjective(<<>>)
      BY DEF IsInjective
    <3> QED
      BY <1>1, <3>1 DEF MessagesOnce
  <2> QED
    BY <1>1, <1>2, <2>1, <2>2 DEF MessagesOnce
<1>5. CallStates'
  <2> DEFINE R == UNION {Range(messages[ch]) : ch \in D}
  <2>1. D \subseteq Chans
    BY DEF TypeOK
  <2>2. \A q \in Requests : q \in R <=> \E ch \in D : q \in Range(messages[ch])
    OBVIOUS
  <2> HIDE DEF R
  <2>3. \A q \in Requests : HasHolder(q)' <=> HasHolder(q) /\ q \notin R
    <3> SUFFICES ASSUME NEW q \in Requests PROVE HasHolder(q)' <=> HasHolder(q) /\ q \notin R
      OBVIOUS
    <3>1. CASE q \in R
      <4>1. PICK ch \in Chans : ch \in D /\ q \in Range(messages[ch])
        BY <2>1, <2>2, <3>1
      <4>2. \A ch2 \in Chans : q \in Range(messages[ch2]) => ch2 = ch
        BY <1>1, <4>1 DEF MessagesOnce
      <4>3. \A c \in Conns : pending_upgrade[c] # q
        BY <1>1, <4>1 DEF MessagesOnce
      <4> QED
        BY <1>2, <3>1, <4>1, <4>2, <4>3 DEF HasHolder
    <3>2. CASE q \notin R
      <4>1. \A ch \in Chans : q \in Range(messages'[ch]) <=> q \in Range(messages[ch])
        BY <1>2, <2>2, <3>2
      <4> QED
        BY <3>2, <4>1 DEF HasHolder
    <3> QED
      BY <3>1, <3>2
  <2> QED
    BY <1>1, <2>3, AnswerCallStates DEF R
<1>6. Targets'
  <2>1. /\ \A p \in Peers : pending_channels'[p] # None => pending_channels'[p] = pending_channels[p]
        /\ \A p \in Peers : pending_channels[p] \in Chans \cup {None}
        /\ \A c \in Conns : receiver_of[c] \in Chans \cup {None}
    BY DEF TypeOK
  <2> QED
    BY <1>1, <1>2, <2>1 DEF Targets
<1> QED
  BY <1>3, <1>4, <1>5, <1>6 DEF HeldInv

\* on_dial_failure drops the pending channel of its peer.
LEMMA DialFailureHeld ==
  ASSUME SharedInv, HeldInv, NEW p \in Peers, on_dial_failure(p),
         UNCHANGED <<senders, receiver_of, pending_upgrade, established, target, new_stream_sender>>
  PROVE  HeldInv'
<1> USE NoneAssumption
<1>1. TypeOK
  BY DEF SharedInv
<1>2. CASE pending_channels[p] = None
  <2>1. UNCHANGED heldVars
    BY <1>2 DEF on_dial_failure, heldVars
  <2> QED
    BY <2>1, HeldUntouched
<1>3. CASE pending_channels[p] # None
  <2> DEFINE ch == pending_channels[p]
  <2>1. PICK P \in SUBSET Peers : P = {p}
    BY Zenon
  <2>2. PICK D : D = {ch}
    BY Zenon
  <2>3. /\ pending_channels' = [pending_channels EXCEPT ![p] = None]
        /\ messages' = [messages EXCEPT ![ch] = <<>>]
        /\ Answer(Range(messages[ch]), "err")
    BY <1>3 DEF on_dial_failure
  <2>4. D = {pending_channels[q] : q \in P} \ {None}
    BY <1>3, <2>1, <2>2
  <2>5. pending_channels' = [q \in Peers |-> IF q \in P THEN None ELSE pending_channels[q]]
    BY <1>1, <2>1, <2>3, Zenon DEF TypeOK
  <2>6. messages' = [c \in Chans |-> IF c \in D THEN <<>> ELSE messages[c]]
    BY <1>1, <2>2, <2>3, Zenon DEF TypeOK
  <2>7. Answer(UNION {Range(messages[c]) : c \in D}, "err")
    <3>1. UNION {Range(messages[c]) : c \in D} = Range(messages[ch])
      BY <2>2
    <3> QED
      BY <2>3, <3>1, Zenon
  <2> QED
    BY <1>1, <2>4, <2>5, <2>6, <2>7, ClearHeld, Zenon
<1> QED
  BY <1>2, <1>3

\* on_dial_skipped, in all its cases.
LEMMA DialSkippedHeld ==
  ASSUME SharedInv, HeldInv, NEW p \in Peers, on_dial_skipped(p),
         UNCHANGED <<senders, receiver_of, pending_upgrade, established, target, new_stream_sender>>
  PROVE  HeldInv'
<1> USE NoneAssumption
<1>0. PICK ch : ch = pending_channels[p]
  OBVIOUS
<1>1. TypeOK
  BY DEF SharedInv
<1>2. PICK s \in connected_sender(p) :
        \/ UNCHANGED <<pending_channels, messages, state>>
        \/ /\ s # None /\ ch # None
           /\ pending_channels' = [pending_channels EXCEPT ![p] = None]
           /\ IF Open(s)
              THEN /\ messages' = [messages EXCEPT ![s] = @ \o messages[ch], ![ch] = <<>>]
                   /\ UNCHANGED state
              ELSE /\ messages' = [messages EXCEPT ![ch] = <<>>]
                   /\ Answer(Range(messages[ch]), "err")
  BY <1>0, Zenon DEF on_dial_skipped
<1>3. CASE UNCHANGED <<pending_channels, messages, state>>
  <2>1. UNCHANGED heldVars
    BY <1>3 DEF heldVars
  <2> QED
    BY <2>1, HeldUntouched
<1>4. CASE /\ s # None /\ ch # None /\ Open(s)
           /\ pending_channels' = [pending_channels EXCEPT ![p] = None]
           /\ messages' = [messages EXCEPT ![s] = @ \o messages[ch], ![ch] = <<>>]
           /\ UNCHANGED state
  <2>1. PICK c \in Conns : connections[c] = p /\ senders[c] = s
    BY <1>4 DEF connected_sender
  <2>2. ch \in Chans /\ s \in Chans
    BY <1>0, <1>1, <1>4, <2>1 DEF TypeOK
  <2>3. messages' = [messages EXCEPT ![s] = messages[s] \o messages[ch], ![ch] = <<>>]
    BY <1>4
  <2>4. s # ch /\ MessagesOnce
    BY <1>0, <1>4, <2>1 DEF HeldInv, ChannelsOwned
  <2>5. /\ messages'[ch] = <<>>
        /\ \A ch2 \in Chans \ {s, ch} : messages'[ch2] = messages[ch2]
        /\ \A ch2 \in Chans : IsInjective(messages'[ch2])
        /\ Range(messages'[s]) = Range(messages[s]) \cup Range(messages[ch])
    BY <1>1, <2>2, <2>3, <2>4, ForwardFacts, Zenon
  <2>6. \A q \in Peers : pending_channels'[q] = IF q = p THEN None ELSE pending_channels[q]
    BY <1>1, <1>4 DEF TypeOK
  <2>7. Open(s) /\ UNCHANGED <<senders, receiver_of, pending_upgrade, established, target,
                               new_stream_sender, state>>
    BY <1>4
  <2> QED
    BY <1>0, <2>1, <2>2, <2>5, <2>6, <2>7, ForwardHeld
<1>5. CASE /\ ch # None
           /\ pending_channels' = [pending_channels EXCEPT ![p] = None]
           /\ messages' = [messages EXCEPT ![ch] = <<>>]
           /\ Answer(Range(messages[ch]), "err")
  <2>1. on_dial_failure(p)
    BY <1>0, <1>5 DEF on_dial_failure
  <2> QED
    BY <2>1, DialFailureHeld
<1> QED
  BY <1>2, <1>3, <1>4, <1>5, Zenon

\* Every dial of the swarm.
LEMMA DialHeld ==
  ASSUME SharedInv, HeldInv, PollDial \/ \E p \in Peers : OtherDial(p) \/ DialFailed(p)
  PROVE  HeldInv'
<1>1. ASSUME NEW p \in Peers, NEW skip_connected \in BOOLEAN, Dial(p, skip_connected),
             UNCHANGED <<senders, receiver_of, pending_upgrade, established, target,
                         new_stream_sender>>
      PROVE  HeldInv'
  <2>1. CASE UNCHANGED <<pending_channels, messages, state>>
    <3>1. UNCHANGED heldVars
      BY <1>1, <2>1 DEF heldVars
    <3> QED
      BY <3>1, HeldUntouched
  <2> QED
    BY <1>1, <2>1, DialSkippedHeld, DialFailureHeld DEF Dial
<1>2. CASE PollDial
  <2>1. Head(dial_queue) \in Peers
    BY <1>2, TailFacts DEF PollDial, SharedInv, TypeOK
  <2> QED
    BY <1>1, <1>2, <2>1, Zenon DEF PollDial, handlerVars, callVars
<1>3. ASSUME NEW p \in Peers, OtherDial(p)
      PROVE  HeldInv'
  BY <1>1, <1>3 DEF OtherDial, handlerVars, callVars
<1>4. ASSUME NEW p \in Peers, DialFailed(p)
      PROVE  HeldInv'
  BY <1>4, DialFailureHeld DEF DialFailed, handlerVars, callVars
<1> QED
  BY <1>2, <1>3, <1>4

-----------------------------------------------------------------------------
(***************************************************************************)
(* Calls                                                                   *)
(***************************************************************************)

\* Shared::sender: the caller gets a sender of a connection to its peer, of the
\* channel pending for it, or of a new one.
LEMMA OpenStreamHeld ==
  ASSUME SharedInv, HeldInv, NEW r \in Requests, NEW p \in Peers, OpenStream(r, p)
  PROVE  HeldInv'
<1> USE NoneAssumption DEF In
<1>1. /\ TypeOK /\ ConnectionsKnown /\ ChannelsOwned /\ MessagesOnce /\ CallStates /\ Targets
  BY DEF SharedInv, HeldInv
<1>2. /\ state[r] = "idle" /\ target' = [target EXCEPT ![r] = p]
      /\ UNCHANGED <<connections, senders, messages, receiver_of, pending_upgrade, established>>
  BY DEF OpenStream, handlerVars, swarmVars
<1>3. PICK s \in connected_sender(p) :
        \/ /\ s # None
           /\ new_stream_sender' = [new_stream_sender EXCEPT ![r] = s]
           /\ state' = [state EXCEPT ![r] = "sending"]
           /\ UNCHANGED pending_channels
        \/ /\ s = None /\ pending_channels[p] # None
           /\ new_stream_sender' = [new_stream_sender EXCEPT ![r] = pending_channels[p]]
           /\ state' = [state EXCEPT ![r] = "sending"]
           /\ UNCHANGED pending_channels
        \/ /\ s = None /\ pending_channels[p] = None
           /\ \E ch \in Chans :
                /\ Fresh(ch)
                /\ pending_channels' = [pending_channels EXCEPT ![p] = ch]
                /\ new_stream_sender' = [new_stream_sender EXCEPT ![r] = ch]
           /\ state' = [state EXCEPT ![r] = "sending"]
        \/ /\ state' = [state EXCEPT ![r] = "err"]
           /\ UNCHANGED <<pending_channels, new_stream_sender>>
  BY DEF OpenStream
<1>4. new_stream_sender[r] = None /\ ~HasHolder(r)
  BY <1>1, <1>2, Zenon DEF TypeOK, CallStates
<1>5. \A q \in Requests : HasHolder(q)' <=> HasHolder(q)
  BY <1>2 DEF HasHolder
<1>6. /\ target'[r] = p /\ \A q \in Requests \ {r} : target'[q] = target[q]
  BY <1>1, <1>2 DEF TypeOK
<1>7. CASE state' = [state EXCEPT ![r] = "err"] /\ UNCHANGED <<pending_channels, new_stream_sender>>
  <2>1. ChannelsOwned' /\ MessagesOnce'
    <3>1. ChannelsOwned'
      BY <1>1, <1>2, <1>7 DEF ChannelsOwned
    <3>2. MessagesOnce'
      BY <1>1, <1>2, <1>7 DEF MessagesOnce, HasReceiver
    <3> QED
      BY <3>1, <3>2
  <2>2. CallStates'
    BY <1>1, <1>4, <1>5, <1>7 DEF CallStates, TypeOK
  <2>3. Targets'
    BY <1>1, <1>2, <1>4, <1>6, <1>7 DEF Targets, TypeOK, HasHolder
  <2> QED
    BY <2>1, <2>2, <2>3 DEF HeldInv
<1>8. ASSUME NEW ch \in Chans, UNCHANGED pending_channels,
             new_stream_sender' = [new_stream_sender EXCEPT ![r] = ch],
             state' = [state EXCEPT ![r] = "sending"],
             \A q \in Peers : pending_channels[q] = ch => q = p,
             \A c \in Conns : receiver_of[c] = ch => established[c] = p
      PROVE  HeldInv'
  <2>1. ChannelsOwned' /\ MessagesOnce'
    <3>1. ChannelsOwned'
      BY <1>1, <1>2, <1>8 DEF ChannelsOwned
    <3>2. MessagesOnce'
      BY <1>1, <1>2, <1>8 DEF MessagesOnce, HasReceiver
    <3> QED
      BY <3>1, <3>2
  <2>2. CallStates'
    BY <1>1, <1>4, <1>5, <1>8 DEF CallStates, TypeOK
  <2>3. Targets'
    BY <1>1, <1>2, <1>4, <1>6, <1>8 DEF Targets, TypeOK, HasHolder
  <2> QED
    BY <2>1, <2>2, <2>3 DEF HeldInv
<1>9. CASE /\ s # None /\ UNCHANGED pending_channels
           /\ new_stream_sender' = [new_stream_sender EXCEPT ![r] = s]
           /\ state' = [state EXCEPT ![r] = "sending"]
  <2>1. PICK c \in Conns : connections[c] = p /\ senders[c] = s
    BY <1>9 DEF connected_sender
  <2>2. s \in Chans /\ established[c] = p
    BY <1>1, <1>9, <2>1 DEF TypeOK, ConnectionsKnown
  <2> QED
    BY <1>1, <1>8, <1>9, <2>1, <2>2, SenderLeadsHome, Zenon
<1>10. CASE /\ pending_channels[p] # None /\ UNCHANGED pending_channels
            /\ new_stream_sender' = [new_stream_sender EXCEPT ![r] = pending_channels[p]]
            /\ state' = [state EXCEPT ![r] = "sending"]
  <2>1. pending_channels[p] \in Chans
    BY <1>1, <1>10 DEF TypeOK
  <2>2. /\ \A q \in Peers : pending_channels[q] = pending_channels[p] => q = p
        /\ \A c \in Conns : receiver_of[c] # pending_channels[p]
    BY <1>1, <1>10, <2>1 DEF ChannelsOwned
  <2> QED
    BY <1>8, <1>10, <2>1, <2>2, Zenon
<1>11. ASSUME NEW ch \in Chans, Fresh(ch), pending_channels[p] = None,
              pending_channels' = [pending_channels EXCEPT ![p] = ch],
              new_stream_sender' = [new_stream_sender EXCEPT ![r] = ch],
              state' = [state EXCEPT ![r] = "sending"]
       PROVE  HeldInv'
  <2>1. /\ messages[ch] = <<>>
        /\ \A q \in Peers : pending_channels[q] # ch
        /\ \A c \in Conns : receiver_of[c] # ch /\ senders[c] # ch
        /\ \A q \in Requests : new_stream_sender[q] # ch
    BY <1>1, <1>11, FreshFacts
  <2>2. \A q \in Peers : pending_channels'[q] = IF q = p THEN ch ELSE pending_channels[q]
    BY <1>1, <1>11 DEF TypeOK
  <2>3. ChannelsOwned'
    BY <1>1, <1>2, <2>1, <2>2 DEF ChannelsOwned
  <2>4. MessagesOnce'
    BY <1>1, <1>2, <1>11, <2>2 DEF MessagesOnce, HasReceiver
  <2>5. CallStates'
    BY <1>1, <1>4, <1>5, <1>11 DEF CallStates, TypeOK
  <2>6. \A q \in Requests : q \notin Range(messages[ch])
    BY <2>1, EmptyHasNone
  <2>7. Targets'
    BY <1>1, <1>2, <1>4, <1>6, <1>11, <2>1, <2>2, <2>6 DEF Targets, TypeOK, HasHolder
  <2> QED
    BY <2>3, <2>4, <2>5, <2>7 DEF HeldInv
<1> QED
  BY <1>3, <1>7, <1>9, <1>10, <1>11

\* The call puts its message into the channel it knows, or finds it closed.
LEMMA SendHeld ==
  ASSUME SharedInv, HeldInv, NEW r \in Requests, Send(r)
  PROVE  HeldInv'
<1> USE NoneAssumption DEF In
<1> DEFINE ch == new_stream_sender[r]
<1>1. /\ TypeOK /\ ChannelsOwned /\ MessagesOnce /\ CallStates /\ Targets
  BY DEF SharedInv, HeldInv
<1>2. /\ state[r] = "sending" /\ new_stream_sender' = [new_stream_sender EXCEPT ![r] = None]
      /\ UNCHANGED <<senders, pending_channels, receiver_of, pending_upgrade, established, target>>
  BY DEF Send, sharedVars, handlerVars, swarmVars
<1>3. ch \in Chans /\ ~HasHolder(r)
  BY <1>1, <1>2, Zenon DEF TypeOK, CallStates
<1>4. ChannelsOwned'
  BY <1>1, <1>2 DEF ChannelsOwned
<1>5. /\ new_stream_sender'[r] = None
      /\ \A q \in Requests \ {r} : new_stream_sender'[q] = new_stream_sender[q]
  BY <1>1, <1>2 DEF TypeOK
<1>6. CASE /\ Open(ch) /\ messages' = [messages EXCEPT ![ch] = Append(messages[ch], r)]
           /\ state' = [state EXCEPT ![r] = "waiting"]
  <2>1. messages[ch] \in Seq(Requests) /\ IsInjective(messages[ch]) /\ r \notin Range(messages[ch])
    BY <1>1, <1>3 DEF TypeOK, MessagesOnce, HasHolder
  <2>2. /\ Range(messages'[ch]) = Range(messages[ch]) \cup {r} /\ IsInjective(messages'[ch])
        /\ \A ch2 \in Chans \ {ch} : messages'[ch2] = messages[ch2]
    <3>1. messages'[ch] = Append(messages[ch], r)
      BY <1>1, <1>3, <1>6 DEF TypeOK
    <3>2. \A ch2 \in Chans \ {ch} : messages'[ch2] = messages[ch2]
      BY <1>1, <1>6 DEF TypeOK
    <3> QED
      BY <2>1, <3>1, <3>2, AppendFacts
  <2>3. HasReceiver(ch)
    BY <1>1, <1>3, <1>6, OpenIff
  <2>4. \A q \in Requests, ch2 \in Chans :
          q \in Range(messages'[ch2]) <=> q \in Range(messages[ch2]) \/ (q = r /\ ch2 = ch)
    BY <2>2
  <2> HIDE DEF ch
  <2>5. MessagesOnce'
    <3>1. \A ch2 \in Chans : messages'[ch2] # <<>> => HasReceiver(ch2)'
      BY <1>1, <1>2, <2>2, <2>3 DEF MessagesOnce, HasReceiver
    <3>2. \A ch2 \in Chans : IsInjective(messages'[ch2])
      BY <1>1, <2>2 DEF MessagesOnce
    <3> QED
      BY <1>1, <1>2, <1>3, <2>4, <3>1, <3>2 DEF MessagesOnce, HasHolder
  <2>6. \A q \in Requests : HasHolder(q)' <=> HasHolder(q) \/ q = r
    BY <1>2, <1>3, <2>4 DEF HasHolder
  <2>7. CallStates'
    BY <1>1, <1>5, <1>6, <2>6 DEF CallStates, TypeOK
  <2>8. Targets'
    BY <1>1, <1>2, <1>5, <2>4 DEF Targets, TypeOK, ch
  <2> QED
    BY <1>4, <2>5, <2>7, <2>8 DEF HeldInv
<1>7. CASE UNCHANGED messages /\ state' = [state EXCEPT ![r] = "err"]
  <2>1. MessagesOnce'
    BY <1>1, <1>2, <1>7 DEF MessagesOnce, HasReceiver
  <2>2. \A q \in Requests : HasHolder(q)' <=> HasHolder(q)
    BY <1>2, <1>7 DEF HasHolder
  <2>3. CallStates'
    BY <1>1, <1>3, <1>5, <1>7, <2>2 DEF CallStates, TypeOK
  <2>4. Targets'
    BY <1>1, <1>2, <1>5, <1>7 DEF Targets, TypeOK
  <2> QED
    BY <1>4, <2>1, <2>3, <2>4 DEF HeldInv
<1> QED
  BY <1>6, <1>7 DEF Send

\* A cancelled call leaves its message where it is.
LEMMA CancelHeld ==
  ASSUME SharedInv, HeldInv, NEW r \in Requests, Cancel(r)
  PROVE  HeldInv'
<1> USE NoneAssumption DEF In
<1>1. /\ TypeOK /\ ChannelsOwned /\ MessagesOnce /\ CallStates /\ Targets
  BY DEF SharedInv, HeldInv
<1>2. /\ state[r] \in {"sending", "waiting"} /\ state' = [state EXCEPT ![r] = "cancelled"]
      /\ new_stream_sender' = [new_stream_sender EXCEPT ![r] = None]
      /\ UNCHANGED <<senders, pending_channels, messages, receiver_of, pending_upgrade,
                     established, target>>
  BY DEF Cancel, sharedVars, handlerVars, swarmVars
<1>3. ChannelsOwned' /\ MessagesOnce'
  <2>1. ChannelsOwned'
    BY <1>1, <1>2 DEF ChannelsOwned
  <2>2. MessagesOnce'
    BY <1>1, <1>2, Zenon DEF MessagesOnce, HasReceiver
  <2> QED
    BY <2>1, <2>2
<1>4. \A q \in Requests : HasHolder(q)' <=> HasHolder(q)
  BY <1>2 DEF HasHolder
<1>5. CallStates'
  BY <1>1, <1>2, <1>4 DEF CallStates, TypeOK
<1>6. Targets'
  BY <1>1, <1>2 DEF Targets, TypeOK
<1> QED
  BY <1>3, <1>5, <1>6 DEF HeldInv

-----------------------------------------------------------------------------
(***************************************************************************)
(* Where the requests are held: connections, handlers and shutdown         *)
(***************************************************************************)

\* A new connection takes the channel pending for its peer, with the requests
\* inside, or a new one; one that closed has no receiver left to take from.
LEMMA ConnectionHeld ==
  ASSUME SharedInv, HeldInv,
         \/ \E p \in Peers, c \in Conns : DialSucceeded(p, c) \/ Inbound(p, c)
         \/ on_connection_established
         \/ \E c \in Conns : on_connection_closed(c)
  PROVE  HeldInv'
<1> USE NoneAssumption DEF In
<1>1. /\ TypeOK /\ NoSenderLeak /\ ChannelsOwned /\ MessagesOnce /\ CallStates /\ Targets
  BY DEF SharedInv, HeldInv
<1>2. ASSUME NEW p \in Peers, NEW c \in Conns, NewConnection(p, c)
      PROVE  HeldInv'
  <2>1. PICK ch \in Chans :
          /\ pending_channels[p] = ch \/ (pending_channels[p] = None /\ Fresh(ch))
          /\ pending_channels' = [pending_channels EXCEPT ![p] = None]
          /\ senders' = [senders EXCEPT ![c] = ch]
          /\ receiver_of' = [receiver_of EXCEPT ![c] = ch]
    BY <1>2, Zenon DEF NewConnection, receiver
  <2>2. /\ senders[c] = None /\ established' = [established EXCEPT ![c] = p]
        /\ UNCHANGED <<messages, pending_upgrade, state, target, new_stream_sender>>
    BY <1>2 DEF NewConnection, callVars
  <2>3. receiver_of[c] = None /\ pending_upgrade[c] = None
    BY <1>1, <2>2 DEF TypeOK, ChannelsOwned
  <2>4. /\ \A q \in Peers : pending_channels'[q] = IF q = p THEN None ELSE pending_channels[q]
        /\ \A d \in Conns : senders'[d] = IF d = c THEN ch ELSE senders[d]
        /\ \A d \in Conns : receiver_of'[d] = IF d = c THEN ch ELSE receiver_of[d]
        /\ \A d \in Conns : established'[d] = IF d = c THEN p ELSE established[d]
    BY <1>1, <2>1, <2>2 DEF TypeOK
  <2>5. /\ \A q \in Peers : pending_channels[q] = ch => q = p
        /\ \A d \in Conns : receiver_of[d] # ch /\ senders[d] # ch
        /\ \A r \in Requests : r \in Range(messages[ch]) \/ new_stream_sender[r] = ch => target[r] = p
    <3>1. CASE pending_channels[p] = ch
      <4>1. ch # None
        OBVIOUS
      <4>2. \A q \in Peers : pending_channels[q] = ch => q = p
        BY <1>1, <3>1, <4>1, Zenon DEF ChannelsOwned
      <4>3. \A d \in Conns : senders[d] # ch
        BY <1>1, <3>1, <4>1, Zenon DEF ChannelsOwned
      <4>4. \A d \in Conns : receiver_of[d] # ch
        BY <1>1, <4>1, <4>3, Zenon DEF ChannelsOwned
      <4>5. \A r \in Requests :
              r \in Range(messages[ch]) \/ new_stream_sender[r] = ch => target[r] = p
        BY <1>1, <3>1, <4>1, Zenon DEF Targets
      <4> QED
        BY <4>2, <4>3, <4>4, <4>5, Zenon
    <3>2. CASE Fresh(ch)
      BY <1>1, <3>2, FreshFacts, EmptyHasNone
    <3> QED
      BY <2>1, <3>1, <3>2
  <2>6. ChannelsOwned'
    BY <1>1, <2>2, <2>3, <2>4, <2>5 DEF ChannelsOwned
  <2>7. MessagesOnce'
    <3>1. \A ch2 \in Chans : messages'[ch2] # <<>> => HasReceiver(ch2)'
      <4> SUFFICES ASSUME NEW ch2 \in Chans, messages'[ch2] # <<>> PROVE HasReceiver(ch2)'
        OBVIOUS
      <4>1. CASE ch2 = ch
        BY <2>4, <4>1 DEF HasReceiver
      <4>2. CASE ch2 # ch
        <5>1. CASE \E q \in Peers : pending_channels[q] = ch2
          BY <2>1, <2>4, <4>2, <5>1 DEF HasReceiver
        <5>2. CASE \E d \in Conns : receiver_of[d] = ch2
          BY <2>3, <2>4, <5>2 DEF HasReceiver
        <5> QED
          BY <1>1, <2>2, <5>1, <5>2 DEF MessagesOnce, HasReceiver
      <4> QED
        BY <4>1, <4>2
    <3> QED
      BY <1>1, <2>2, <3>1 DEF MessagesOnce
  <2>8. CallStates'
    <3>1. \A r \in Requests : HasHolder(r)' <=> HasHolder(r)
      BY <2>2 DEF HasHolder
    <3> QED
      BY <1>1, <2>2, <3>1 DEF CallStates
  <2>9. Targets'
    BY <1>1, <2>2, <2>3, <2>4, <2>5 DEF Targets
  <2> QED
    BY <2>6, <2>7, <2>8, <2>9 DEF HeldInv
<1>3. CASE on_connection_established
  <2>1. UNCHANGED heldVars
    BY <1>3 DEF on_connection_established, handlerVars, callVars, heldVars
  <2> QED
    BY <2>1, HeldUntouched
<1>4. ASSUME NEW c \in Conns, on_connection_closed(c)
      PROVE  HeldInv'
  <2>1. /\ receiver_of[c] = None
        /\ established' = [established EXCEPT ![c] = None] /\ senders' = [senders EXCEPT ![c] = None]
        /\ UNCHANGED <<pending_channels, messages, receiver_of, pending_upgrade, state, target,
                       new_stream_sender>>
    BY <1>4 DEF on_connection_closed, handlerVars, callVars
  <2>2. /\ \A d \in Conns : senders'[d] = IF d = c THEN None ELSE senders[d]
        /\ \A d \in Conns : established'[d] = IF d = c THEN None ELSE established[d]
    BY <1>1, <2>1 DEF TypeOK
  <2>3. ChannelsOwned'
    BY <1>1, <2>1, <2>2 DEF ChannelsOwned
  <2>4. MessagesOnce'
    BY <1>1, <2>1 DEF MessagesOnce, HasReceiver
  <2>5. CallStates'
    BY <1>1, <2>1 DEF CallStates, HasHolder
  <2>6. pending_upgrade[c] = None
    BY <1>1, <2>1 DEF ChannelsOwned
  <2>7. Targets'
    BY <1>1, <2>1, <2>2, <2>6 DEF Targets
  <2> QED
    BY <2>3, <2>4, <2>5, <2>7 DEF HeldInv
<1> QED
  BY <1>2, <1>3, <1>4 DEF DialSucceeded, Inbound

\* A handler takes a message out of its channel, answers it, or is dropped with
\* everything it holds.
LEMMA HandlerHeld ==
  ASSUME SharedInv, HeldInv, NEW c \in Conns, HandlerDropped(c) \/ HandlerPoll(c) \/ UpgradeDone(c)
  PROVE  HeldInv'
<1> USE NoneAssumption DEF In
<1>1. /\ TypeOK /\ ChannelsOwned /\ MessagesOnce /\ CallStates /\ Targets
  BY DEF SharedInv, HeldInv
<1>2. CASE HandlerDropped(c)
  <2>1. PICK ch : ch = receiver_of[c]
    OBVIOUS
  <2>2. /\ ch # None /\ Answer(OwnedBy(c), "err")
        /\ messages' = [messages EXCEPT ![ch] = <<>>]
        /\ receiver_of' = [receiver_of EXCEPT ![c] = None]
        /\ pending_upgrade' = [pending_upgrade EXCEPT ![c] = None]
        /\ UNCHANGED <<pending_channels, senders, established, target, new_stream_sender>>
    BY <1>2, <2>1 DEF HandlerDropped, sharedVars, swarmVars, callVars
  <2>3. ch \in Chans
    BY <1>1, <2>1, <2>2 DEF TypeOK
  <2>4. /\ \A d \in Conns : receiver_of'[d] = IF d = c THEN None ELSE receiver_of[d]
        /\ \A d \in Conns : pending_upgrade'[d] = IF d = c THEN None ELSE pending_upgrade[d]
        /\ \A ch2 \in Chans : messages'[ch2] = IF ch2 = ch THEN <<>> ELSE messages[ch2]
    BY <1>1, <2>2 DEF TypeOK
  <2>5. \A r \in Requests, ch2 \in Chans :
          r \in Range(messages'[ch2]) <=> ch2 # ch /\ r \in Range(messages[ch2])
    BY <2>4, EmptyHasNone
  <2>6. ChannelsOwned'
    BY <1>1, <2>2, <2>4 DEF ChannelsOwned
  <2>7. MessagesOnce'
    <3>1. ASSUME NEW ch2 \in Chans, messages'[ch2] # <<>>
          PROVE  HasReceiver(ch2)'
      <4>1. ch2 # ch /\ messages[ch2] # <<>>
        BY <2>4, <3>1
      <4>2. HasReceiver(ch2)
        BY <1>1, <4>1, Zenon DEF MessagesOnce
      <4>3. \A d \in Conns : receiver_of[d] = ch2 => receiver_of'[d] = ch2
        BY <2>1, <2>4, <4>1
      <4> QED
        BY <2>2, <4>2, <4>3 DEF HasReceiver
    <3>2. IsInjective(<<>>)
      BY DEF IsInjective
    <3>3. \A ch2 \in Chans : IsInjective(messages'[ch2])
      BY <1>1, <2>4, <3>2 DEF MessagesOnce
    <3>4. \A r \in Requests, ch1, ch2 \in Chans :
            r \in Range(messages'[ch1]) /\ r \in Range(messages'[ch2]) => ch1 = ch2
      BY <1>1, <2>5, Zenon DEF MessagesOnce
    <3>5. \A r \in Requests, d \in Conns : pending_upgrade'[d] = r => pending_upgrade[d] = r
      BY <2>4
    <3>6. \A r \in Requests, d \in Conns, ch2 \in Chans :
            pending_upgrade'[d] = r => r \notin Range(messages'[ch2])
      BY <1>1, <2>5, <3>5, Zenon DEF MessagesOnce
    <3>7. \A r \in Requests, d, d2 \in Conns :
            pending_upgrade'[d] = r /\ pending_upgrade'[d2] = r => d = d2
      BY <1>1, <3>5, Zenon DEF MessagesOnce
    <3> QED
      BY <3>1, <3>3, <3>4, <3>6, <3>7, Zenon DEF MessagesOnce
  <2>8. CallStates'
    <3>1. \A r \in Requests : r \in OwnedBy(c) <=> r = pending_upgrade[c] \/ r \in Range(messages[ch])
      BY <2>1, <2>2 DEF OwnedBy
    <3>2. \A r \in Requests : HasHolder(r)' <=> HasHolder(r) /\ r \notin OwnedBy(c)
      <4> SUFFICES ASSUME NEW r \in Requests
                   PROVE  HasHolder(r)' <=> HasHolder(r) /\ r \notin OwnedBy(c)
        OBVIOUS
      <4>1. CASE r = pending_upgrade[c]
        BY <1>1, <2>4, <2>5, <3>1, <4>1 DEF HasHolder, MessagesOnce
      <4>2. CASE r \in Range(messages[ch])
        BY <1>1, <2>3, <2>4, <2>5, <3>1, <4>2 DEF HasHolder, MessagesOnce
      <4>3. CASE r # pending_upgrade[c] /\ r \notin Range(messages[ch])
        BY <2>4, <2>5, <3>1, <4>3 DEF HasHolder
      <4> QED
        BY <4>1, <4>2, <4>3
    <3> QED
      BY <1>1, <2>2, <3>2, AnswerCallStates
  <2>9. Targets'
    <3>1. \A d \in Conns : receiver_of[d] \in Chans \cup {None}
      BY <1>1 DEF TypeOK
    <3>2. \A q \in Peers : pending_channels[q] \in Chans \cup {None}
      BY <1>1 DEF TypeOK
    <3> QED
      BY <1>1, <2>2, <2>4, <2>5, <3>1, <3>2 DEF Targets
  <2> QED
    BY <2>6, <2>7, <2>8, <2>9 DEF HeldInv
<1>3. CASE HandlerPoll(c)
  <2>1. PICK ch : ch = receiver_of[c]
    OBVIOUS
  <2>2. /\ ch # None /\ pending_upgrade[c] = None /\ messages[ch] # <<>>
        /\ pending_upgrade' = [pending_upgrade EXCEPT ![c] = Head(messages[ch])]
        /\ messages' = [messages EXCEPT ![ch] = Tail(messages[ch])]
        /\ UNCHANGED <<pending_channels, senders, receiver_of, established, state, target,
                       new_stream_sender>>
    BY <1>3, <2>1 DEF HandlerPoll, sharedVars, swarmVars, callVars
  <2>3. ch \in Chans /\ messages[ch] \in Seq(Requests) /\ IsInjective(messages[ch])
    BY <1>1, <2>1, <2>2 DEF TypeOK, MessagesOnce
  <2>4. PICK r \in Requests : r = Head(messages[ch])
    BY <2>2, <2>3, TailFacts
  <2>5. /\ Range(messages[ch]) = {r} \cup Range(Tail(messages[ch]))
        /\ IsInjective(Tail(messages[ch])) /\ r \notin Range(Tail(messages[ch]))
    BY <2>2, <2>3, <2>4, TailFacts
  <2>6. /\ \A d \in Conns : pending_upgrade'[d] = IF d = c THEN r ELSE pending_upgrade[d]
        /\ \A ch2 \in Chans : messages'[ch2] = IF ch2 = ch THEN Tail(messages[ch]) ELSE messages[ch2]
    BY <1>1, <2>2, <2>4 DEF TypeOK
  <2>7. \A q \in Requests, ch2 \in Chans :
          q \in Range(messages'[ch2]) <=> q \in Range(messages[ch2]) /\ ~(ch2 = ch /\ q = r)
    BY <2>5, <2>6
  <2>8. r \in Range(messages[ch]) /\ \A ch2 \in Chans : r \in Range(messages[ch2]) => ch2 = ch
    BY <1>1, <2>3, <2>5 DEF MessagesOnce
  <2>9. \A d \in Conns : pending_upgrade[d] # r
    BY <1>1, <2>3, <2>8 DEF MessagesOnce
  <2>10. ChannelsOwned'
    BY <1>1, <2>1, <2>2, <2>6 DEF ChannelsOwned
  <2>11. MessagesOnce'
    <3>1. \A ch2 \in Chans : messages'[ch2] # <<>> => HasReceiver(ch2)'
      BY <1>1, <2>1, <2>2, <2>6 DEF MessagesOnce, HasReceiver
    <3>2. \A ch2 \in Chans : IsInjective(messages'[ch2])
      BY <1>1, <2>5, <2>6 DEF MessagesOnce
    <3>3. \A q \in Requests, d \in Conns, ch2 \in Chans :
            pending_upgrade'[d] = q => q \notin Range(messages'[ch2])
      BY <1>1, <2>6, <2>7, <2>8 DEF MessagesOnce
    <3>4. \A q \in Requests, ch1, ch2 \in Chans :
            q \in Range(messages'[ch1]) /\ q \in Range(messages'[ch2]) => ch1 = ch2
      BY <1>1, <2>7, Zenon DEF MessagesOnce
    <3>5. \A q \in Requests, d, d2 \in Conns :
            pending_upgrade'[d] = q /\ pending_upgrade'[d2] = q => d = d2
      BY <1>1, <2>6, <2>9 DEF MessagesOnce
    <3> QED
      BY <3>1, <3>2, <3>3, <3>4, <3>5, Zenon DEF MessagesOnce
  <2>12. CallStates'
    <3>1. \A q \in Requests : HasHolder(q)' <=> HasHolder(q)
      BY <2>2, <2>3, <2>6, <2>7, <2>8 DEF HasHolder
    <3> QED
      BY <1>1, <2>2, <3>1 DEF CallStates
  <2>13. Targets'
    <3>1. target[r] = established[c]
      BY <1>1, <2>1, <2>2, <2>8, Zenon DEF Targets
    <3>2. \A d \in Conns : receiver_of[d] \in Chans \cup {None}
      BY <1>1 DEF TypeOK
    <3>3. \A q \in Peers : pending_channels[q] \in Chans \cup {None}
      BY <1>1 DEF TypeOK
    <3> QED
      BY <1>1, <2>2, <2>6, <2>7, <3>1, <3>2, <3>3 DEF Targets
  <2> QED
    BY <2>10, <2>11, <2>12, <2>13 DEF HeldInv
<1>4. CASE UpgradeDone(c)
  <2>0. PICK r : r = pending_upgrade[c]
    OBVIOUS
  <2>1. PICK result \in {"ok", "err"} :
          r = pending_upgrade[c] /\ r # None /\ Answer({r}, result)
    BY <1>4, <2>0 DEF UpgradeDone
  <2>2. /\ pending_upgrade' = [pending_upgrade EXCEPT ![c] = None]
        /\ UNCHANGED <<pending_channels, senders, messages, receiver_of, established, target,
                       new_stream_sender>>
    BY <1>4 DEF UpgradeDone, sharedVars, swarmVars, callVars
  <2>3. /\ r \in Requests
        /\ \A d \in Conns : pending_upgrade'[d] = IF d = c THEN None ELSE pending_upgrade[d]
    BY <1>1, <2>1, <2>2 DEF TypeOK
  <2>4. ChannelsOwned'
    BY <1>1, <2>2, <2>3 DEF ChannelsOwned
  <2>5. MessagesOnce'
    BY <1>1, <2>2, <2>3 DEF MessagesOnce, HasReceiver
  <2>6. CallStates'
    <3>1. \A q \in Requests : HasHolder(q)' <=> HasHolder(q) /\ q \notin {r}
      BY <1>1, <2>1, <2>2, <2>3, Zenon DEF HasHolder, MessagesOnce
    <3> QED
      BY <1>1, <2>1, <2>2, <3>1, AnswerCallStates
  <2>7. Targets'
    <3>1. \A q \in Requests, d \in Conns : pending_upgrade'[d] = q => pending_upgrade[d] = q
      BY <2>3
    <3>2. \A q \in Requests, d \in Conns : pending_upgrade'[d] = q => target'[q] = established'[d]
      BY <1>1, <2>2, <3>1 DEF Targets
    <3> QED
      BY <1>1, <2>2, <3>2 DEF Targets
  <2> QED
    BY <2>4, <2>5, <2>6, <2>7 DEF HeldInv
<1> QED
  BY <1>2, <1>3, <1>4

\* Behaviour::drop closes the dial queue, then drops every pending channel.
LEMMA ShutdownHeld ==
  ASSUME SharedInv, HeldInv, DropClose \/ DropClear
  PROVE  HeldInv'
<1>1. CASE DropClose
  <2>1. UNCHANGED heldVars
    BY <1>1 DEF DropClose, sharedVars, handlerVars, swarmVars, callVars, heldVars
  <2> QED
    BY <2>1, HeldUntouched
<1>2. CASE DropClear
  <2>1. PICK D : D = Range(pending_channels) \ {None}
    BY Zenon
  <2>2. /\ pending_channels' = [p \in Peers |-> IF p \in Peers THEN None ELSE pending_channels[p]]
        /\ messages' = [ch \in Chans |-> IF ch \in D THEN <<>> ELSE messages[ch]]
        /\ Answer(UNION {Range(messages[ch]) : ch \in D}, "err")
        /\ UNCHANGED <<senders, receiver_of, pending_upgrade, established, target, new_stream_sender>>
    BY <1>2, <2>1 DEF DropClear, handlerVars, swarmVars, callVars
  <2>3. TypeOK
    BY DEF SharedInv
  <2>4. D = {pending_channels[p] : p \in Peers} \ {None}
    BY <2>1, <2>3 DEF Range, TypeOK
  <2> QED
    BY <2>2, <2>3, <2>4, ClearHeld, Zenon
<1> QED
  BY <1>1, <1>2

\* Every step, and stuttering, preserves the invariant.
LEMMA NextHeldInv == SharedInv /\ HeldInv /\ [Next]_vars => HeldInv'
<1> SUFFICES ASSUME SharedInv, HeldInv, [Next]_vars PROVE HeldInv'
  OBVIOUS
<1>1. ASSUME NEW r \in Requests, (\E p \in Peers : OpenStream(r, p)) \/ Send(r) \/ Cancel(r)
      PROVE  HeldInv'
  BY <1>1, OpenStreamHeld, SendHeld, CancelHeld
<1>2. CASE PollDial \/ \E p \in Peers : OtherDial(p) \/ DialFailed(p)
  BY <1>2, DialHeld
<1>3. CASE \/ \E p \in Peers, c \in Conns : DialSucceeded(p, c) \/ Inbound(p, c)
           \/ on_connection_established
           \/ \E c \in Conns : on_connection_closed(c)
  BY <1>3, ConnectionHeld
<1>4. CASE \E c \in Conns : HandlerDropped(c) \/ HandlerPoll(c) \/ UpgradeDone(c)
  BY <1>4, HandlerHeld
<1>5. CASE DropClose \/ DropClear
  BY <1>5, ShutdownHeld
<1>6. CASE UNCHANGED vars
  <2>1. UNCHANGED heldVars
    BY <1>6 DEF vars, sharedVars, handlerVars, swarmVars, callVars, heldVars
  <2> QED
    BY <2>1, HeldUntouched
<1> QED
  BY <1>1, <1>2, <1>3, <1>4, <1>5, <1>6 DEF Next

-----------------------------------------------------------------------------
(***************************************************************************)
(* Pending channels and senders                                            *)
(***************************************************************************)

\* Shared::new: no connections and nothing pending.
LEMMA InitSharedInv == Init => SharedInv
<1> SUFFICES ASSUME Init PROVE SharedInv
  OBVIOUS
<1>1. TypeOK
  BY DEF Init, TypeOK
<1>2. ConnectionsKnown /\ NoSenderLeak /\ PendingIsServed
  BY DEF Init, ConnectionsKnown, NoSenderLeak, PendingIsServed
<1> QED
  BY <1>1, <1>2 DEF SharedInv

-----------------------------------------------------------------------------
(***************************************************************************)
(* Lemmas on the handlers of dial events                                   *)
(***************************************************************************)

\* Answering requests keeps every call in one of its states.
LEMMA AnswerType ==
  ASSUME TypeOK, NEW R, NEW result \in {"ok", "err"}, Answer(R, result)
  PROVE  state' \in [Requests -> {"idle", "sending", "waiting", "ok", "err", "cancelled"}]
BY DEF TypeOK, Answer

\* on_dial_failure removes the pending channel of its peer and no other.
LEMMA DialFailureFacts ==
  ASSUME TypeOK, NEW p \in Peers, on_dial_failure(p)
  PROVE  /\ pending_channels' = [pending_channels EXCEPT ![p] = None]
         /\ messages' \in [Chans -> Seq(Requests)]
         /\ state' \in [Requests -> {"idle", "sending", "waiting", "ok", "err", "cancelled"}]
<1>1. CASE pending_channels[p] = None
  BY <1>1 DEF on_dial_failure, TypeOK
<1>2. CASE pending_channels[p] # None
  <2>1. /\ pending_channels' = [pending_channels EXCEPT ![p] = None]
        /\ messages' = [messages EXCEPT ![pending_channels[p]] = <<>>]
        /\ Answer(Range(messages[pending_channels[p]]), "err")
    BY <1>2 DEF on_dial_failure
  <2>2. messages' \in [Chans -> Seq(Requests)]
    BY <1>2, <2>1 DEF TypeOK
  <2> QED
    BY <2>1, <2>2, AnswerType
<1> QED
  BY <1>1, <1>2

\* on_dial_skipped leaves the pending channels of other peers alone, and
\* removes that of its peer if the peer is connected.
LEMMA DialSkippedFacts ==
  ASSUME TypeOK, ConnectionsKnown, NoSenderLeak, establishing = None,
         NEW p \in Peers, on_dial_skipped(p)
  PROVE  /\ pending_channels' \in [Peers -> Chans \cup {None}]
         /\ \A q \in Peers \ {p} : pending_channels'[q] = pending_channels[q]
         /\ pending_channels'[p] # None => pending_channels[p] # None
         /\ Connected(p) => pending_channels'[p] = None
         /\ messages' \in [Chans -> Seq(Requests)]
         /\ state' \in [Requests -> {"idle", "sending", "waiting", "ok", "err", "cancelled"}]
<1> USE NoneAssumption
<1> DEFINE ch == pending_channels[p]
<1>1. PICK s \in connected_sender(p) :
        \/ /\ s = None \/ ch = None
           /\ UNCHANGED <<pending_channels, messages, state>>
        \/ /\ s # None /\ ch # None
           /\ pending_channels' = [pending_channels EXCEPT ![p] = None]
           /\ IF Open(s)
              THEN /\ messages' = [messages EXCEPT ![s] = @ \o messages[ch], ![ch] = <<>>]
                   /\ UNCHANGED state
              ELSE /\ messages' = [messages EXCEPT ![ch] = <<>>]
                   /\ Answer(Range(messages[ch]), "err")
  BY Zenon DEF on_dial_skipped
<1>2. s \in Chans \cup {None}
  BY DEF connected_sender, TypeOK
<1>3. Connected(p) => s # None
  <2> SUFFICES ASSUME Connected(p) PROVE s # None
    OBVIOUS
  <2>1. PICK c \in Conns : established[c] = p
    BY DEF Connected, Range, TypeOK
  <2>2. connections[c] = p
    BY <2>1 DEF ConnectionsKnown
  <2>3. PICK d \in Conns : connections[d] = p /\ s = senders[d]
    BY <2>2 DEF connected_sender
  <2> QED
    BY <2>3 DEF ConnectionsKnown, NoSenderLeak
<1>4. CASE (s = None \/ ch = None) /\ UNCHANGED <<pending_channels, messages, state>>
  BY <1>3, <1>4 DEF TypeOK
<1>5. CASE /\ s # None /\ ch # None
           /\ pending_channels' = [pending_channels EXCEPT ![p] = None]
           /\ messages' = [messages EXCEPT ![s] = @ \o messages[ch], ![ch] = <<>>]
           /\ UNCHANGED state
  <2>1. ch \in Chans /\ s \in Chans
    BY <1>2, <1>5 DEF TypeOK
  <2>2. messages[s] \o messages[ch] \in Seq(Requests)
    BY <2>1 DEF TypeOK
  <2>3. messages' \in [Chans -> Seq(Requests)]
    <3> DEFINE moved == [messages EXCEPT ![s] = messages[s] \o messages[ch]]
    <3>1. moved \in [Chans -> Seq(Requests)]
      BY <2>1, <2>2 DEF TypeOK
    <3>2. messages' = [moved EXCEPT ![ch] = <<>>]
      BY <1>5, <2>1 DEF TypeOK
    <3>3. <<>> \in Seq(Requests)
      OBVIOUS
    <3> HIDE DEF moved
    <3> QED
      BY <2>1, <3>1, <3>2, <3>3
  <2> QED
    BY <1>5, <2>3, Zenon DEF TypeOK
<1>6. CASE /\ s # None /\ ch # None
           /\ pending_channels' = [pending_channels EXCEPT ![p] = None]
           /\ messages' = [messages EXCEPT ![ch] = <<>>]
           /\ Answer(Range(messages[ch]), "err")
  <2>1. messages' \in [Chans -> Seq(Requests)]
    BY <1>6 DEF TypeOK
  <2>2. state' \in [Requests -> {"idle", "sending", "waiting", "ok", "err", "cancelled"}]
    BY <1>6, AnswerType
  <2> QED
    BY <1>6, <2>1, <2>2 DEF TypeOK
<1> QED
  BY <1>1, <1>4, <1>5, <1>6, Zenon

\* A dial asked for by any behaviour keeps PendingIsServed; a peer whose dial
\* leaves the queue keeps its pending channel only while it is being dialled.
LEMMA DialFacts ==
  ASSUME SharedInv, SwarmIdle, NEW p \in Peers, NEW skip_connected \in BOOLEAN,
         Dial(p, skip_connected)
  PROVE  /\ pending_channels' \in [Peers -> Chans \cup {None}]
         /\ \A q \in Peers \ {p} : pending_channels'[q] = pending_channels[q]
         /\ pending_channels'[p] # None => pending_channels[p] # None
         /\ pending_channels'[p] # None => p \in dialing'
         /\ dialing' \in SUBSET Peers /\ dialing \subseteq dialing'
         /\ messages' \in [Chans -> Seq(Requests)]
         /\ state' \in [Requests -> {"idle", "sending", "waiting", "ok", "err", "cancelled"}]
<1>0. TypeOK /\ ConnectionsKnown /\ NoSenderLeak /\ establishing = None
  BY DEF SharedInv, SwarmIdle
<1>1. CASE /\ p \in dialing \/ (skip_connected /\ Connected(p))
           /\ on_dial_skipped(p)
           /\ UNCHANGED dialing
  BY <1>0, <1>1, DialSkippedFacts DEF TypeOK
<1>2. CASE on_dial_failure(p) /\ UNCHANGED dialing
  BY <1>0, <1>2, DialFailureFacts, Zenon DEF TypeOK
<1>3. CASE dialing' = dialing \cup {p} /\ UNCHANGED <<pending_channels, messages, state>>
  BY <1>0, <1>3 DEF TypeOK
<1> QED
  BY <1>1, <1>2, <1>3 DEF Dial

-----------------------------------------------------------------------------
(***************************************************************************)
(* Steps                                                                   *)
(***************************************************************************)

\* The calls: a new pending channel comes with a dial in the queue, and none
\* is created once the behaviour is closed.
LEMMA CallStep ==
  ASSUME SharedInv, NEW r \in Requests,
         (\E p \in Peers : OpenStream(r, p)) \/ Send(r) \/ Cancel(r)
  PROVE  SharedInv'
<1> USE NoneAssumption DEF handlerVars, swarmVars, sharedVars, callVars
<1>1. ASSUME NEW p \in Peers, OpenStream(r, p)
      PROVE  SharedInv'
  <2>1. PICK s \in connected_sender(p) :
          \/ /\ s # None
             /\ new_stream_sender' = [new_stream_sender EXCEPT ![r] = s]
             /\ state' = [state EXCEPT ![r] = "sending"]
             /\ UNCHANGED <<pending_channels, dial_queue>>
          \/ /\ s = None /\ pending_channels[p] # None
             /\ new_stream_sender' = [new_stream_sender EXCEPT ![r] = pending_channels[p]]
             /\ state' = [state EXCEPT ![r] = "sending"]
             /\ UNCHANGED <<pending_channels, dial_queue>>
          \/ /\ s = None /\ pending_channels[p] = None
             /\ behaviour = "running"
             /\ dial_queue' = Append(dial_queue, p)
             /\ \E ch \in Chans :
                  /\ Fresh(ch)
                  /\ pending_channels' = [pending_channels EXCEPT ![p] = ch]
                  /\ new_stream_sender' = [new_stream_sender EXCEPT ![r] = ch]
             /\ state' = [state EXCEPT ![r] = "sending"]
          \/ /\ s = None /\ pending_channels[p] = None
             /\ behaviour # "running"
             /\ state' = [state EXCEPT ![r] = "err"]
             /\ UNCHANGED <<pending_channels, dial_queue, new_stream_sender>>
    BY <1>1 DEF OpenStream
  <2>2. s \in Chans \cup {None}
    BY DEF connected_sender, SharedInv, TypeOK
  <2>3. /\ target' \in [Requests -> Peers \cup {None}]
        /\ UNCHANGED <<connections, senders, behaviour, messages, receiver_of, pending_upgrade,
                       dialing, established, establishing>>
    BY <1>1 DEF OpenStream, SharedInv, TypeOK
  <2>4. ConnectionsKnown' /\ NoSenderLeak'
    BY <2>3, Zenon DEF SharedInv, ConnectionsKnown, NoSenderLeak
  <2>5. CASE /\ UNCHANGED <<pending_channels, dial_queue>>
             /\ \E status \in {"sending", "err"} : state' = [state EXCEPT ![r] = status]
             /\ \E ch \in Chans \cup {None} :
                  \/ new_stream_sender' = [new_stream_sender EXCEPT ![r] = ch]
                  \/ UNCHANGED new_stream_sender
    <3>1. /\ state' \in [Requests -> {"idle", "sending", "waiting", "ok", "err", "cancelled"}]
          /\ new_stream_sender' \in [Requests -> Chans \cup {None}]
      BY <2>5, Zenon DEF SharedInv, TypeOK
    <3> QED
      BY <2>3, <2>4, <2>5, <3>1 DEF SharedInv, TypeOK, PendingIsServed
  <2>6. CASE /\ behaviour = "running"
             /\ dial_queue' = Append(dial_queue, p)
             /\ \E ch \in Chans :
                  /\ pending_channels' = [pending_channels EXCEPT ![p] = ch]
                  /\ new_stream_sender' = [new_stream_sender EXCEPT ![r] = ch]
             /\ state' = [state EXCEPT ![r] = "sending"]
    <3>1. dial_queue' \in Seq(Peers) /\ Range(dial_queue') = Range(dial_queue) \cup {p}
      BY <2>6, AppendFacts DEF SharedInv, TypeOK
    <3>2. TypeOK'
      BY <2>3, <2>6, <3>1 DEF SharedInv, TypeOK
    <3>3. PendingIsServed'
      BY <2>3, <2>6, <3>1 DEF SharedInv, TypeOK, PendingIsServed
    <3> QED
      BY <2>4, <3>2, <3>3 DEF SharedInv
  <2>7. pending_channels[p] \in Chans \cup {None}
    BY DEF SharedInv, TypeOK
  <2> QED
    BY <2>1, <2>2, <2>5, <2>6, <2>7
<1>2. CASE Send(r)
  <2>1. /\ state' \in [Requests -> {"idle", "sending", "waiting", "ok", "err", "cancelled"}]
        /\ new_stream_sender' \in [Requests -> Chans \cup {None}]
    BY <1>2, Zenon DEF Send, SharedInv, TypeOK
  <2>2. messages' \in [Chans -> Seq(Requests)]
    <3> DEFINE ch == new_stream_sender[r]
    <3>1. CASE messages' = [messages EXCEPT ![ch] = Append(messages[ch], r)]
      <4>1. CASE ch \in Chans
        <5>1. Append(messages[ch], r) \in Seq(Requests)
          BY <4>1 DEF SharedInv, TypeOK
        <5> QED
          BY <3>1, <4>1, <5>1 DEF SharedInv, TypeOK
      <4>2. CASE ch \notin Chans
        BY <3>1, <4>2, Zenon DEF SharedInv, TypeOK
      <4> QED
        BY <4>1, <4>2, Zenon
    <3>2. CASE UNCHANGED messages
      BY <3>2 DEF SharedInv, TypeOK
    <3> QED
      BY <1>2, <3>1, <3>2, Zenon DEF Send
  <2> QED
    BY <1>2, <2>1, <2>2 DEF Send, SharedInv, TypeOK, ConnectionsKnown, NoSenderLeak, PendingIsServed
<1>3. CASE Cancel(r)
  BY <1>3 DEF Cancel, SharedInv, TypeOK, ConnectionsKnown, NoSenderLeak, PendingIsServed
<1> QED
  BY <1>1, <1>2, <1>3

\* The dials: a skipped dial leaves no pending channel of a connected peer
\* behind, a failed one none at all.
LEMMA DialStep ==
  ASSUME SharedInv, PollDial \/ \E p \in Peers : OtherDial(p) \/ DialFailed(p)
  PROVE  SharedInv'
<1> USE DEF handlerVars, callVars
<1>1. CASE PollDial
  <2> DEFINE p == Head(dial_queue)
  <2>1. /\ dial_queue' = Tail(dial_queue) /\ dial_queue # <<>>
        /\ Dial(p, TRUE) /\ SwarmIdle
        /\ UNCHANGED <<connections, senders, behaviour, receiver_of, pending_upgrade, established,
                       establishing, target, new_stream_sender>>
    BY <1>1, Zenon DEF PollDial
  <2>2. /\ dial_queue' \in Seq(Peers)
        /\ p \in Peers
        /\ Range(dial_queue) = {p} \cup Range(dial_queue')
    BY <2>1, TailFacts DEF SharedInv, TypeOK
  <2> HIDE DEF p
  <2>3. /\ pending_channels' \in [Peers -> Chans \cup {None}]
        /\ \A q \in Peers \ {p} : pending_channels'[q] = pending_channels[q]
        /\ pending_channels'[p] # None => p \in dialing'
        /\ dialing' \in SUBSET Peers /\ dialing \subseteq dialing'
        /\ messages' \in [Chans -> Seq(Requests)]
        /\ state' \in [Requests -> {"idle", "sending", "waiting", "ok", "err", "cancelled"}]
    BY <2>1, <2>2, DialFacts, Zenon
  <2>4. TypeOK'
    BY <2>1, <2>2, <2>3 DEF SharedInv, TypeOK
  <2>5. ConnectionsKnown' /\ NoSenderLeak'
    BY <2>1 DEF SharedInv, ConnectionsKnown, NoSenderLeak
  <2>6. PendingIsServed'
    BY <2>1, <2>2, <2>3 DEF SharedInv, PendingIsServed, SwarmIdle
  <2> QED
    BY <2>4, <2>5, <2>6 DEF SharedInv
<1>2. ASSUME NEW p \in Peers, OtherDial(p)
      PROVE  SharedInv'
  <2>1. PICK skip_connected \in BOOLEAN : Dial(p, skip_connected)
    BY <1>2 DEF OtherDial
  <2>2. /\ SwarmIdle
        /\ UNCHANGED <<connections, senders, dial_queue, behaviour, receiver_of, pending_upgrade,
                       established, establishing, target, new_stream_sender>>
    BY <1>2 DEF OtherDial
  <2>3. /\ pending_channels' \in [Peers -> Chans \cup {None}]
        /\ \A q \in Peers \ {p} : pending_channels'[q] = pending_channels[q]
        /\ pending_channels'[p] # None => p \in dialing'
        /\ dialing' \in SUBSET Peers /\ dialing \subseteq dialing'
        /\ messages' \in [Chans -> Seq(Requests)]
        /\ state' \in [Requests -> {"idle", "sending", "waiting", "ok", "err", "cancelled"}]
    BY <2>1, <2>2, DialFacts
  <2>4. TypeOK'
    BY <2>2, <2>3 DEF SharedInv, TypeOK
  <2>5. ConnectionsKnown' /\ NoSenderLeak'
    BY <2>2 DEF SharedInv, ConnectionsKnown, NoSenderLeak
  <2>6. PendingIsServed'
    BY <2>2, <2>3 DEF SharedInv, PendingIsServed, SwarmIdle
  <2> QED
    BY <2>4, <2>5, <2>6 DEF SharedInv
<1>3. ASSUME NEW p \in Peers, DialFailed(p)
      PROVE  SharedInv'
  <2>1. /\ on_dial_failure(p)
        /\ dialing' = dialing \ {p}
        /\ UNCHANGED <<connections, senders, dial_queue, behaviour, receiver_of, pending_upgrade,
                       established, establishing, target, new_stream_sender>>
    BY <1>3 DEF DialFailed
  <2>2. /\ pending_channels' = [pending_channels EXCEPT ![p] = None]
        /\ messages' \in [Chans -> Seq(Requests)]
        /\ state' \in [Requests -> {"idle", "sending", "waiting", "ok", "err", "cancelled"}]
    BY <2>1, DialFailureFacts DEF SharedInv
  <2>3. TypeOK'
    BY <2>1, <2>2 DEF SharedInv, TypeOK
  <2>4. ConnectionsKnown' /\ NoSenderLeak'
    BY <2>1, Zenon DEF SharedInv, ConnectionsKnown, NoSenderLeak
  <2>5. PendingIsServed'
    BY <2>1, <2>2 DEF SharedInv, TypeOK, PendingIsServed
  <2> QED
    BY <2>3, <2>4, <2>5 DEF SharedInv
<1> QED
  BY <1>1, <1>2, <1>3

\* The connections: a new one takes the pending channel of its peer, a closed
\* one takes its sender with it.
LEMMA ConnectionStep ==
  ASSUME SharedInv,
         \/ \E p \in Peers, c \in Conns : DialSucceeded(p, c) \/ Inbound(p, c)
         \/ on_connection_established
         \/ \E c \in Conns : on_connection_closed(c)
  PROVE  SharedInv'
<1> USE NoneAssumption DEF handlerVars, callVars
<1>1. ASSUME NEW p \in Peers, NEW c \in Conns, DialSucceeded(p, c) \/ Inbound(p, c)
      PROVE  SharedInv'
  <2>1. /\ NewConnection(p, c)
        /\ dialing' = dialing \/ dialing' = dialing \ {p}
    BY <1>1 DEF DialSucceeded, Inbound
  <2>2. PICK ch \in Chans :
          /\ pending_channels' = [pending_channels EXCEPT ![p] = None]
          /\ senders' = [senders EXCEPT ![c] = ch]
          /\ receiver_of' = [receiver_of EXCEPT ![c] = ch]
    BY <2>1, Zenon DEF NewConnection, receiver
  <2>3. /\ SwarmIdle /\ established[c] = None
        /\ established' = [established EXCEPT ![c] = p]
        /\ establishing' = c
        /\ UNCHANGED <<connections, dial_queue, behaviour, messages, pending_upgrade, state,
                       target, new_stream_sender>>
    BY <2>1, Zenon DEF NewConnection
  <2>4. TypeOK'
    BY <2>1, <2>2, <2>3 DEF SharedInv, TypeOK
  <2>5. ConnectionsKnown'
    BY <2>3 DEF SharedInv, TypeOK, ConnectionsKnown, SwarmIdle
  <2>6. NoSenderLeak'
    BY <2>2, <2>3 DEF SharedInv, TypeOK, NoSenderLeak
  <2>7. PendingIsServed'
    BY <2>1, <2>2, <2>3 DEF SharedInv, TypeOK, PendingIsServed
  <2> QED
    BY <2>4, <2>5, <2>6, <2>7 DEF SharedInv
<1>2. CASE on_connection_established
  <2>1. TypeOK'
    BY <1>2 DEF on_connection_established, SharedInv, TypeOK
  <2>2. ConnectionsKnown'
    BY <1>2 DEF on_connection_established, SharedInv, TypeOK, ConnectionsKnown
  <2>3. NoSenderLeak' /\ PendingIsServed'
    BY <1>2, Zenon DEF on_connection_established, SharedInv, NoSenderLeak, PendingIsServed
  <2> QED
    BY <2>1, <2>2, <2>3 DEF SharedInv
<1>3. ASSUME NEW c \in Conns, on_connection_closed(c)
      PROVE  SharedInv'
  <2>1. TypeOK'
    BY <1>3 DEF on_connection_closed, SharedInv, TypeOK
  <2>2. ConnectionsKnown' /\ NoSenderLeak'
    BY <1>3 DEF on_connection_closed, SharedInv, TypeOK, ConnectionsKnown, NoSenderLeak
  <2>3. PendingIsServed'
    BY <1>3, Zenon DEF on_connection_closed, SharedInv, PendingIsServed
  <2> QED
    BY <2>1, <2>2, <2>3 DEF SharedInv
<1> QED
  BY <1>1, <1>2, <1>3

\* The handlers and the shutdown: neither adds a pending channel.
LEMMA HandlerStep ==
  ASSUME SharedInv,
         \/ \E c \in Conns : HandlerDropped(c) \/ HandlerPoll(c) \/ UpgradeDone(c)
         \/ DropClose \/ DropClear
  PROVE  SharedInv'
<1> USE NoneAssumption DEF handlerVars, swarmVars, sharedVars, callVars
<1>1. ASSUME NEW c \in Conns, HandlerDropped(c)
      PROVE  SharedInv'
  <2>1. /\ messages' \in [Chans -> Seq(Requests)]
        /\ receiver_of' \in [Conns -> Chans \cup {None}]
        /\ pending_upgrade' \in [Conns -> Requests \cup {None}]
    BY <1>1 DEF HandlerDropped, SharedInv, TypeOK
  <2>2. state' \in [Requests -> {"idle", "sending", "waiting", "ok", "err", "cancelled"}]
    BY <1>1, AnswerType, Zenon DEF HandlerDropped, SharedInv
  <2> QED
    BY <1>1, <2>1, <2>2, Zenon DEF HandlerDropped, SharedInv, TypeOK, ConnectionsKnown, NoSenderLeak,
                            PendingIsServed
<1>2. ASSUME NEW c \in Conns, HandlerPoll(c)
      PROVE  SharedInv'
  <2> DEFINE ch == receiver_of[c]
  <2>1. ch \in Chans /\ messages[ch] # <<>> /\ messages[ch] \in Seq(Requests)
    BY <1>2 DEF HandlerPoll, SharedInv, TypeOK
  <2>2. Head(messages[ch]) \in Requests /\ Tail(messages[ch]) \in Seq(Requests)
    BY <2>1, TailFacts, Zenon
  <2>3. /\ messages' \in [Chans -> Seq(Requests)]
        /\ pending_upgrade' \in [Conns -> Requests \cup {None}]
    BY <1>2, <2>1, <2>2 DEF HandlerPoll, SharedInv, TypeOK
  <2> QED
    BY <1>2, <2>3 DEF HandlerPoll, SharedInv, TypeOK, ConnectionsKnown, NoSenderLeak, PendingIsServed
<1>3. ASSUME NEW c \in Conns, UpgradeDone(c)
      PROVE  SharedInv'
  <2>1. state' \in [Requests -> {"idle", "sending", "waiting", "ok", "err", "cancelled"}]
    BY <1>3, AnswerType DEF UpgradeDone, SharedInv
  <2> QED
    BY <1>3, <2>1 DEF UpgradeDone, SharedInv, TypeOK, ConnectionsKnown, NoSenderLeak, PendingIsServed
<1>4. CASE DropClose
  BY <1>4 DEF DropClose, SharedInv, TypeOK, ConnectionsKnown, NoSenderLeak, PendingIsServed, SwarmIdle
<1>5. CASE DropClear
  <2>1. state' \in [Requests -> {"idle", "sending", "waiting", "ok", "err", "cancelled"}]
    BY <1>5, AnswerType, Zenon DEF DropClear, SharedInv
  <2>2. messages' \in [Chans -> Seq(Requests)] /\ dial_queue' \in Seq(Peers)
    BY <1>5 DEF DropClear, SharedInv, TypeOK
  <2> QED
    BY <1>5, <2>1, <2>2, Zenon DEF DropClear, SharedInv, TypeOK, ConnectionsKnown, NoSenderLeak, PendingIsServed
<1> QED
  BY <1>1, <1>2, <1>3, <1>4, <1>5

\* Every step, and stuttering, preserves the invariant.
LEMMA NextSharedInv == SharedInv /\ [Next]_vars => SharedInv'
<1> SUFFICES ASSUME SharedInv, [Next]_vars PROVE SharedInv'
  OBVIOUS
<1>1. CASE Next
  BY <1>1, CallStep, DialStep, ConnectionStep, HandlerStep DEF Next
<1>2. CASE UNCHANGED vars
  BY <1>2 DEF vars, sharedVars, handlerVars, swarmVars, callVars, SharedInv, TypeOK,
              ConnectionsKnown, NoSenderLeak, PendingIsServed
<1> QED
  BY <1>1, <1>2

-----------------------------------------------------------------------------
\* The stream behaviour keeps its invariant.
THEOREM SharedInvariant == Spec => []SharedInv
BY InitSharedInv, NextSharedInv, PTL DEF Spec

\* Every pending channel has a dial that will take or fail it, so no call of
\* open_stream waits in a channel nobody will ever read.
THEOREM PendingIsServedAlways == Spec => []PendingIsServed
<1>1. SharedInv => PendingIsServed
  BY DEF SharedInv
<1> QED
  BY <1>1, SharedInvariant, PTL

\* Shared::senders has an entry for exactly the connections of the swarm, so
\* connection churn leaks none.
THEOREM NoSenderLeakAlways == Spec => []NoSenderLeak
<1>1. SharedInv => NoSenderLeak
  BY DEF SharedInv
<1> QED
  BY <1>1, SharedInvariant, PTL

\* The stronger invariant is kept as well.
THEOREM HeldInvariant == Spec => [](SharedInv /\ HeldInv)
<1>1. Init => HeldInv
  BY InitHeldInv
<1> QED
  BY <1>1, NextHeldInv, SharedInvariant, PTL DEF Spec

\* HeldOnce follows, once sets with at most one member have cardinality at most
\* one (AtMostOne).
LEMMA HeldInvImplies ==
  ASSUME SharedInv, HeldInv,
         \A S : (\A x, y \in S : x = y) => Cardinality(S) <= 1
  PROVE  HeldOnce
<1> USE NoneAssumption
<1>1. /\ TypeOK /\ MessagesOnce /\ CallStates /\ Targets
  BY DEF SharedInv, HeldInv
<1>2. \A ch \in Chans : (messages[ch] # <<>> => Open(ch)) /\ IsInjective(messages[ch])
  BY <1>1, OpenIff, Zenon DEF MessagesOnce
<1>3. ASSUME NEW r \in Requests
      PROVE  /\ Cardinality(Holders(r)) <= 1
             /\ state[r] = "waiting" => Holders(r) # {}
             /\ Holders(r) # {} => state[r] \in {"waiting", "cancelled"}
  <2>1. \A x, y \in Holders(r) : x = y
    BY <1>1 DEF Holders, MessagesOnce, In
  <2>2. Holders(r) # {} <=> HasHolder(r)
    BY DEF Holders, HasHolder, In
  <2>3. Cardinality(Holders(r)) <= 1
    BY <2>1
  <2> QED
    BY <1>1, <2>2, <2>3 DEF CallStates
<1>4. ASSUME NEW c \in Conns, NEW r \in Requests,
             \/ r = pending_upgrade[c]
             \/ receiver_of[c] # None /\ r \in Range(messages[receiver_of[c]])
      PROVE  target[r] = established[c]
  BY <1>1, <1>4 DEF Targets, In
<1> QED
  BY <1>2, <1>3, <1>4, Zenon DEF HeldOnce

-----------------------------------------------------------------------------
(***************************************************************************)
(* The promise of open_stream: every step is one of OpenStreamApi's        *)
(***************************************************************************)

\* the refinement mapping of StreamSharedApi!Api
ApiCalls == [r \in Requests |-> IF Waiting(r) THEN "open" ELSE state[r]]
ApiConnected == {p \in Peers : \E c \in Conns : established[c] = p /\ receiver_of[c] # None}

\* In a step, open calls may fail and nothing else is answered.
OnlyErrors ==
  \A r \in Requests : \/ state'[r] = state[r]
                      \/ Waiting(r) /\ state'[r] \in {"sending", "waiting", "err"}

\* A step in which calls at most fail is a Change of the promise.
LEMMA ChangeStep ==
  ASSUME TypeOK, TypeOK', UNCHANGED target, OnlyErrors
  PROVE  Api!Change
<1> DEFINE R == {r \in Requests : Waiting(r) /\ state'[r] = "err"}
<1>1. ApiConnected' \in SUBSET Peers
  BY DEF ApiConnected
<1>2. R \in SUBSET {r \in Requests : ApiCalls[r] = "open"}
  BY DEF ApiCalls
<1>3. \A r \in Requests : ApiCalls'[r] = IF r \in R THEN "err" ELSE ApiCalls[r]
  BY DEF OnlyErrors, ApiCalls, Waiting
<1>4. ApiCalls' = [r \in Requests |-> IF r \in R THEN "err" ELSE ApiCalls[r]]
  BY <1>3 DEF ApiCalls
<1> HIDE DEF R
<1> QED
  BY <1>1, <1>2, <1>4 DEF Api!Change, ApiCalls, ApiConnected

\* Answering requests with an error only makes waiting calls fail.
LEMMA AnswerErrs ==
  ASSUME NEW R, Answer(R, "err")
  PROVE  OnlyErrors
BY DEF OnlyErrors, Answer, Waiting

\* Shared::new has no call and no connection.
LEMMA InitApi == Init => Api!Init
<1> SUFFICES ASSUME Init PROVE Api!Init
  OBVIOUS
<1>1. \A r \in Requests : ~Waiting(r)
  BY DEF Init, Waiting
<1> QED
  BY <1>1, NoneAssumption DEF Init, Api!Init

\* The steps of the callers.
LEMMA CallerApi ==
  ASSUME SharedInv, SharedInv', NEW r \in Requests,
         (\E p \in Peers : OpenStream(r, p)) \/ Send(r) \/ Cancel(r)
  PROVE  Api!Next
<1>1. TypeOK /\ TypeOK'
  BY DEF SharedInv
<1>2. ASSUME NEW p \in Peers, OpenStream(r, p)
      PROVE  Api!Next
  <2>1. PICK status \in {"sending", "err"} : state' = [state EXCEPT ![r] = status]
    BY <1>2, Zenon DEF OpenStream
  <2>2. /\ state[r] = "idle" /\ target' = [target EXCEPT ![r] = p]
        /\ UNCHANGED <<established, receiver_of>>
    BY <1>2, Zenon DEF OpenStream, handlerVars, swarmVars
  <2>3. \A q \in Requests : state'[q] = IF q = r THEN status ELSE state[q]
    BY <1>1, <2>1 DEF TypeOK
  <2>4. PICK shown \in {"open", "err"} : shown = IF status = "sending" THEN "open" ELSE "err"
    OBVIOUS
  <2>5. ApiCalls' = [ApiCalls EXCEPT ![r] = shown] /\ ApiCalls[r] = "idle"
    BY <2>2, <2>3, <2>4, Zenon DEF ApiCalls, Waiting
  <2>6. UNCHANGED ApiConnected
    BY <2>2, Zenon DEF ApiConnected
  <2>7. Api!Call(r, p)
    BY <2>2, <2>5, <2>6, Zenon DEF Api!Call, ApiCalls, ApiConnected
  <2> QED
    BY <2>7 DEF Api!Next
<1>3. CASE Send(r)
  <2>1. /\ state[r] = "sending" /\ UNCHANGED target
        /\ state' = [state EXCEPT ![r] = "waiting"] \/ state' = [state EXCEPT ![r] = "err"]
    BY <1>3 DEF Send
  <2>2. OnlyErrors
    BY <1>1, <2>1 DEF OnlyErrors, TypeOK, Waiting
  <2>3. Api!Change
    BY <1>1, <2>1, <2>2, ChangeStep
  <2> QED
    BY <2>3 DEF Api!Next
<1>4. CASE Cancel(r)
  <2>1. /\ Waiting(r) /\ state' = [state EXCEPT ![r] = "cancelled"]
        /\ UNCHANGED <<target, established, receiver_of>>
    BY <1>4 DEF Cancel, Waiting, handlerVars, swarmVars
  <2>2. \A q \in Requests : state'[q] = IF q = r THEN "cancelled" ELSE state[q]
    BY <1>1, <2>1 DEF TypeOK
  <2>3. ApiCalls' = [ApiCalls EXCEPT ![r] = "cancelled"] /\ ApiCalls[r] = "open"
    <3>1. \A q \in Requests : ApiCalls'[q] = IF q = r THEN "cancelled" ELSE ApiCalls[q]
      BY <2>2 DEF ApiCalls, Waiting
    <3>2. ApiCalls[r] = "open"
      BY <2>1 DEF ApiCalls
    <3> QED
      BY <3>1, <3>2, Zenon DEF ApiCalls
  <2>4. UNCHANGED ApiConnected
    BY <2>1 DEF ApiConnected
  <2>5. Api!Cancel(r)
    BY <2>1, <2>3, <2>4, Zenon DEF Api!Cancel, ApiCalls, ApiConnected
  <2> QED
    BY <2>5 DEF Api!Next
<1> QED
  BY <1>2, <1>3, <1>4

\* A dial, whether skipped, failed or started, only makes calls fail.
LEMMA DialErrs ==
  ASSUME NEW p, NEW skip_connected \in BOOLEAN, Dial(p, skip_connected) \/ on_dial_failure(p)
  PROVE  OnlyErrors
<1>1. UNCHANGED state \/ \E R : Answer(R, "err")
  <2>1. on_dial_failure(p) => UNCHANGED state \/ \E R : Answer(R, "err")
    BY DEF on_dial_failure
  <2>2. on_dial_skipped(p) => UNCHANGED state \/ \E R : Answer(R, "err")
    BY Zenon DEF on_dial_skipped
  <2> QED
    BY <2>1, <2>2 DEF Dial
<1> QED
  BY <1>1, AnswerErrs DEF OnlyErrors

\* The steps of the swarm and of the connections, but for a negotiated stream.
LEMMA SwarmErrs ==
  ASSUME \/ PollDial
         \/ \E p \in Peers : OtherDial(p) \/ DialFailed(p)
         \/ \E p \in Peers, c \in Conns : DialSucceeded(p, c) \/ Inbound(p, c)
         \/ on_connection_established
         \/ \E c \in Conns : HandlerDropped(c) \/ on_connection_closed(c) \/ HandlerPoll(c)
         \/ DropClose \/ DropClear
         \/ UNCHANGED vars
  PROVE  OnlyErrors /\ UNCHANGED target
<1>1. CASE PollDial
  BY <1>1, DialErrs, Zenon DEF PollDial, callVars
<1>2. ASSUME NEW p \in Peers, OtherDial(p) \/ DialFailed(p)
      PROVE  OnlyErrors /\ UNCHANGED target
  <2>1. CASE OtherDial(p)
    BY <2>1, DialErrs DEF OtherDial, callVars
  <2>2. CASE DialFailed(p)
    BY <2>2, DialErrs, Zenon DEF DialFailed, callVars
  <2> QED
    BY <1>2, <2>1, <2>2
<1>3. CASE \/ \E p \in Peers, c \in Conns : DialSucceeded(p, c) \/ Inbound(p, c)
           \/ on_connection_established
           \/ \E c \in Conns : on_connection_closed(c) \/ HandlerPoll(c)
           \/ DropClose
           \/ UNCHANGED vars
  <2>1. UNCHANGED state /\ UNCHANGED target
    BY <1>3, Zenon DEF DialSucceeded, Inbound, NewConnection, on_connection_established,
                on_connection_closed, HandlerPoll, DropClose, vars, callVars
  <2> QED
    BY <2>1 DEF OnlyErrors
<1>4. CASE \E c \in Conns : HandlerDropped(c)
  <2>1. (\E R : Answer(R, "err")) /\ UNCHANGED target
    BY <1>4 DEF HandlerDropped, callVars
  <2> QED
    BY <2>1, AnswerErrs
<1>5. CASE DropClear
  <2>1. (\E R : Answer(R, "err")) /\ UNCHANGED target
    BY <1>5, Zenon DEF DropClear, callVars
  <2> QED
    BY <2>1, AnswerErrs
<1> QED
  BY <1>1, <1>2, <1>3, <1>4, <1>5

\* A negotiated stream is handed to a call that still waits, and leads to the
\* peer the call named, over the live connection it was negotiated on.
LEMMA UpgradeApi ==
  ASSUME SharedInv, SharedInv', HeldInv, NEW c \in Conns, UpgradeDone(c)
  PROVE  Api!Next
<1> USE NoneAssumption
<1>1. TypeOK /\ TypeOK' /\ ChannelsOwned /\ Targets /\ NoSenderLeak
  BY DEF SharedInv, HeldInv
<1>2. PICK r : r = pending_upgrade[c]
  OBVIOUS
<1>3. PICK result \in {"ok", "err"} : Answer({r}, result)
  BY <1>2 DEF UpgradeDone
<1>4. /\ pending_upgrade[c] # None /\ r \in Requests
      /\ UNCHANGED <<target, established, receiver_of>>
  BY <1>1, <1>2 DEF UpgradeDone, TypeOK, swarmVars, callVars
<1>5. CASE result = "ok" /\ state[r] = "waiting"
  <2>1. \A q \in Requests : state'[q] = IF q = r THEN "ok" ELSE state[q]
    BY <1>3, <1>4, <1>5 DEF Answer
  <2>2. ApiCalls[r] = "open"
    BY <1>4, <1>5 DEF ApiCalls, Waiting
  <2>3. ApiCalls' = [ApiCalls EXCEPT ![r] = "ok"]
    <3>1. \A q \in Requests : ApiCalls'[q] = IF q = r THEN "ok" ELSE ApiCalls[q]
      BY <2>1 DEF ApiCalls, Waiting
    <3> QED
      BY <3>1, Zenon DEF ApiCalls
  <2>4. target[r] = established[c] /\ receiver_of[c] # None
    BY <1>1, <1>2, <1>4, Zenon DEF Targets, ChannelsOwned
  <2>5. established[c] \in Peers
    <3>1. senders[c] # None
      BY <1>1, <2>4, Zenon DEF ChannelsOwned
    <3> QED
      BY <1>1, <3>1 DEF NoSenderLeak, TypeOK
  <2>6. target[r] \in ApiConnected
    BY <2>4, <2>5 DEF ApiConnected
  <2>7. UNCHANGED ApiConnected
    BY <1>4 DEF ApiConnected
  <2>8. Api!Succeed(r)
    BY <1>4, <2>2, <2>3, <2>6, <2>7, Zenon DEF Api!Succeed, ApiCalls, ApiConnected
  <2> QED
    BY <1>4, <2>8, Zenon DEF Api!Next
<1>6. CASE ~(result = "ok" /\ state[r] = "waiting")
  <2>1. OnlyErrors
    BY <1>3, <1>6 DEF OnlyErrors, Answer, Waiting
  <2>2. Api!Change
    BY <1>1, <1>4, <2>1, ChangeStep
  <2> QED
    BY <2>2 DEF Api!Next
<1> QED
  BY <1>5, <1>6

\* Every step of the detailed specification is a step of the promise.
LEMMA NextApi == SharedInv /\ SharedInv' /\ HeldInv /\ [Next]_vars => Api!Next
<1> SUFFICES ASSUME SharedInv, SharedInv', HeldInv, [Next]_vars PROVE Api!Next
  OBVIOUS
<1>1. TypeOK /\ TypeOK'
  BY DEF SharedInv
<1>2. ASSUME OnlyErrors, UNCHANGED target
      PROVE  Api!Next
  <2>1. Api!Change
    BY <1>1, <1>2, ChangeStep
  <2> QED
    BY <2>1 DEF Api!Next
<1>3. ASSUME NEW r \in Requests, (\E p \in Peers : OpenStream(r, p)) \/ Send(r) \/ Cancel(r)
      PROVE  Api!Next
  BY <1>3, CallerApi
<1>4. ASSUME NEW c \in Conns, UpgradeDone(c)
      PROVE  Api!Next
  BY <1>4, UpgradeApi
<1> QED
  BY <1>2, <1>3, <1>4, SwarmErrs DEF Next

-----------------------------------------------------------------------------
LOCAL FS == INSTANCE FiniteSetTheorems

\* A set whose members are all equal has at most one.
LEMMA AtMostOne == \A S : (\A x, y \in S : x = y) => Cardinality(S) <= 1
<1> SUFFICES ASSUME NEW S, \A x, y \in S : x = y
             PROVE  Cardinality(S) <= 1
  OBVIOUS
<1>1. \A T : FS!Cardinality(T) = Cardinality(T)
  BY DEF FS!Cardinality, Cardinality
<1>2. CASE S = {}
  BY <1>1, <1>2, FS!FS_EmptySet
<1>3. ASSUME NEW x \in S
      PROVE  Cardinality(S) <= 1
  <2>1. S = {x}
    BY <1>3
  <2> QED
    BY <1>1, <2>1, FS!FS_Singleton
<1> QED
  BY <1>2, <1>3

\* open_stream's requests: each waits in exactly one channel or handler until
\* it is answered, and only where it leads to the peer the caller named.
THEOREM HeldOnceAlways == Spec => []HeldOnce
<1>1. SharedInv /\ HeldInv => HeldOnce
  BY HeldInvImplies, AtMostOne
<1> QED
  BY <1>1, HeldInvariant, PTL

\* Shared, the handlers and the swarm implement the safety part of what
\* open_stream promises (ImplementsApi without the fairness): a call returns
\* at most once, and a stream it returns is of the peer it named, which has a
\* live connection at that moment.
THEOREM ImplementsApiSafely == Spec => Api!Spec
<1>1. Init => Api!Init
  BY InitApi
<1>2. SharedInv /\ SharedInv' /\ HeldInv /\ [Next]_vars => [Api!Next]_Api!vars
  BY NextApi
<1> QED
  BY <1>1, <1>2, HeldInvariant, PTL DEF Spec, Api!Spec
=============================================================================
