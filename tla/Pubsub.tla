------------------------------- MODULE Pubsub -------------------------------
(***************************************************************************)
(* Gossipsub message validation (crates/transport/src/behaviour/pubsub.rs).*)
(* Gossipsub hands over a message and waits for a verdict; an accepted     *)
(* message is forwarded to the mesh and to the application.  Sequence      *)
(* numbers are timestamps; one clock tick stands for both a nanosecond of  *)
(* timestamp_now and a unit of Instant.  Delivery (order, duplicates,      *)
(* which source) is external.                                              *)
(***************************************************************************)
EXTENDS Naturals, Sequences, FiniteSets, FiniteSetsExt

CONSTANTS
  Topics,
  Sources,      \* the peers messages come from
  MinInterval,  \* MsgValidationConfig::min_interval, in ticks
  MaxBurst,     \* MsgValidationConfig::max_burst
  KeepLast,     \* MsgValidationConfig::keep_last
  MaxTime,      \* bound: the last tick
  MaxSeqNo      \* bound: the largest sequence number sent

\* MsgValidationConfig::new sets max_burst to 1
ASSUME GossipAssumption ==
  /\ MinInterval \in Nat /\ KeepLast \in Nat /\ MaxSeqNo \in Nat
  /\ MaxBurst \in Nat /\ MaxBurst >= 1

VARIABLES
  now,          \* timestamp_now() and Instant::now()
  topics,       \* PubsubBehaviour::topics
  peer_states,  \* TopicState::peer_states; {} for an unknown peer
  accepted,     \* the messages accepted so far, with their time
  verdict       \* the last MessageAcceptance reported to gossipsub

gossipVars == <<now, topics, peer_states, accepted, verdict>>

Streams == Topics \X Sources

GossipInit ==
  /\ now = 1
  /\ topics = {}
  /\ peer_states = [s \in Streams |-> {}]
  /\ accepted = [s \in Streams |-> <<>>]
  /\ verdict = "none"

-----------------------------------------------------------------------------
Tick ==
  /\ now < MaxTime
  /\ now' = now + 1
  /\ UNCHANGED <<topics, peer_states, accepted, verdict>>

\* a topic already subscribed keeps its state
subscribe(t) ==
  /\ topics' = topics \cup {t}
  /\ UNCHANGED <<now, peer_states, accepted, verdict>>

NewPeerState(seq_no) == [last_seq_no |-> seq_no, last_time |-> now, burst |-> 1]

\* mutant: the message that opens a window is not counted
CountInFromZero(st) ==
  IF now - st.last_time < MinInterval
  THEN [st EXCEPT !.burst = Min({@ + 1, MaxBurst + 1})]
  ELSE [st EXCEPT !.last_time = now, !.burst = 0]

\* the rate limit of PeerState::validate_msg counts the message in
CountIn(st) ==
  IF now - st.last_time < MinInterval
  THEN [st EXCEPT !.burst = Min({@ + 1, MaxBurst + 1})]
  ELSE [st EXCEPT !.last_time = now, !.burst = 1]

\* mutant: the sequence number is taken over before the rate limit is applied
ValidateEarlyUpdate(st, seq_no) ==
  IF seq_no = 0 \/ seq_no > now
  THEN [verdict |-> "reject", state |-> st]
  ELSE IF seq_no + KeepLast <= st.last_seq_no
  THEN [verdict |-> "ignore", state |-> st]
  ELSE LET counted == [CountIn(st) EXCEPT !.last_seq_no = Max({@, seq_no})]
       IN [verdict |-> IF counted.burst > MaxBurst THEN "ignore" ELSE "accept", state |-> counted]

\* mutant: the last sequence number can go back
ValidateGoesBack(st, seq_no) ==
  IF seq_no = 0 \/ seq_no > now
  THEN [verdict |-> "reject", state |-> st]
  ELSE IF seq_no + KeepLast <= st.last_seq_no
  THEN [verdict |-> "ignore", state |-> st]
  ELSE LET counted == CountIn(st)
       IN IF counted.burst > MaxBurst
          THEN [verdict |-> "ignore", state |-> counted]
          ELSE [verdict |-> "accept", state |-> [counted EXCEPT !.last_seq_no = seq_no]]

\* PeerState::validate_msg: the verdict, and the state it leaves
validate_msg(st, seq_no) ==
  IF seq_no = 0 \/ seq_no > now
  THEN [verdict |-> "reject", state |-> st]
  ELSE IF seq_no + KeepLast <= st.last_seq_no
  THEN [verdict |-> "ignore", state |-> st]
  ELSE LET counted == CountIn(st)
       IN IF counted.burst > MaxBurst
          THEN [verdict |-> "ignore", state |-> counted]
          ELSE [verdict |-> "accept",
                state |-> [counted EXCEPT !.last_seq_no = Max({@, seq_no})]]

\* TopicState::validate_msg once the custom validator agrees: the first
\* message of a source sets up its state
TopicValidate(s, seq_no) ==
  IF peer_states[s] = {}
  THEN [verdict |-> "accept", state |-> NewPeerState(seq_no)]
  ELSE validate_msg(CHOOSE st \in peer_states[s] : TRUE, seq_no)

\* an anonymous message, one without sequence number or of an unknown topic
\* (rejected), or one the topic's custom validator refuses either way
OnUnusableMessage ==
  /\ \/ verdict' = "reject"
     \/ topics # {} /\ verdict' = "ignore"
  /\ UNCHANGED <<now, topics, peer_states, accepted>>

\* on_inner_event with a signed message of a subscribed topic
OnMessage(s, seq_no) ==
  LET result == TopicValidate(s, seq_no) IN
  /\ s[1] \in topics
  /\ verdict' = result.verdict
  /\ peer_states' = [peer_states EXCEPT ![s] = {result.state}]
  /\ accepted' = IF result.verdict = "accept"
                 THEN [accepted EXCEPT ![s] = Append(@, [seq_no |-> seq_no, time |-> now])]
                 ELSE accepted
  /\ UNCHANGED <<now, topics>>

GossipNext ==
  \/ Tick
  \/ \E t \in Topics : subscribe(t)
  \/ OnUnusableMessage
  \/ \E s \in Streams, seq_no \in 0..MaxSeqNo : OnMessage(s, seq_no)

GossipSpec == GossipInit /\ [][GossipNext]_gossipVars

-----------------------------------------------------------------------------
(***************************************************************************)
(* Properties                                                              *)
(***************************************************************************)

\* keep_last is "how far back from the latest seq_no is accepted": no message
\* is accepted that is keep_last or more behind one accepted before it, so
\* with keep_last = 0 the accepted sequence numbers increase.
AcceptedInOrder ==
  \A s \in Streams : \A j \in DOMAIN accepted[s] : \A i \in 1..(j - 1) :
    accepted[s][j].seq_no + KeepLast > accepted[s][i].seq_no

\* The rate limit: an interval shorter than min_interval sees at most
\* 2 * max_burst - 1 accepted messages of one source, however the messages
\* are spread over the windows (with max_burst = 1, messages are min_interval
\* apart).
RateLimited ==
  \A s \in Streams : \A i \in DOMAIN accepted[s] :
    LET j == i + 2 * MaxBurst - 1
    IN j \in DOMAIN accepted[s] => accepted[s][j].time - accepted[s][i].time >= MinInterval

\* A message that is not accepted does not move the source's last_seq_no: a
\* message dropped by the rate limit cannot make the next ones old.
DroppedDoesNotAdvance ==
  \A s \in Streams : \A st \in peer_states[s] : \A st2 \in peer_states'[s] :
    st2.last_seq_no # st.last_seq_no => accepted'[s] # accepted[s]

\* Messages stay in order: none is accepted that is keep_last or more behind an
\* earlier one, and one that validate_msg drops does not make later ones old.
GossipInOrder == [][AcceptedInOrder' /\ DroppedDoesNotAdvance]_gossipVars

\* "Sequence numbers should be timestamp-based, can't be from the future"
\* (pubsub.rs:140): no message is accepted with a sequence number later than
\* the time it is accepted at.
NotFromFuture ==
  \A s \in Streams : \A i \in DOMAIN accepted[s] :
    accepted[s][i].seq_no <= accepted[s][i].time
=============================================================================
