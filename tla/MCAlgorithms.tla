---------------------------- MODULE MCAlgorithms ----------------------------
(***************************************************************************)
(* The sequential algorithms for TLC, each on its own: a behaviour is one  *)
(* search, one RangeSet that is extended, one query with its signatures,   *)
(* or the messages of one gossip source.                                   *)
(***************************************************************************)
EXTENDS Searches, RangeSets, QuerySignatures, Pubsub

CONSTANTS
  MaxLen,      \* bound: elements of a vector
  Algorithms   \* the algorithms to run

VARIABLE running

allVars == <<vars, rangeVars, queryVars, gossipVars, running>>

\* every vector of up to MaxLen elements, sorted or not; -1 is a chunk without
\* a timestamp
SmallVectors == UNION {[1..n -> -1..2] : n \in 0..MaxLen}

\* every one or two ranges, and none
SmallBatches == UNION {[1..n -> RangeType] : n \in 0..2}

\* valid and invalid ids, engines and formats, one of them too large for a byte
SmallQueries ==
  [query_id : {<<1>>}, request_id : {<<1>>, <<2>>}, dataset : {<<0>>, <<1, 0>>},
   query : {<<>>, <<0>>}, chunk_id : {<<>>, <<1>>}, timestamp_ms : {0, 1},
   block_range : {<<>>, <<[begin |-> 0, end |-> 1]>>, <<[begin |-> 1, end |-> 1]>>},
   query_engine : {0, 1, 3}, output_format : {0, 1}]
  \cup
  [query_id : {<<>>, <<1, 0>>}, request_id : {<<1>>}, dataset : {<<0>>}, query : {<<>>},
   chunk_id : {<<>>}, timestamp_ms : {0}, block_range : {<<>>}, query_engine : {0},
   output_format : {0}]

SmallKeys == {<<1>>, <<1, 0>>}

SmallResults ==
  [query_id : {<<1>>, <<2>>},
   result : {<<>>} \cup {<<[ok |-> FALSE, code |-> c]>> : c \in 0..2}
            \cup {<<[ok |-> TRUE, data |-> d, last_block |-> b]>> : d \in 0..2, b \in 0..2}]

NoSearch ==
  /\ fn = "find_chunk" /\ v = <<>> /\ key = 0 /\ left = -1 /\ right = 0
  /\ pc = "done" /\ result = None

AlgorithmsInit ==
  /\ running \in Algorithms
  /\ IF running = "search" THEN Init ELSE NoSearch
  /\ RangeInit /\ QueryInit /\ GossipInit

AlgorithmsNext ==
  /\ UNCHANGED running
  /\ \/ running = "search" /\ Next /\ UNCHANGED <<rangeVars, queryVars, gossipVars>>
     \/ running = "ranges" /\ RangeNext /\ UNCHANGED <<vars, queryVars, gossipVars>>
     \/ running = "query" /\ QueryNext /\ UNCHANGED <<vars, rangeVars, gossipVars>>
     \/ running = "gossip" /\ GossipNext /\ UNCHANGED <<vars, rangeVars, queryVars>>

\* a search runs to its end
AlgorithmsSpec == AlgorithmsInit /\ [][AlgorithmsNext]_allVars /\ WF_vars(Next)
=============================================================================
