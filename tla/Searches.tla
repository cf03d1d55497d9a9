------------------------------ MODULE Searches ------------------------------
(***************************************************************************)
(* The searches of the assignment readers                                  *)
(* (crates/assignments/src/reader.rs), one step per loop iteration:        *)
(* partition_point of the worker and portal assignments,                   *)
(* lookup_index_by_key for workers, and binary_search_by with what         *)
(* find_chunk and find_chunk_by_timestamp of the legacy assignment make of *)
(* it.  A behaviour is one call, on one vector.                            *)
(***************************************************************************)
EXTENDS Integers, Sequences

CONSTANTS
  Vectors,  \* the vectors searched: keys, first blocks or timestamps
  Keys      \* what is searched for

ASSUME InputAssumption == Vectors \subseteq Seq(Int) /\ Keys \subseteq Nat

VARIABLES
  fn,      \* the function called
  v,       \* the vector
  key,     \* the key, block or timestamp
  left,    \* `left' or `low'
  right,   \* `right' or `high'
  pc,      \* "loop", then "walk" in find_chunk_by_timestamp, then "done"
  result   \* the index returned, None if there is none

vars == <<fn, v, key, left, right, pc, result>>

Partitions == {"at_most", "below"}  \* partition_point, with `<= key' and `< key'
Legacy == {"find_chunk", "find_chunk_by_timestamp"}
Searchers == Partitions \cup Legacy \cup {"lookup_index_by_key"}

None == -1

At(i) == v[i + 1]

\* last_block_timestamp().unwrap_or(0): a chunk may have no timestamp
Item(i) == IF fn = "find_chunk_by_timestamp" /\ At(i) = None THEN 0 ELSE At(i)

TypeOK ==
  /\ fn \in Searchers
  /\ v \in Vectors
  /\ key \in Keys
  /\ left \in -1..Len(v)
  /\ right \in -1..Len(v)
  /\ pc \in {"loop", "walk", "done"}
  /\ result \in -1..Len(v)

Init ==
  /\ fn \in Searchers
  /\ v \in Vectors
  /\ key \in Keys
  /\ left = IF fn \in Legacy THEN -1 ELSE 0
  /\ right = IF fn = "lookup_index_by_key" THEN Len(v) - 1 ELSE Len(v)
  /\ pc = IF fn = "lookup_index_by_key" /\ v = <<>> THEN "done" ELSE "loop"
  /\ result = None

Return(i) ==
  /\ pc' = "done"
  /\ result' = i
  /\ UNCHANGED <<fn, v, key, left, right>>

Narrow(l, r) ==
  /\ left' = l
  /\ right' = r
  /\ UNCHANGED <<fn, v, key, pc, result>>

-----------------------------------------------------------------------------
(***************************************************************************)
(* partition_point                                                         *)
(***************************************************************************)

Pred(i) == IF fn = "at_most" THEN At(i) <= key ELSE At(i) < key

\* mutant: the probe at `mid' is not excluded
PartitionPointKeepsMid ==
  /\ fn \in Partitions /\ pc = "loop"
  /\ LET mid == left + (right - left) \div 2 IN
     \/ left < right /\ Pred(mid) /\ Narrow(mid + 1, right)
     \/ left < right /\ ~Pred(mid) /\ Narrow(left, mid - 1)
     \/ left >= right /\ Return(left)

\* mutant: the loop does not move when it probes `left'
PartitionPointStalls ==
  /\ fn \in Partitions /\ pc = "loop"
  /\ LET mid == left + (right - left) \div 2 IN
     \/ left < right /\ Pred(mid) /\ Narrow(mid, right)
     \/ left < right /\ ~Pred(mid) /\ Narrow(left, mid)
     \/ left >= right /\ Return(left)

partition_point ==
  /\ fn \in Partitions /\ pc = "loop"
  /\ LET mid == left + (right - left) \div 2 IN
     \/ left < right /\ Pred(mid) /\ Narrow(mid + 1, right)
     \/ left < right /\ ~Pred(mid) /\ Narrow(left, mid)
     \/ left >= right /\ Return(left)

(***************************************************************************)
(* lookup_index_by_key                                                     *)
(***************************************************************************)

\* mutant: a probe of the first element is not told from the others
LookupUnderflows ==
  /\ fn = "lookup_index_by_key" /\ pc = "loop"
  /\ LET mid == (left + right) \div 2 IN
     \/ left <= right /\ At(mid) = key /\ Return(mid)
     \/ left <= right /\ At(mid) < key /\ Narrow(mid + 1, right)
     \/ left <= right /\ At(mid) > key /\ Narrow(left, mid - 1)
     \/ left > right /\ Return(None)

\* mutant: the loop ends when one element is left
LookupSkipsLast ==
  /\ fn = "lookup_index_by_key" /\ pc = "loop"
  /\ LET mid == (left + right) \div 2 IN
     \/ left < right /\ At(mid) = key /\ Return(mid)
     \/ left < right /\ At(mid) < key /\ Narrow(mid + 1, right)
     \/ left < right /\ At(mid) > key /\ IF mid = 0 THEN Return(None) ELSE Narrow(left, mid - 1)
     \/ left >= right /\ Return(None)

lookup_index_by_key ==
  /\ fn = "lookup_index_by_key" /\ pc = "loop"
  /\ LET mid == (left + right) \div 2 IN
     \/ left <= right /\ At(mid) = key /\ Return(mid)
     \/ left <= right /\ At(mid) < key /\ Narrow(mid + 1, right)
     \/ left <= right /\ At(mid) > key /\ IF mid = 0 THEN Return(None) ELSE Narrow(left, mid - 1)
     \/ left > right /\ Return(None)

(***************************************************************************)
(* binary_search_by, and what its callers do with Ok(i) and Err(i)         *)
(***************************************************************************)

\* find_chunk takes both; find_chunk_by_timestamp goes on from `i'
Found(i) ==
  IF fn = "find_chunk"
  THEN Return(i)
  ELSE /\ pc' = "walk"
       /\ result' = i
       /\ UNCHANGED <<fn, v, key, left, right>>

\* mutant: the element before the last one below the key is returned
NotFoundBefore ==
  IF fn = "find_chunk"
  THEN Return(IF left = None THEN None ELSE left - 1)
  ELSE IF left + 1 < Len(v) THEN Found(left + 1) ELSE Return(None)

\* `left' is the last element below the key, -1 if there is none
NotFound ==
  IF fn = "find_chunk"
  THEN Return(left)
  ELSE IF left + 1 < Len(v) THEN Found(left + 1) ELSE Return(None)

binary_search_by ==
  /\ fn \in Legacy /\ pc = "loop"
  /\ LET mid == (left + right) \div 2 IN
     \/ left + 1 < right /\ Item(mid) < key /\ Narrow(mid, right)
     \/ left + 1 < right /\ Item(mid) > key /\ Narrow(left, mid)
     \/ left + 1 < right /\ Item(mid) = key /\ Found(mid)
     \/ left + 1 >= right /\ NotFound

\* chunks may share a timestamp: walk to the first of them
WalkBack ==
  /\ pc = "walk"
  /\ IF At(result) = key /\ result > 0 /\ At(result - 1) = key
     THEN /\ result' = result - 1
          /\ UNCHANGED <<fn, v, key, left, right, pc>>
     ELSE Return(result)

Next == partition_point \/ lookup_index_by_key \/ binary_search_by \/ WalkBack

Spec == Init /\ [][Next]_vars

\* a call runs to its end
FairSpec == Spec /\ WF_vars(Next)

-----------------------------------------------------------------------------
(***************************************************************************)
(* Properties                                                              *)
(***************************************************************************)

Indices == 0..Len(v) - 1

\* Only the legacy search takes `left' below zero, and no probe leaves the
\* vector, sorted or not: the readers index the columns of a file another
\* node wrote, and usize arithmetic would wrap.
InBounds ==
  /\ fn \notin Legacy /\ pc = "loop" => left >= 0 /\ right >= 0
  /\ pc = "loop" =>
       /\ fn \in Partitions /\ left < right => left + (right - left) \div 2 \in Indices
       /\ fn = "lookup_index_by_key" /\ left <= right => (left + right) \div 2 \in Indices
       /\ fn \in Legacy /\ left + 1 < right => (left + right) \div 2 \in Indices
  /\ pc = "walk" => result \in Indices

Ascending == \A i, j \in Indices : i <= j => Item(i) <= Item(j)

\* partition_point on an ascending column returns the number of elements its
\* predicate holds for: `top_at', find_chunk and find_chunk_by_timestamp
\* subtract one from it, or use it as the first index past them.
PartitionCorrect ==
  pc = "done" /\ fn \in Partitions /\ Ascending =>
    \A i \in Indices : Pred(i) <=> i < result

\* get_worker finds a worker exactly if the list, sorted by peer id, has it.
LookupCorrect ==
  pc = "done" /\ fn = "lookup_index_by_key" /\ Ascending =>
    \/ result \in Indices /\ At(result) = key
    \/ result = None /\ \A i \in Indices : At(i) # key

\* "find last chunk with first_block <= block" (reader.rs:163): the legacy
\* find_chunk returns that chunk, or BeforeFirst, when first blocks strictly
\* ascend.
FindChunkCorrect ==
  pc = "done" /\ fn = "find_chunk" /\ (\A i, j \in Indices : i < j => At(i) < At(j)) =>
    /\ result \in Indices \cup {None}
    /\ \A i \in Indices : At(i) <= key <=> i <= result

\* "find first chunk with last_block_timestamp >= ts" (reader.rs:182): also
\* when several chunks share the timestamp, and when the first ones have none.
\* A chunk without a timestamp cannot be found by the timestamp 0.
ByTimestampCorrect ==
  pc = "done" /\ fn = "find_chunk_by_timestamp" /\ Ascending /\ key > 0 =>
    \/ result \in Indices /\ \A i \in Indices : Item(i) >= key <=> i >= result
    \/ result = None /\ \A i \in Indices : Item(i) < key

\* Both legacy lookups return what a scan of the chunks would.
LegacyCorrect == FindChunkCorrect /\ ByTimestampCorrect

\* All searches return what a scan would, on columns in their order.
SearchesCorrect == PartitionCorrect /\ LookupCorrect /\ LegacyCorrect

\* Every search ends, whatever the vector.
Terminates == <>(pc = "done")
=============================================================================
