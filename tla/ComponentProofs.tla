---------------------------- MODULE ComponentProofs ---------------------------
(***************************************************************************)
(* The smaller components, for every bound of their models.  The searches  *)
(* of Searches never probe outside their vector and return what they       *)
(* promise.  RangeSet::extend keeps the set it stands for, and its list    *)
(* sorted and separated (RangeSets).  The list of log collectors is that   *)
(* of the running lookup (LogListeners).  Logs travel from portals to      *)
(* collectors (PortalLogs), and streams keep connections (KeepAlive).      *)
(***************************************************************************)
EXTENDS Searches, RangeSets, LogListeners, PortalLogs, KeepAlive, TLAPS

(***************************************************************************)
(* Searches                                                                *)
(***************************************************************************)

\* where each search is, between two iterations: what lies left of `left' and
\* right of `right' has been told apart from the key
LoopInv ==
  pc = "loop" =>
    /\ fn \in Partitions =>
         /\ 0 <= left /\ left <= right /\ right <= Len(v)
         /\ Ascending => /\ \A n \in Indices : n < left => Pred(n)
                         /\ \A n \in Indices : n >= right => ~Pred(n)
    /\ fn = "lookup_index_by_key" =>
         /\ 0 <= left /\ left <= right + 1 /\ 0 <= right /\ right < Len(v)
         /\ Ascending => /\ \A n \in Indices : n < left => At(n) < key
                         /\ \A n \in Indices : n > right => At(n) > key
    /\ fn \in Legacy =>
         /\ -1 <= left /\ left < right /\ right <= Len(v)
         /\ Ascending => /\ \A n \in Indices : n <= left => Item(n) < key
                         /\ \A n \in Indices : n >= right => Item(n) > key

\* while find_chunk_by_timestamp walks back, nothing below the key lies at or
\* after `result'
WalkInv ==
  pc = "walk" =>
    /\ fn = "find_chunk_by_timestamp"
    /\ result \in Indices
    /\ Ascending => /\ Item(result) >= key
                    /\ Item(result) # key => \A n \in Indices : n < result => Item(n) < key

DoneInv == PartitionCorrect /\ LookupCorrect /\ FindChunkCorrect /\ ByTimestampCorrect

SearchInv == TypeOK /\ LoopInv /\ WalkInv /\ DoneInv

-----------------------------------------------------------------------------
\* a probe lies between its bounds
LEMMA Midpoint ==
  ASSUME NEW a \in Int, NEW b \in Int, a < b
  PROVE  /\ (a + b) \div 2 \in Int /\ a <= (a + b) \div 2 /\ (a + b) \div 2 < b
         /\ a + (b - a) \div 2 \in Int /\ a <= a + (b - a) \div 2 /\ a + (b - a) \div 2 < b
OBVIOUS

LEMMA VectorType ==
  ASSUME TypeOK
  PROVE  /\ v \in Seq(Int) /\ Len(v) \in Nat /\ key \in Nat
         /\ \A n \in Indices : At(n) \in Int /\ Item(n) \in Int
BY InputAssumption DEF TypeOK, Indices, At, Item, None

\* what a step leaves alone keeps the vocabulary of the invariant in place
LEMMA Vocabulary ==
  ASSUME fn' = fn, v' = v, key' = key
  PROVE  /\ Indices' = Indices
         /\ Ascending' <=> Ascending
         /\ \A n \in Indices : At(n)' = At(n) /\ Item(n)' = Item(n)
         /\ \A n \in Indices : Pred(n)' <=> Pred(n)
BY DEF Indices, Ascending, At, Item, Pred

LEMMA InitInv == Init => SearchInv
<1> SUFFICES ASSUME Init PROVE SearchInv
  OBVIOUS
<1>0. v \in Seq(Int) /\ Len(v) \in Nat /\ key \in Nat
  BY InputAssumption DEF Init
<1>1. TypeOK
  BY <1>0 DEF Init, TypeOK, None, Legacy
<1>2. LoopInv
  BY <1>0, <1>1, VectorType DEF Init, LoopInv, Indices, Legacy, Partitions
<1>3. WalkInv
  BY DEF Init, WalkInv
<1>4. pc = "done" => v = <<>> /\ fn = "lookup_index_by_key" /\ result = None
  BY DEF Init
<1>5. DoneInv
  BY <1>0, <1>4 DEF DoneInv, PartitionCorrect, LookupCorrect, FindChunkCorrect,
                    ByTimestampCorrect, Indices, Partitions
<1> QED
  BY <1>1, <1>2, <1>3, <1>5 DEF SearchInv

-----------------------------------------------------------------------------
LEMMA PartitionStep ==
  ASSUME SearchInv, partition_point
  PROVE  SearchInv'
<1>0. v \in Seq(Int) /\ Len(v) \in Nat /\ key \in Nat /\ TypeOK
  BY VectorType DEF SearchInv
<1>1. fn' = fn /\ v' = v /\ key' = key
  BY DEF partition_point, Narrow, Return
<1>2. /\ fn \in Partitions /\ pc = "loop"
      /\ left \in Int /\ right \in Int
      /\ 0 <= left /\ left <= right /\ right <= Len(v)
  BY <1>0 DEF partition_point, SearchInv, LoopInv, TypeOK
<1>3. Ascending => /\ \A n \in Indices : n < left => Pred(n)
                   /\ \A n \in Indices : n >= right => ~Pred(n)
  BY <1>2 DEF SearchInv, LoopInv
<1>4. fn # "lookup_index_by_key" /\ fn \notin Legacy
  BY <1>2 DEF Partitions, Legacy
<1> DEFINE mid == left + (right - left) \div 2
<1>5. ASSUME left < right PROVE mid \in Int /\ mid \in Indices /\ left <= mid /\ mid < right
  BY <1>0, <1>2, <1>5, Midpoint DEF Indices
<1>6. ASSUME Ascending, NEW n \in Indices, NEW j \in Indices, n <= j
      PROVE  Pred(j) => Pred(n)
  <2>1. At(n) \in Int /\ At(j) \in Int /\ At(n) <= At(j)
    BY <1>0, <1>4, <1>6, VectorType DEF Ascending, Item, Legacy
  <2> QED
    BY <1>0, <2>1 DEF Pred
<1>7. /\ Indices' = Indices /\ (Ascending' <=> Ascending)
       /\ \A n \in Indices : Pred(n)' <=> Pred(n)
  BY <1>1, Vocabulary
<1>8. CASE left < right /\ Pred(mid) /\ Narrow(mid + 1, right)
  <2>1. left' = mid + 1 /\ right' = right /\ pc' = pc /\ result' = result
    BY <1>8 DEF Narrow
  <2> HIDE DEF mid
  <2>2. TypeOK'
    BY <1>0, <1>1, <1>2, <1>5, <1>8, <2>1 DEF TypeOK, Indices
  <2>3. Ascending => \A n \in Indices : n < mid + 1 => Pred(n)
    BY <1>0, <1>5, <1>6, <1>8 DEF Indices
  <2>4. LoopInv'
    BY <1>0, <1>1, <1>2, <1>3, <1>4, <1>5, <1>8, <1>7, <2>1, <2>3 DEF LoopInv
  <2> QED
    BY <1>2, <2>1, <2>2, <2>4
       DEF SearchInv, WalkInv, DoneInv, PartitionCorrect, LookupCorrect, FindChunkCorrect,
           ByTimestampCorrect
<1>9. CASE left < right /\ ~Pred(mid) /\ Narrow(left, mid)
  <2>1. left' = left /\ right' = mid /\ pc' = pc /\ result' = result
    BY <1>9 DEF Narrow
  <2> HIDE DEF mid
  <2>2. TypeOK'
    BY <1>0, <1>1, <1>2, <1>5, <1>9, <2>1 DEF TypeOK, Indices
  <2>3. Ascending => \A n \in Indices : n >= mid => ~Pred(n)
    BY <1>0, <1>5, <1>6, <1>9 DEF Indices
  <2>4. LoopInv'
    BY <1>0, <1>1, <1>2, <1>3, <1>4, <1>5, <1>9, <1>7, <2>1, <2>3 DEF LoopInv
  <2> QED
    BY <1>2, <2>1, <2>2, <2>4
       DEF SearchInv, WalkInv, DoneInv, PartitionCorrect, LookupCorrect, FindChunkCorrect,
           ByTimestampCorrect
<1>10. CASE left >= right /\ Return(left)
  <2>1. left' = left /\ right' = right /\ pc' = "done" /\ result' = left
    BY <1>10 DEF Return
  <2>2. TypeOK'
    BY <1>0, <1>1, <1>2, <2>1 DEF TypeOK
  <2>3. Ascending => \A n \in Indices : Pred(n) <=> n < left
    BY <1>0, <1>2, <1>3, <1>10 DEF Indices
  <2>4. PartitionCorrect'
    BY <1>1, <2>1, <2>3, Vocabulary DEF PartitionCorrect
  <2> QED
    BY <1>1, <1>4, <2>1, <2>2, <2>4, Zenon
       DEF SearchInv, LoopInv, WalkInv, DoneInv, LookupCorrect, FindChunkCorrect,
           ByTimestampCorrect, Legacy
<1> QED
  BY <1>8, <1>9, <1>10 DEF partition_point

LEMMA LookupStep ==
  ASSUME SearchInv, lookup_index_by_key
  PROVE  SearchInv'
<1>0. v \in Seq(Int) /\ Len(v) \in Nat /\ key \in Nat /\ TypeOK
  BY VectorType DEF SearchInv
<1>1. fn' = fn /\ v' = v /\ key' = key
  BY DEF lookup_index_by_key, Narrow, Return
<1>2. /\ fn = "lookup_index_by_key" /\ pc = "loop"
      /\ left \in Int /\ right \in Int
      /\ 0 <= left /\ left <= right + 1 /\ 0 <= right /\ right < Len(v)
  BY <1>0 DEF lookup_index_by_key, SearchInv, LoopInv, TypeOK
<1>3. Ascending => /\ \A n \in Indices : n < left => At(n) < key
                   /\ \A n \in Indices : n > right => At(n) > key
  BY <1>2 DEF SearchInv, LoopInv
<1>4. fn \notin Partitions /\ fn \notin Legacy
  BY <1>2 DEF Partitions, Legacy
<1> DEFINE mid == (left + right) \div 2
<1>5. ASSUME left <= right
      PROVE mid \in Int /\ mid \in Indices /\ left <= mid /\ mid <= right
  BY <1>0, <1>2, <1>5 DEF Indices
<1>6. \A n \in Indices : At(n) \in Int
  BY <1>0, VectorType
<1>7. ASSUME Ascending, NEW n \in Indices, NEW j \in Indices, n <= j
      PROVE  At(n) <= At(j)
  BY <1>4, <1>7 DEF Ascending, Item, Legacy
<1>8. /\ Indices' = Indices /\ (Ascending' <=> Ascending)
      /\ \A n \in Indices : At(n)' = At(n)
  BY <1>1, Vocabulary
<1>9. ASSUME NEW r \in Indices \cup {None}, Return(r),
             Ascending => \/ r \in Indices /\ At(r) = key
                          \/ r = None /\ \A n \in Indices : At(n) # key
      PROVE  SearchInv'
  <2>1. left' = left /\ right' = right /\ pc' = "done" /\ result' = r
    BY <1>9 DEF Return
  <2>2. TypeOK'
    BY <1>0, <1>1, <1>2, <2>1 DEF TypeOK, Indices, None
  <2>3. LookupCorrect'
    BY <1>1, <1>8, <1>9, <2>1 DEF LookupCorrect, None
  <2> QED
    BY <1>1, <1>4, <2>1, <2>2, <2>3, Zenon
       DEF SearchInv, LoopInv, WalkInv, DoneInv, PartitionCorrect, FindChunkCorrect,
           ByTimestampCorrect, Legacy
<1>10. ASSUME pc' = pc, result' = result, left' \in Int, right' \in Int,
              0 <= left' /\ left' <= right' + 1 /\ 0 <= right' /\ right' < Len(v),
              left' <= Len(v),
              Ascending => /\ \A n \in Indices : n < left' => At(n) < key
                           /\ \A n \in Indices : n > right' => At(n) > key
       PROVE  SearchInv'
  <2>1. TypeOK'
    BY <1>0, <1>1, <1>10 DEF TypeOK
  <2>2. LoopInv'
    BY <1>0, <1>1, <1>4, <1>8, <1>10, Zenon DEF LoopInv
  <2> QED
    BY <1>2, <1>10, <2>1, <2>2
       DEF SearchInv, WalkInv, DoneInv, PartitionCorrect, LookupCorrect, FindChunkCorrect,
           ByTimestampCorrect
<1>11. CASE left <= right /\ At(mid) = key /\ Return(mid)
  BY <1>5, <1>9, <1>11
<1>12. CASE left <= right /\ At(mid) < key /\ Narrow(mid + 1, right)
  <2> HIDE DEF mid
  <2>1. ASSUME Ascending, NEW n \in Indices, n < mid + 1
        PROVE  At(n) < key
    <3>1. n \in Int /\ n <= mid
      BY <1>0, <1>5, <1>12, <2>1 DEF Indices
    <3>2. At(n) <= At(mid)
      BY <1>5, <1>7, <1>12, <2>1, <3>1
    <3> QED
      BY <1>0, <1>5, <1>6, <1>12, <3>2
  <2>2. mid + 1 \in Int /\ 0 <= mid + 1 /\ mid + 1 <= right + 1 /\ mid + 1 <= Len(v)
    BY <1>0, <1>2, <1>5, <1>12
  <2> QED
    BY <1>2, <1>3, <1>10, <1>12, <2>1, <2>2 DEF Narrow
<1>13. CASE left <= right /\ At(mid) > key /\ mid = 0 /\ Return(None)
  <2> HIDE DEF mid
  <2>1. Ascending => \A n \in Indices : At(n) # key
    BY <1>0, <1>5, <1>6, <1>7, <1>13 DEF Indices
  <2> QED
    BY <1>9, <1>13, <2>1
<1>14. CASE left <= right /\ At(mid) > key /\ mid # 0 /\ Narrow(left, mid - 1)
  <2> HIDE DEF mid
  <2>1. ASSUME Ascending, NEW n \in Indices, n > mid - 1
        PROVE  At(n) > key
    <3>1. n \in Int /\ mid <= n
      BY <1>0, <1>5, <1>14, <2>1 DEF Indices
    <3>2. At(mid) <= At(n)
      BY <1>5, <1>7, <1>14, <2>1, <3>1
    <3> QED
      BY <1>0, <1>5, <1>6, <1>14, <3>2
  <2>2. /\ mid - 1 \in Int /\ left <= (mid - 1) + 1 /\ 0 <= mid - 1 /\ mid - 1 < Len(v)
        /\ left <= Len(v)
    BY <1>0, <1>2, <1>5, <1>14
  <2> QED
    BY <1>2, <1>3, <1>10, <1>14, <2>1, <2>2 DEF Narrow
<1>15. CASE left > right /\ Return(None)
  <2>1. Ascending => \A n \in Indices : At(n) # key
    BY <1>0, <1>2, <1>3, <1>6, <1>15 DEF Indices
  <2> QED
    BY <1>9, <1>15, <2>1
<1> QED
  BY <1>11, <1>12, <1>13, <1>14, <1>15 DEF lookup_index_by_key

LEMMA BinarySearchStep ==
  ASSUME SearchInv, binary_search_by
  PROVE  SearchInv'
<1>0. v \in Seq(Int) /\ Len(v) \in Nat /\ key \in Nat /\ TypeOK
  BY VectorType DEF SearchInv
<1>1. fn' = fn /\ v' = v /\ key' = key
  BY DEF binary_search_by, Narrow, Return, Found, NotFound
<1>2. /\ fn \in Legacy /\ pc = "loop"
      /\ left \in Int /\ right \in Int
      /\ -1 <= left /\ left < right /\ right <= Len(v)
  BY <1>0 DEF binary_search_by, SearchInv, LoopInv, TypeOK
<1>3. Ascending => /\ \A n \in Indices : n <= left => Item(n) < key
                   /\ \A n \in Indices : n >= right => Item(n) > key
  BY <1>2 DEF SearchInv, LoopInv
<1>4. fn \notin Partitions /\ fn # "lookup_index_by_key"
  BY <1>2 DEF Partitions, Legacy
<1> DEFINE mid == (left + right) \div 2
<1>5. ASSUME left + 1 < right
      PROVE mid \in Int /\ mid \in Indices /\ left < mid /\ mid < right
  BY <1>0, <1>2, <1>5 DEF Indices
<1>6. \A n \in Indices : At(n) \in Int /\ Item(n) \in Int
  BY <1>0, VectorType
<1>7. ASSUME Ascending, NEW n \in Indices, NEW j \in Indices, n <= j
      PROVE  Item(n) <= Item(j)
  BY <1>7 DEF Ascending
<1>8. /\ Indices' = Indices /\ (Ascending' <=> Ascending)
      /\ \A n \in Indices : Item(n)' = Item(n) /\ At(n)' = At(n)
  BY <1>1, Vocabulary
<1>9. ASSUME pc' = pc, result' = result, left' \in Int, right' \in Int,
             -1 <= left' /\ left' < right' /\ right' <= Len(v),
             Ascending => /\ \A n \in Indices : n <= left' => Item(n) < key
                          /\ \A n \in Indices : n >= right' => Item(n) > key
      PROVE  SearchInv'
  <2>1. TypeOK'
    BY <1>0, <1>1, <1>2, <1>9 DEF TypeOK
  <2>2. LoopInv'
    BY <1>0, <1>1, <1>4, <1>8, <1>9, Zenon DEF LoopInv
  <2> QED
    BY <1>2, <1>9, <2>1, <2>2
       DEF SearchInv, WalkInv, DoneInv, PartitionCorrect, LookupCorrect, FindChunkCorrect,
           ByTimestampCorrect
\* find_chunk returns
<1>10. ASSUME fn = "find_chunk", pc' = "done", left' = left, right' = right,
              result' \in Indices \cup {None},
              FindChunkCorrect'
       PROVE  SearchInv'
  <2>1. TypeOK'
    BY <1>0, <1>1, <1>2, <1>10 DEF TypeOK, Indices, None
  <2> QED
    BY <1>1, <1>4, <1>10, <2>1
       DEF SearchInv, LoopInv, WalkInv, DoneInv, PartitionCorrect, LookupCorrect,
           ByTimestampCorrect
\* find_chunk_by_timestamp goes on, to walk back from `result'
<1>11. ASSUME fn = "find_chunk_by_timestamp", pc' = "walk", left' = left, right' = right,
              result' \in Indices, Ascending => Item(result') >= key,
              Ascending /\ Item(result') # key => \A n \in Indices : n < result' => Item(n) < key
       PROVE  SearchInv'
  <2>1. TypeOK'
    BY <1>0, <1>1, <1>2, <1>11 DEF TypeOK, Indices
  <2>2. WalkInv'
    BY <1>1, <1>8, <1>11 DEF WalkInv, Item, At
  <2> QED
    BY <1>11, <2>1, <2>2
       DEF SearchInv, LoopInv, DoneInv, PartitionCorrect, LookupCorrect, FindChunkCorrect,
           ByTimestampCorrect
<1>12. CASE left + 1 < right /\ Item(mid) < key /\ Narrow(mid, right)
  <2> HIDE DEF mid
  <2>1. ASSUME Ascending, NEW n \in Indices, n <= mid
        PROVE  Item(n) < key
    <3>1. n \in Int /\ n <= mid
      BY <1>0, <1>5, <1>12, <2>1 DEF Indices
    <3>2. Item(n) <= Item(mid)
      BY <1>5, <1>7, <1>12, <2>1, <3>1
    <3> QED
      BY <1>0, <1>5, <1>6, <1>12, <3>2
  <2> QED
    BY <1>2, <1>3, <1>5, <1>9, <1>12, <2>1 DEF Narrow
<1>13. CASE left + 1 < right /\ Item(mid) > key /\ Narrow(left, mid)
  <2> HIDE DEF mid
  <2>1. ASSUME Ascending, NEW n \in Indices, n >= mid
        PROVE  Item(n) > key
    <3>1. n \in Int /\ mid <= n
      BY <1>0, <1>5, <1>13, <2>1 DEF Indices
    <3>2. Item(mid) <= Item(n)
      BY <1>5, <1>7, <1>13, <2>1, <3>1
    <3> QED
      BY <1>0, <1>5, <1>6, <1>13, <3>2
  <2> QED
    BY <1>2, <1>3, <1>5, <1>9, <1>13, <2>1 DEF Narrow
<1>14. CASE left + 1 < right /\ Item(mid) = key /\ Found(mid)
  <2> HIDE DEF mid
  <2>1. CASE fn = "find_chunk"
    <3>1. pc' = "done" /\ result' = mid /\ left' = left /\ right' = right
      BY <1>14, <2>1 DEF Found, Return
    <3>2. ASSUME \A n, j \in Indices : n < j => At(n) < At(j), NEW n \in Indices
          PROVE  At(n) <= key <=> n <= mid
      <4>1. At(mid) = key /\ mid \in Indices /\ At(n) \in Int /\ n \in Int /\ mid \in Int
        BY <1>5, <1>6, <1>14, <2>1 DEF Item, Indices
      <4> QED
        BY <1>0, <3>2, <4>1
    <3>3. FindChunkCorrect'
      BY <1>1, <1>5, <1>8, <1>14, <3>1, <3>2 DEF FindChunkCorrect
    <3> QED
      BY <1>5, <1>10, <1>14, <2>1, <3>1, <3>3
  <2>2. CASE fn = "find_chunk_by_timestamp"
    <3>1. pc' = "walk" /\ result' = mid /\ left' = left /\ right' = right
      BY <1>14, <2>2 DEF Found
    <3> QED
      BY <1>0, <1>5, <1>11, <1>14, <2>2, <3>1
  <2> QED
    BY <1>2, <2>1, <2>2 DEF Legacy
<1>15. CASE left + 1 >= right /\ NotFound
  <2>1. right = left + 1
    BY <1>2, <1>15
  <2>2. CASE fn = "find_chunk"
    <3>1. pc' = "done" /\ result' = left /\ left' = left /\ right' = right
      BY <1>15, <2>2 DEF NotFound, Return
    <3>2. left \in Indices \cup {None}
      BY <1>0, <1>2, <2>1 DEF Indices, None
    <3>3. ASSUME \A n, j \in Indices : n < j => At(n) < At(j), NEW n \in Indices
          PROVE  At(n) <= key <=> n <= left
      <4>1. Ascending
        BY <1>6, <2>2, <3>3 DEF Ascending, Item, Indices
      <4>2. Item(n) = At(n) /\ At(n) \in Int /\ n \in Int
        BY <1>6, <2>2 DEF Item, Indices
      <4> QED
        BY <1>0, <1>2, <1>3, <2>1, <4>1, <4>2
    <3>4. FindChunkCorrect'
      BY <1>1, <1>8, <3>1, <3>2, <3>3 DEF FindChunkCorrect
    <3> QED
      BY <1>10, <2>2, <3>1, <3>2, <3>4
  <2>3. CASE fn = "find_chunk_by_timestamp" /\ left + 1 < Len(v)
    <3>1. pc' = "walk" /\ result' = right /\ left' = left /\ right' = right
      BY <1>15, <2>1, <2>3 DEF NotFound, Found
    <3>2. right \in Indices
      BY <1>0, <1>2, <2>1, <2>3 DEF Indices
    <3>3. Ascending => /\ Item(right) > key
                       /\ \A n \in Indices : n < right => Item(n) < key
      BY <1>0, <1>2, <1>3, <2>1, <3>2 DEF Indices
    <3> QED
      BY <1>0, <1>6, <1>11, <2>3, <3>1, <3>2, <3>3
  <2>4. CASE fn = "find_chunk_by_timestamp" /\ ~(left + 1 < Len(v))
    <3>1. pc' = "done" /\ result' = None /\ left' = left /\ right' = right
      BY <1>15, <2>4 DEF NotFound, Return
    <3>2. Ascending => \A n \in Indices : Item(n) < key
      BY <1>0, <1>2, <1>3, <2>4 DEF Indices
    <3>3. ByTimestampCorrect'
      BY <1>1, <1>8, <3>1, <3>2 DEF ByTimestampCorrect
    <3>4. TypeOK'
      BY <1>0, <1>1, <1>2, <3>1 DEF TypeOK, None
    <3> QED
      BY <1>1, <1>4, <2>4, <3>1, <3>3, <3>4, Zenon
         DEF SearchInv, LoopInv, WalkInv, DoneInv, PartitionCorrect, LookupCorrect,
             FindChunkCorrect
  <2> QED
    BY <1>2, <2>2, <2>3, <2>4 DEF Legacy
<1> QED
  BY <1>12, <1>13, <1>14, <1>15 DEF binary_search_by

LEMMA WalkStep ==
  ASSUME SearchInv, WalkBack
  PROVE  SearchInv'
<1>0. v \in Seq(Int) /\ Len(v) \in Nat /\ key \in Nat /\ TypeOK
  BY VectorType DEF SearchInv
<1>1. fn' = fn /\ v' = v /\ key' = key /\ left' = left /\ right' = right
  BY DEF WalkBack, Return
<1>2. pc = "walk" /\ fn = "find_chunk_by_timestamp" /\ result \in Indices /\ result \in Int
  BY DEF WalkBack, SearchInv, WalkInv, Indices
<1>3. Ascending => /\ Item(result) >= key
                   /\ Item(result) # key => \A n \in Indices : n < result => Item(n) < key
  BY <1>2 DEF SearchInv, WalkInv
<1>4. \A n \in Indices : At(n) \in Int /\ Item(n) \in Int
  BY <1>0, VectorType
<1>5. \A n \in Indices : At(n) = key => Item(n) = key
  BY <1>0 DEF Item, None
<1>6. \A n \in Indices : key > 0 /\ Item(n) = key => At(n) = key
  BY <1>0, <1>2 DEF Item, None
<1>7. /\ Indices' = Indices /\ (Ascending' <=> Ascending)
      /\ \A n \in Indices : Item(n)' = Item(n)
  BY <1>1, Vocabulary
<1>8. CASE At(result) = key /\ result > 0 /\ At(result - 1) = key
  <2>1. result' = result - 1 /\ pc' = pc
    BY <1>8 DEF WalkBack
  <2>2. result - 1 \in Indices
    BY <1>0, <1>2, <1>8 DEF Indices
  <2>3. TypeOK'
    BY <1>0, <1>1, <1>2, <2>1, <2>2 DEF TypeOK, Indices
  <2>4. Item(result - 1) = key
    BY <1>5, <1>8, <2>2
  <2>5. Item(result)' = Item(result - 1)
    BY <1>1, <2>1 DEF Item, At
  <2>6. WalkInv'
    BY <1>0, <1>1, <1>2, <1>7, <2>1, <2>2, <2>4, <2>5 DEF WalkInv
  <2> QED
    BY <1>2, <2>1, <2>3, <2>6, Zenon
       DEF SearchInv, LoopInv, DoneInv, PartitionCorrect, LookupCorrect, FindChunkCorrect,
           ByTimestampCorrect
<1>9. CASE ~(At(result) = key /\ result > 0 /\ At(result - 1) = key)
  <2>1. result' = result /\ pc' = "done"
    BY <1>9 DEF WalkBack, Return
  <2>2. TypeOK'
    BY <1>0, <1>1, <2>1 DEF TypeOK
  <2>3. ASSUME Ascending, key > 0, NEW n \in Indices, n < result
        PROVE  Item(n) < key
    <3>1. CASE Item(result) # key
      BY <1>3, <2>3, <3>1
    <3>2. CASE Item(result) = key
      <4>1. n \in Int /\ result - 1 \in Indices /\ n <= result - 1 /\ result > 0
        BY <1>0, <1>2, <2>3 DEF Indices
      <4>2. At(result) = key /\ At(result - 1) # key
        BY <1>2, <1>6, <1>9, <2>3, <3>2, <4>1
      <4>3. Item(result - 1) # key
        BY <1>6, <2>3, <4>1, <4>2, Zenon
      <4>4. Item(n) <= Item(result - 1) /\ Item(result - 1) <= Item(result)
        BY <1>2, <2>3, <4>1 DEF Ascending
      <4>5. Item(n) \in Int /\ Item(result - 1) \in Int
        BY <1>4, <4>1, Zenon
      <4> QED
        BY <1>0, <3>2, <4>3, <4>4, <4>5
    <3> QED
      BY <3>1, <3>2
  <2>4. ASSUME Ascending, NEW n \in Indices, n >= result
        PROVE  Item(n) >= key
    <3>1. Item(result) <= Item(n)
      BY <1>2, <2>4 DEF Ascending, Indices
    <3> QED
      BY <1>0, <1>2, <1>3, <1>4, <2>4, <3>1
  <2>5. ASSUME Ascending, key > 0, NEW n \in Indices
        PROVE  Item(n) >= key <=> n >= result
    <3>1. n \in Int /\ Item(n) \in Int
      BY <1>4 DEF Indices
    <3> QED
      BY <1>0, <1>2, <2>3, <2>4, <2>5, <3>1
  <2>6. ByTimestampCorrect'
    BY <1>1, <1>2, <1>7, <2>1, <2>5 DEF ByTimestampCorrect
  <2> QED
    BY <1>1, <1>2, <2>1, <2>2, <2>6, Zenon
       DEF SearchInv, LoopInv, WalkInv, DoneInv, PartitionCorrect, LookupCorrect,
           FindChunkCorrect, Partitions
<1> QED
  BY <1>8, <1>9

LEMMA StutterStep ==
  ASSUME SearchInv, UNCHANGED vars
  PROVE  SearchInv'
BY Zenon DEF SearchInv, vars, TypeOK, LoopInv, WalkInv, DoneInv, PartitionCorrect, LookupCorrect,
       FindChunkCorrect, ByTimestampCorrect, Indices, Ascending, At, Item, Pred

LEMMA BoundsFromInv == SearchInv => InBounds
<1> SUFFICES ASSUME SearchInv PROVE InBounds
  OBVIOUS
<1>1. Len(v) \in Nat /\ left \in Int /\ right \in Int
  BY VectorType DEF SearchInv, TypeOK
<1>2. fn \in Partitions \/ fn = "lookup_index_by_key" \/ fn \in Legacy
  BY DEF SearchInv, TypeOK, Searchers
<1>3. pc = "walk" => result \in Indices
  BY DEF SearchInv, WalkInv
<1>4. pc = "loop" /\ fn \notin Legacy => left >= 0 /\ right >= 0
  BY <1>1, <1>2 DEF SearchInv, LoopInv
<1>5. pc = "loop" /\ fn \in Partitions /\ left < right
        => left + (right - left) \div 2 \in Indices
  BY <1>1, Midpoint DEF SearchInv, LoopInv, Indices
<1>6. pc = "loop" /\ fn = "lookup_index_by_key" /\ left <= right
        => (left + right) \div 2 \in Indices
  BY <1>1 DEF SearchInv, LoopInv, Indices
<1>7. pc = "loop" /\ fn \in Legacy /\ left + 1 < right => (left + right) \div 2 \in Indices
  BY <1>1 DEF SearchInv, LoopInv, Indices
<1> QED
  BY <1>3, <1>4, <1>5, <1>6, <1>7 DEF InBounds

-----------------------------------------------------------------------------
LEMMA SearchInvAlways == Spec => []SearchInv
<1>1. SearchInv /\ [Next]_vars => SearchInv'
  BY PartitionStep, LookupStep, BinarySearchStep, WalkStep, StutterStep DEF Next
<1> QED
  BY InitInv, <1>1, PTL DEF Spec

\* No search probes outside its vector, whatever the vector holds and however
\* long it is (partition_point, lookup_index_by_key and binary_search_by of
\* reader.rs).
THEOREM InBoundsAlways == Spec => []InBounds
BY SearchInvAlways, BoundsFromInv, PTL

\* On ordered columns of every length every search returns what a scan would:
\* partition_point the number of leading elements its predicate holds for,
\* lookup_index_by_key, the search behind get_worker, the position of a key
\* exactly if the list has it, and the legacy find_chunk and
\* find_chunk_by_timestamp the chunk their comments promise.
THEOREM SearchesAlwaysCorrect == Spec => []SearchesCorrect
<1>1. SearchInv => SearchesCorrect
  BY DEF SearchInv, DoneInv, SearchesCorrect, LegacyCorrect
<1> QED
  BY SearchInvAlways, <1>1, PTL

-----------------------------------------------------------------------------
(***************************************************************************)
(* Range sets                                                              *)
(***************************************************************************)

TypeInv ==
  /\ ranges \in Seq(RangeType)
  /\ merging \in BOOLEAN
  /\ i \in Nat /\ pi \in Nat /\ pi < i
  /\ merging /\ ranges # <<>> => i <= Len(ranges)
  /\ given \subseteq RangeType

\* the entries that count: in the loop the ones merged, up to pi, and the ones
\* still to come, from i
Alive == {k \in 1..Len(ranges) : merging => k <= pi + 1 \/ i < k}

CoverInv == \A x \in 0..U64Max : Covered(x) <=> \E k \in Alive : Contains(ranges[k], x)

SeparatedInv ==
  \A j, k \in 1..Len(ranges) :
    j < k /\ (merging => k <= pi + 1) => ranges[j].end + 1 < ranges[k].begin

OrderInv ==
  merging => \A k \in i + 1..Len(ranges) :
    /\ ranges[pi + 1].begin <= ranges[k].begin
    /\ \A j \in i + 1..k : ranges[j].begin <= ranges[k].begin

EndsInv == \A k \in 1..Len(ranges) : ranges[k].end < U64Max

RangeInv == TypeInv /\ OrderInv /\ (BelowTop => CoverInv /\ SeparatedInv /\ EndsInv)

-----------------------------------------------------------------------------
\* A range is an interval of blocks.
LEMMA RangeFields ==
  ASSUME NEW r \in RangeType
  PROVE r.begin \in Nat /\ r.end \in Nat /\ r.begin <= r.end /\ r.end <= U64Max
<1>1. U64Max \in Nat
  BY RangeAssumption
<1>2. r \in [begin : 0..U64Max, end : 0..U64Max] /\ r.begin <= r.end
  BY DEF RangeType
<1>3. r.begin \in 0..U64Max /\ r.end \in 0..U64Max
  BY <1>2
<1> QED BY <1>1, <1>2, <1>3

\* So is every entry of a list of ranges.
LEMMA EntryFields ==
  ASSUME NEW s \in Seq(RangeType), NEW k \in 1..Len(s)
  PROVE /\ s[k] \in RangeType
        /\ s[k].begin \in Nat /\ s[k].end \in Nat /\ s[k].begin <= s[k].end /\ s[k].end <= U64Max
<1>1. s[k] \in RangeType
  OBVIOUS
<1> QED BY <1>1, RangeFields

\* What a sorted rearrangement of the list keeps: its members, its order, and
\* nothing else.
LEMMA Rearranged ==
  ASSUME NEW S, NEW all \in Seq(S), NEW p \in Bijections(Len(all))
  PROVE LET s == [k \in 1..Len(all) |-> all[p[k]]] IN
        /\ s \in Seq(S) /\ Len(s) = Len(all)
        /\ \A k \in 1..Len(s) : \E j \in 1..Len(all) : s[k] = all[j]
        /\ \A j \in 1..Len(all) : \E k \in 1..Len(s) : s[k] = all[j]
<1> DEFINE s == [k \in 1..Len(all) |-> all[p[k]]]
<1>1. p \in [1..Len(all) -> 1..Len(all)] /\ \A k \in 1..Len(all) : \E j \in 1..Len(all) : p[j] = k
  BY DEF Bijections
<1>2. \A k \in 1..Len(all) : p[k] \in 1..Len(all) /\ s[k] = all[p[k]]
  BY <1>1
<1>3. \A k \in 1..Len(all) : all[k] \in S
  OBVIOUS
<1>4. s \in Seq(S) /\ Len(s) = Len(all)
  <2>1. Len(all) \in Nat
    OBVIOUS
  <2>2. \A k \in 1..Len(all) : all[p[k]] \in S
    BY <1>2, <1>3
  <2> QED BY <2>1, <2>2
<1>5. \A k \in 1..Len(all) : \E j \in 1..Len(all) : s[k] = all[j]
  BY <1>2
<1>6. \A j \in 1..Len(all) : \E k \in 1..Len(all) : s[k] = all[j]
  BY <1>1, <1>2, Zenon
<1> QED BY <1>4, <1>5, <1>6

\* A list that stands for what was given, with a block between any two of its
\* ranges, answers `has' and `includes' exactly.
LEMMA AnswersExact ==
  ASSUME TypeInv, ~merging, CoverInv, SeparatedInv
  PROVE Separated /\ HasExact /\ IncludesExact
<1>1. Separated
  BY DEF SeparatedInv, Separated
<1>2. \A x \in 0..U64Max : Covered(x) <=> \E k \in 1..Len(ranges) : Contains(ranges[k], x)
  BY DEF CoverInv, Alive
<1>3. HasExact
  BY <1>2 DEF HasExact, has, containing_range
<1>4. U64Max \in Nat
  BY RangeAssumption
<1>5. \A k \in 1..Len(ranges) : ranges[k].begin \in Nat /\ ranges[k].end \in Nat
                                /\ ranges[k].begin <= ranges[k].end /\ ranges[k].end <= U64Max
  BY EntryFields DEF TypeInv
<1>6. ASSUME NEW r \in RangeType PROVE includes(r) => \A x \in r.begin..r.end : Covered(x)
  <2>1. SUFFICES ASSUME includes(r), NEW x \in r.begin..r.end PROVE Covered(x)
    OBVIOUS
  <2>2. PICK k \in 1..Len(ranges) : Contains(ranges[k], r.begin) /\ ranges[k].end >= r.end
    BY <2>1 DEF includes, containing_range
  <2>3. r.begin \in Nat /\ r.end \in Nat /\ r.end <= U64Max
    BY RangeFields
  <2>4. x \in 0..U64Max /\ Contains(ranges[k], x)
    BY <1>4, <1>5, <2>2, <2>3 DEF Contains
  <2> QED BY <1>2, <2>4
<1>7. ASSUME NEW r \in RangeType PROVE (\A x \in r.begin..r.end : Covered(x)) => includes(r)
  <2>1. SUFFICES ASSUME \A x \in r.begin..r.end : Covered(x) PROVE includes(r)
    OBVIOUS
  <2>2. r.begin \in Nat /\ r.end \in Nat /\ r.begin <= r.end /\ r.end <= U64Max
    BY RangeFields
  <2>3. r.begin \in r.begin..r.end /\ r.begin \in 0..U64Max
    BY <1>4, <2>2
  <2>4. PICK k \in 1..Len(ranges) : Contains(ranges[k], r.begin)
    BY <1>2, <2>1, <2>3
  <2>5. SUFFICES ASSUME ranges[k].end < r.end PROVE FALSE
    <3>1. ranges[k].end >= r.end \/ ranges[k].end < r.end
      BY <1>5, <2>2
    <3> QED BY <2>4, <2>5, <3>1 DEF includes, containing_range
  <2> DEFINE x == ranges[k].end + 1
  <2>6. x \in r.begin..r.end /\ x \in 0..U64Max
    BY <1>4, <1>5, <2>2, <2>4, <2>5 DEF Contains
  <2>7. PICK j \in 1..Len(ranges) : Contains(ranges[j], x)
    BY <1>2, <2>1, <2>6
  <2>8. j # k
    BY <1>5, <2>7 DEF Contains
  <2>9. ~(j < k)
    BY <1>1, <1>5, <2>7 DEF Separated, Contains
  <2>10. ~(k < j)
    BY <1>1, <1>5, <2>7 DEF Separated, Contains
  <2> QED BY <2>8, <2>9, <2>10
<1>8. IncludesExact
  BY <1>6, <1>7 DEF IncludesExact
<1> QED BY <1>1, <1>3, <1>8

-----------------------------------------------------------------------------
\* `extend' begins: the sorted list has the same ranges as the two lists.
LEMMA ExtendKeeps ==
  ASSUME RangeInv, NEW rs \in Batches, extend(rs)
  PROVE RangeInv'
<1> USE RangeAssumption
<1> DEFINE all == ranges \o rs
<1>1. ranges \in Seq(RangeType) /\ rs \in Seq(RangeType) /\ all \in Seq(RangeType)
  BY DEF RangeInv, TypeInv
<1>2. PICK p \in Bijections(Len(all)) :
        ranges' = [k \in 1..Len(all) |-> all[p[k]]] /\ IsSorted(ranges')
  BY Zenon DEF extend
<1>3. /\ ranges' \in Seq(RangeType) /\ Len(ranges') = Len(all)
      /\ \A k \in 1..Len(ranges') : \E j \in 1..Len(all) : ranges'[k] = all[j]
      /\ \A j \in 1..Len(all) : \E k \in 1..Len(ranges') : ranges'[k] = all[j]
  <2> HIDE DEF all
  <2> QED BY <1>1, <1>2, Rearranged
<1>4. ~merging /\ merging' = TRUE /\ i' = 1 /\ pi' = 0
      /\ given' = given \cup {rs[k] : k \in 1..Len(rs)}
  BY Zenon DEF extend
<1>5. TypeInv'
  <2>1. given' \subseteq RangeType
    BY <1>1, <1>4 DEF RangeInv, TypeInv
  <2>2. ranges' # <<>> => 1 <= Len(ranges')
    BY <1>3
  <2> QED BY <1>3, <1>4, <2>1, <2>2 DEF TypeInv
<1>6. \A k \in 1..Len(ranges') : ranges'[k].begin \in Nat /\ ranges'[k].end \in Nat
  BY <1>3, EntryFields, Zenon
<1>7. OrderInv'
  <2>1. SUFFICES ASSUME NEW k \in 2..Len(ranges')
                 PROVE /\ ranges'[1].begin <= ranges'[k].begin
                       /\ \A j \in 2..k : ranges'[j].begin <= ranges'[k].begin
    BY <1>4 DEF OrderInv
  <2>2. Len(ranges') \in Nat
    BY <1>3
  <2>3. \A j \in 1..k : LessOrEqual(ranges'[j], ranges'[k])
    <3>1. \A j \in 1..k : j \in 1..Len(ranges') /\ k \in 1..Len(ranges') /\ j <= k
      BY <2>2
    <3>2. \A a, b \in 1..Len(ranges') : a <= b => LessOrEqual(ranges'[a], ranges'[b])
      BY <1>2, Zenon DEF IsSorted
    <3> QED BY <3>1, <3>2
  <2>4. \A j \in 1..k : ranges'[j].begin <= ranges'[k].begin
    BY <1>6, <2>2, <2>3 DEF LessOrEqual
  <2> QED BY <2>2, <2>4
<1>8. ASSUME BelowTop' PROVE CoverInv' /\ SeparatedInv' /\ EndsInv'
  <2>1. BelowTop
    BY <1>4, <1>8 DEF BelowTop
  <2>2. CoverInv /\ EndsInv
    BY <2>1 DEF RangeInv
  <2>3. /\ \A j \in 1..Len(all) : \/ \E k \in 1..Len(ranges) : all[j] = ranges[k]
                                  \/ \E k \in 1..Len(rs) : all[j] = rs[k]
        /\ \A k \in 1..Len(ranges) : \E j \in 1..Len(all) : all[j] = ranges[k]
        /\ \A k \in 1..Len(rs) : \E j \in 1..Len(all) : all[j] = rs[k]
    <3>1. Len(all) = Len(ranges) + Len(rs) /\ Len(ranges) \in Nat /\ Len(rs) \in Nat
      BY <1>1
    <3>2. \A j \in 1..Len(ranges) : j \in 1..Len(all) /\ all[j] = ranges[j]
      BY <1>1, <3>1
    <3>3. \A j \in 1..Len(rs) :
            Len(ranges) + j \in 1..Len(all) /\ all[Len(ranges) + j] = rs[j]
      BY <1>1, <3>1
    <3>4. ASSUME NEW j \in 1..Len(all), j > Len(ranges)
          PROVE j - Len(ranges) \in 1..Len(rs) /\ all[j] = rs[j - Len(ranges)]
      BY <1>1, <3>1, <3>4
    <3>5. \A j \in 1..Len(all) : j <= Len(ranges) => j \in 1..Len(ranges)
      BY <3>1
    <3>6. \A j \in 1..Len(all) : j <= Len(ranges) \/ j > Len(ranges)
      BY <3>1
    <3> QED BY <3>2, <3>3, <3>4, <3>5, <3>6, Zenon
  <2>4. EndsInv'
    <3>1. \A k \in 1..Len(rs) : rs[k].end < U64Max
      BY <1>4, <1>8 DEF BelowTop
    <3>2. \A j \in 1..Len(all) : all[j].end < U64Max
      BY <2>2, <2>3, <3>1 DEF EndsInv
    <3> QED BY <1>3, <3>2, Zenon DEF EndsInv
  <2>5. SeparatedInv'
    <3>1. Len(ranges') \in Nat
      BY <1>3
    <3> QED BY <1>4, <3>1 DEF SeparatedInv
  <2>6. ASSUME NEW x \in 0..U64Max
        PROVE Covered(x)' <=> \E k \in 1..Len(ranges') : Contains(ranges'[k], x)
    <3>1. Covered(x) <=> \E k \in 1..Len(ranges) : Contains(ranges[k], x)
      BY <1>4, <2>2, Zenon DEF CoverInv, Alive
    <3>2. Covered(x)' <=> Covered(x) \/ \E k \in 1..Len(rs) : Contains(rs[k], x)
      BY <1>4 DEF Covered, Contains
    <3>3. (\E j \in 1..Len(all) : Contains(all[j], x)) <=>
            \/ \E k \in 1..Len(ranges) : Contains(ranges[k], x)
            \/ \E k \in 1..Len(rs) : Contains(rs[k], x)
      <4> HIDE DEF all
      <4> QED BY <2>3, Zenon
    <3>4. (\E k \in 1..Len(ranges') : Contains(ranges'[k], x)) <=>
            \E j \in 1..Len(all) : Contains(all[j], x)
      <4> HIDE DEF all
      <4> QED BY <1>3, Zenon
    <3> QED BY <3>1, <3>2, <3>3, <3>4
  <2>7. Alive' = 1..Len(ranges')
    <3>1. Len(ranges') \in Nat
      BY <1>3
    <3> QED BY <1>4, <3>1 DEF Alive
  <2>8. CoverInv'
    BY <2>6, <2>7 DEF CoverInv, Contains
  <2> QED BY <2>4, <2>5, <2>8
<1> QED BY <1>5, <1>7, <1>8 DEF RangeInv

\* One iteration: the entry at i is copied behind the merged ones, or joined
\* with the last of them.
LEMMA MergeKeeps ==
  ASSUME RangeInv, Merge
  PROVE RangeInv'
<1> DEFINE n == Len(ranges)
           c == ranges[i + 1]
           p == ranges[pi + 1]
           joined == [begin |-> p.begin, end |-> Larger(c.end, p.end)]
<1>1. /\ ranges \in Seq(RangeType) /\ i \in Nat /\ pi \in Nat /\ pi < i /\ given \subseteq RangeType
      /\ merging /\ i < n /\ n \in Nat /\ i' = i + 1 /\ merging' = merging /\ given' = given
  BY DEF RangeInv, TypeInv, Merge
<1>2. U64Max \in Nat
  BY RangeAssumption
<1>3. \A k \in 1..n : /\ ranges[k] \in RangeType /\ ranges[k].begin \in Nat /\ ranges[k].end \in Nat
                      /\ ranges[k].begin <= ranges[k].end /\ ranges[k].end <= U64Max
  BY <1>1, EntryFields
<1>4. i + 1 \in 1..n /\ pi + 1 \in 1..n /\ pi + 2 \in 1..n
  BY <1>1
<1>5. OrderInv /\ (BelowTop => CoverInv /\ SeparatedInv /\ EndsInv) /\ BelowTop' = BelowTop
  BY <1>1 DEF RangeInv, BelowTop
<1>6. \A x \in 0..U64Max : Covered(x)' <=> Covered(x)
  BY <1>1 DEF Covered
<1>7. CASE c.begin > Succ(p.end) /\ pi' = pi + 1 /\ ranges' = [ranges EXCEPT ![pi + 2] = c]
  <2>1. /\ ranges' \in Seq(RangeType) /\ Len(ranges') = n
        /\ \A k \in 1..n : ranges'[k] = IF k = pi + 2 THEN c ELSE ranges[k]
    BY <1>1, <1>3, <1>4, <1>7
  <2>2. TypeInv'
    <3>1. i' <= Len(ranges') /\ pi' < i' /\ i' \in Nat /\ pi' \in Nat
      BY <1>1, <1>7, <2>1
    <3> QED BY <1>1, <2>1, <3>1 DEF TypeInv
  <2>3. ranges'[pi' + 1] = c
    BY <1>1, <1>4, <1>7, <2>1
  <2>4. \A k \in i + 2..n : ranges'[k] = ranges[k]
    BY <1>1, <2>1
  <2>5. OrderInv'
    <3>1. \A k \in i + 1..n : \A j \in i + 1..k : ranges[j].begin <= ranges[k].begin
      BY <1>1, <1>5 DEF OrderInv
    <3>2. SUFFICES ASSUME NEW k \in i + 2..n
                   PROVE /\ c.begin <= ranges[k].begin
                         /\ \A j \in i + 2..k : ranges[j].begin <= ranges[k].begin
      <4>1. (i + 1) + 1 = i + 2
        BY <1>1
      <4>2. \A k \in i + 2..n : \A j \in i + 2..k : j \in i + 2..n
        BY <1>1
      <4> QED BY <1>1, <2>1, <2>3, <2>4, <3>2, <4>1, <4>2, Zenon DEF OrderInv
    <3>3. k \in i + 1..n /\ i + 1 \in i + 1..k /\ \A j \in i + 2..k : j \in i + 1..k
      BY <1>1
    <3> QED BY <3>1, <3>3
  <2>6. ASSUME BelowTop PROVE CoverInv' /\ SeparatedInv' /\ EndsInv'
    <3>1. CoverInv /\ SeparatedInv /\ EndsInv
      BY <1>5, <2>6
    <3>2. EndsInv'
      BY <1>4, <2>1, <3>1 DEF EndsInv
    <3>3. p.end + 1 < c.begin
      BY <1>2, <1>3, <1>4, <1>7, <3>1 DEF EndsInv, Succ
    <3>4. SeparatedInv'
      <4>1. SUFFICES ASSUME NEW j \in 1..n, NEW k \in 1..n, j < k, k <= pi + 2
                     PROVE ranges'[j].end + 1 < ranges'[k].begin
        <5>1. (pi + 1) + 1 = pi + 2
          BY <1>1
        <5> QED BY <1>1, <1>7, <2>1, <4>1, <5>1 DEF SeparatedInv
      <4>2. \A a, b \in 1..n : a < b /\ b <= pi + 1 => ranges[a].end + 1 < ranges[b].begin
        BY <1>1, <3>1 DEF SeparatedInv
      <4>3. CASE k <= pi + 1
        BY <1>1, <2>1, <4>1, <4>2, <4>3
      <4>4. CASE k = pi + 2 /\ j = pi + 1
        <5>1. ranges'[j] = p /\ ranges'[k] = c
          BY <1>1, <1>4, <2>1, <4>4
        <5> QED BY <3>3, <5>1
      <4>5. CASE k = pi + 2 /\ j < pi + 1
        <5>1. ranges[j].end + 1 < p.begin
          BY <1>1, <1>4, <4>2, <4>5
        <5>2. ranges'[j] = ranges[j] /\ ranges'[k] = c
          BY <1>1, <2>1, <4>5
        <5>3. /\ ranges[j].end \in Nat /\ p.begin \in Nat /\ p.end \in Nat /\ c.begin \in Nat
              /\ p.begin <= p.end
          BY <1>3, <1>4
        <5> HIDE DEF p, c
        <5> QED BY <3>3, <5>1, <5>2, <5>3
      <4> QED BY <1>1, <4>1, <4>3, <4>4, <4>5
    <3>5. ASSUME NEW x
          PROVE (\E k \in Alive' : Contains(ranges'[k], x)) <=> \E k \in Alive : Contains(ranges[k], x)
      <4>1. Alive = {k \in 1..n : k <= pi + 1 \/ i < k} /\ Alive' = {k \in 1..n : k <= pi + 2 \/ i + 1 < k}
        BY <1>1, <1>7, <2>1 DEF Alive
      <4>2. \A k \in Alive' : k = pi + 2 \/ (k \in Alive /\ ranges'[k] = ranges[k])
        BY <1>1, <2>1, <4>1
      <4>3. \A k \in Alive : k = i + 1 \/ (k \in Alive' /\ ranges'[k] = ranges[k])
        BY <1>1, <2>1, <4>1
      <4>4. i + 1 \in Alive /\ pi + 2 \in Alive' /\ ranges'[pi + 2] = ranges[i + 1]
        BY <1>1, <1>4, <2>1, <4>1
      <4> QED BY <4>2, <4>3, <4>4
    <3>6. CoverInv'
      BY <1>6, <3>1, <3>5, Zenon DEF CoverInv, Contains
    <3> QED BY <3>2, <3>4, <3>6
  <2> QED BY <1>5, <2>2, <2>5, <2>6 DEF RangeInv
<1>8. CASE c.begin <= Succ(p.end) /\ pi' = pi /\ ranges' = [ranges EXCEPT ![pi + 1] = joined]
  <2>1. joined \in RangeType /\ joined.begin = p.begin /\ joined.end = Larger(c.end, p.end)
    <3>1. p.begin \in 0..U64Max /\ Larger(c.end, p.end) \in 0..U64Max
          /\ p.begin <= Larger(c.end, p.end)
      BY <1>2, <1>3, <1>4 DEF Larger
    <3> HIDE DEF p, c
    <3> QED BY <3>1, Zenon DEF RangeType
  <2>2. /\ ranges' \in Seq(RangeType) /\ Len(ranges') = n
        /\ \A k \in 1..n : ranges'[k] = IF k = pi + 1 THEN joined ELSE ranges[k]
    <3> HIDE DEF joined
    <3> QED BY <1>1, <1>3, <1>4, <1>8, <2>1
  <2>3. TypeInv'
    <3>1. i' <= Len(ranges') /\ pi' < i' /\ i' \in Nat /\ pi' \in Nat
      BY <1>1, <1>8, <2>2
    <3> QED BY <1>1, <2>2, <3>1, Zenon DEF TypeInv
  <2>4. OrderInv'
    <3>1. \A k \in i + 1..n : /\ p.begin <= ranges[k].begin
                              /\ \A j \in i + 1..k : ranges[j].begin <= ranges[k].begin
      BY <1>1, <1>5 DEF OrderInv
    <3>2. /\ ranges'[pi' + 1] = joined
          /\ \A k \in i + 2..n : ranges'[k] = ranges[k]
      BY <1>1, <1>4, <1>8, <2>2
    <3>3. SUFFICES ASSUME NEW k \in i + 2..n
                   PROVE /\ p.begin <= ranges[k].begin
                         /\ \A j \in i + 2..k : ranges[j].begin <= ranges[k].begin
      <4>1. (i + 1) + 1 = i + 2
        BY <1>1
      <4>2. \A k \in i + 2..n : \A j \in i + 2..k : j \in i + 2..n
        BY <1>1
      <4> HIDE DEF joined
      <4> QED BY <1>1, <2>1, <2>2, <3>2, <3>3, <4>1, <4>2, Zenon DEF OrderInv
    <3>4. k \in i + 1..n /\ \A j \in i + 2..k : j \in i + 1..k
      BY <1>1
    <3> QED BY <3>1, <3>4, Zenon
  <2>5. ASSUME BelowTop PROVE CoverInv' /\ SeparatedInv' /\ EndsInv'
    <3>1. CoverInv /\ SeparatedInv /\ EndsInv
      BY <1>5, <2>5
    <3>2. EndsInv'
      <4>1. joined.end < U64Max
        BY <1>4, <2>1, <3>1, Zenon DEF EndsInv, Larger
      <4> HIDE DEF joined
      <4> QED BY <2>2, <3>1, <4>1 DEF EndsInv
    <3>3. SeparatedInv'
      <4> HIDE DEF joined
      <4>1. SUFFICES ASSUME NEW j \in 1..n, NEW k \in 1..n, j < k, k <= pi + 1
                     PROVE ranges'[j].end + 1 < ranges'[k].begin
        BY <1>1, <1>8, <2>2, <4>1 DEF SeparatedInv
      <4>2. ranges[j].end + 1 < ranges[k].begin
        BY <1>1, <3>1, <4>1 DEF SeparatedInv
      <4>3. ranges'[j] = ranges[j] /\ ranges'[k].begin = ranges[k].begin
        BY <1>1, <2>1, <2>2, <4>1
      <4> QED BY <4>2, <4>3
    <3>4. ASSUME NEW x \in 0..U64Max
          PROVE Contains(joined, x) <=> Contains(p, x) \/ Contains(c, x)
      <4>1. p.begin <= c.begin
        BY <1>1, <1>5 DEF OrderInv
      <4>2. c.begin <= p.end + 1
        BY <1>2, <1>3, <1>4, <1>8, <3>1 DEF EndsInv, Succ
      <4>3. /\ p.begin \in Nat /\ p.end \in Nat /\ c.begin \in Nat /\ c.end \in Nat /\ x \in Nat
            /\ p.begin <= p.end /\ c.begin <= c.end
        BY <1>2, <1>3, <1>4
      <4> HIDE DEF joined, p, c
      <4> QED BY <2>1, <4>1, <4>2, <4>3 DEF Contains, Larger
    <3>5. ASSUME NEW x \in 0..U64Max
          PROVE (\E k \in Alive' : Contains(ranges'[k], x)) <=> \E k \in Alive : Contains(ranges[k], x)
      <4> HIDE DEF joined
      <4>1. Alive = {k \in 1..n : k <= pi + 1 \/ i < k} /\ Alive' = {k \in 1..n : k <= pi + 1 \/ i + 1 < k}
        BY <1>1, <1>8, <2>2 DEF Alive
      <4>2. \A k \in Alive' : k = pi + 1 \/ (k \in Alive /\ ranges'[k] = ranges[k])
        BY <1>1, <2>2, <4>1
      <4>3. \A k \in Alive : k = i + 1 \/ k = pi + 1 \/ (k \in Alive' /\ ranges'[k] = ranges[k])
        BY <1>1, <2>2, <4>1
      <4>4. i + 1 \in Alive /\ pi + 1 \in Alive /\ pi + 1 \in Alive' /\ ranges'[pi + 1] = joined
        BY <1>1, <1>4, <2>2, <4>1
      <4>5. Contains(joined, x) <=> Contains(ranges[pi + 1], x) \/ Contains(ranges[i + 1], x)
        BY <3>4
      <4> QED BY <4>2, <4>3, <4>4, <4>5, Zenon
    <3>6. CoverInv'
      BY <1>6, <3>1, <3>5 DEF CoverInv, Contains
    <3> QED BY <3>2, <3>3, <3>6
  <2> QED BY <1>5, <2>3, <2>4, <2>5 DEF RangeInv
<1> QED BY <1>7, <1>8, Zenon DEF Merge

\* The loop is over: the entries up to pi are all there is.
LEMMA TruncateKeeps ==
  ASSUME RangeInv, Truncate
  PROVE RangeInv'
<1>1. /\ ranges \in Seq(RangeType) /\ i \in Nat /\ pi \in Nat /\ pi < i /\ given \subseteq RangeType
      /\ merging /\ Len(ranges) \in Nat /\ i >= Len(ranges)
      /\ merging' = FALSE /\ given' = given /\ i' = i /\ pi' = pi
  BY DEF RangeInv, TypeInv, Truncate
<1> DEFINE m == IF pi + 1 <= Len(ranges) THEN pi + 1 ELSE Len(ranges)
<1>2. m \in Nat /\ m <= Len(ranges) /\ ranges' = SubSeq(ranges, 1, m)
  BY <1>1 DEF Truncate
<1>3. ranges' \in Seq(RangeType) /\ Len(ranges') = m /\ \A k \in 1..m : ranges'[k] = ranges[k]
  <2> HIDE DEF m
  <2> QED BY <1>1, <1>2
<1>4. TypeInv' /\ OrderInv'
  BY <1>1, <1>3, Zenon DEF TypeInv, OrderInv
<1>5. ASSUME BelowTop' PROVE CoverInv' /\ SeparatedInv' /\ EndsInv'
  <2>1. CoverInv /\ SeparatedInv /\ EndsInv
    BY <1>1, <1>5 DEF RangeInv, BelowTop
  <2>2. EndsInv'
    <3>1. \A k \in 1..m : k \in 1..Len(ranges)
      BY <1>1, <1>2
    <3> HIDE DEF m
    <3> QED BY <1>3, <2>1, <3>1 DEF EndsInv
  <2>3. SeparatedInv'
    <3>1. \A k \in 1..m : k \in 1..Len(ranges) /\ k <= pi + 1
      BY <1>1, <1>2
    <3> HIDE DEF m
    <3>2. \A j, k \in 1..m : j < k => ranges[j].end + 1 < ranges[k].begin
      BY <2>1, <3>1 DEF SeparatedInv
    <3> QED BY <1>1, <1>3, <3>2 DEF SeparatedInv
  <2>4. Alive = 1..m /\ Alive' = 1..m
    BY <1>1, <1>3 DEF Alive
  <2>5. CoverInv'
    <3> HIDE DEF m
    <3>1. \A x \in 0..U64Max : Covered(x)' <=> Covered(x)
      BY <1>1 DEF Covered
    <3> QED BY <1>3, <2>1, <2>4, <3>1 DEF CoverInv, Contains
  <2> QED BY <2>2, <2>3, <2>5
<1> QED BY <1>4, <1>5 DEF RangeInv

\* A RangeSet is exact after any calls of `extend': sorted and separated, with
\* `has' and `includes' true of exactly the blocks and the ranges given, if no
\* range ends at u64::MAX.
THEOREM RangeSetAlwaysExact == RangeSpec => []RangeSetExact
<1>1. RangeInit => RangeInv
  <2>1. ASSUME RangeInit PROVE RangeInv
    <3>1. ranges = <<>> /\ ~merging /\ merging \in BOOLEAN /\ i = 1 /\ pi = 0 /\ given = {}
      BY <2>1, Zenon DEF RangeInit
    <3>2. Len(ranges) = 0 /\ ranges \in Seq(RangeType)
      BY <3>1
    <3>3. TypeInv /\ OrderInv
      BY <3>1, <3>2 DEF TypeInv, OrderInv
    <3>4. SeparatedInv /\ EndsInv /\ CoverInv
      BY <3>1, <3>2 DEF SeparatedInv, EndsInv, CoverInv, Alive, Covered
    <3> QED BY <3>3, <3>4 DEF RangeInv
  <2> QED BY <2>1
<1>2. RangeInv /\ [RangeNext]_rangeVars => RangeInv'
  <2>1. ASSUME RangeInv, UNCHANGED rangeVars PROVE RangeInv'
    <3>1. /\ ranges' = ranges /\ merging' = merging /\ i' = i /\ pi' = pi /\ given' = given
      BY <2>1 DEF rangeVars
    <3> QED BY <2>1, <3>1, Zenon DEF RangeInv, TypeInv, OrderInv, CoverInv, SeparatedInv, EndsInv, Alive, Covered,
              Contains, BelowTop
  <2> QED BY <2>1, ExtendKeeps, MergeKeeps, TruncateKeeps DEF RangeNext
<1>3. RangeInv => RangeSetExact
  BY AnswersExact DEF RangeInv, RangeSetExact
<1> QED BY <1>1, <1>2, <1>3, PTL DEF RangeSpec

-----------------------------------------------------------------------------
(***************************************************************************)
(* Log listeners (LogListeners)                                            *)
(***************************************************************************)

\* provider_query and providers_list of PortalBehaviour never get out of step
\* with the query Kademlia runs, whatever order lookups, their results and the
\* ticks of the interval come in: the invariant is inductive as it stands.
THEOREM ListAlwaysOfRunningQuery ==
  ListenSpec => []ListOfRunningQuery
<1>1. ListenInit => ListOfRunningQuery
  BY DEF ListenInit, NoQueries, ListOfRunningQuery
<1>2. ListOfRunningQuery /\ [ListenNext]_listenVars => ListOfRunningQuery'
  <2>. SUFFICES ASSUME ListOfRunningQuery, [ListenNext]_listenVars
                PROVE  ListOfRunningQuery'
    OBVIOUS
  <2>1. CASE UNCHANGED <<provider_query, providers_list, queries>>
    BY <2>1, Zenon DEF ListOfRunningQuery
  <2>2. CASE update_portal_logs_listeners
    <3>1. PICK q \in QueryIds :
            /\ provider_query = NoQuery
            /\ queries' = [p \in DOMAIN queries \cup {q} |-> IF p = q THEN {} ELSE queries[p]]
            /\ provider_query' = q /\ providers_list' = providers_list
      BY <2>2, Zenon DEF update_portal_logs_listeners, get_providers
    <3>2. q # NoQuery
      BY IdAssumption
    <3>3. DOMAIN queries = {} /\ providers_list = {}
      BY <3>1 DEF ListOfRunningQuery
    <3>4. DOMAIN queries' = {q} /\ queries'[q] = {}
      BY <3>1, <3>3
    <3>. QED  BY <3>1, <3>2, <3>3, <3>4, Zenon DEF ListOfRunningQuery
  <2>3. ASSUME NEW q \in QueryIds, NEW found, ProvidersFound(q, found)
        PROVE  ListOfRunningQuery'
    <3>1. /\ q \in DOMAIN queries /\ queries' = [queries EXCEPT ![q] = @ \cup found]
          /\ on_provider_record(q, found, FALSE)
      BY <2>3, Zenon DEF ProvidersFound
    <3>2. provider_query = q /\ q # NoQuery /\ DOMAIN queries = {q} /\ providers_list = queries[q]
      BY <3>1 DEF ListOfRunningQuery
    <3>3. provider_query' = q /\ providers_list' = providers_list \cup found
      BY <3>1, <3>2 DEF on_provider_record
    <3>. QED  BY <3>1, <3>2, <3>3 DEF ListOfRunningQuery
  <2>4. ASSUME NEW q \in QueryIds, QueryEnds(q)
        PROVE  ListOfRunningQuery'
    <3>1. /\ q \in DOMAIN queries /\ queries' = Restrict(queries, DOMAIN queries \ {q})
          /\ on_provider_record(q, {}, TRUE)
      BY <2>4, Zenon DEF QueryEnds
    <3>2. provider_query = q /\ DOMAIN queries = {q}
      BY <3>1, Zenon DEF ListOfRunningQuery
    <3>3. provider_query' = NoQuery /\ providers_list' = {}
      BY <3>1, <3>2 DEF on_provider_record
    <3>4. DOMAIN queries' = {}
      BY <3>1, <3>2 DEF Restrict
    <3>. QED  BY <3>3, <3>4 DEF ListOfRunningQuery
  <2>5. CASE ReceiveListeners
    BY <2>1, <2>5 DEF ReceiveListeners
  <2>6. ASSUME NEW c \in Collectors,
               \/ Start(c) \/ Stop(c) \/ Provide(c) \/ Expire(c)
               \/ \E new \in BOOLEAN : on_identify_event(c, new)
               \/ \E size \in WhitelistSizes : on_nodes_update(c, size)
        PROVE  ListOfRunningQuery'
    BY <2>1, <2>6, Zenon DEF Start, Stop, Provide, Expire, on_identify_event,
                      on_nodes_update, portal
  <2>7. ASSUME NEW o \in Others, OtherProvides(o)
        PROVE  ListOfRunningQuery'
    BY <2>1, <2>7 DEF OtherProvides, portal
  <2>8. CASE UNCHANGED listenVars
    BY <2>1, <2>8 DEF listenVars
  <2>. QED  BY <2>2, <2>3, <2>4, <2>5, <2>6, <2>7, <2>8 DEF ListenNext
<1>. QED  BY <1>1, <1>2, PTL DEF ListenSpec

-----------------------------------------------------------------------------
(***************************************************************************)
(* Portal logs (PortalLogs)                                                *)
(***************************************************************************)

\* the sequence `q' of requests or events has one of the call `s'; has at most
\* one; and what it has of it is `n' bytes of records
Has(q, s) == \E j \in 1..Len(q) : q[j].send = s

Once(q, s) == \A j, k \in 1..Len(q) : q[j].send = s /\ q[k].send = s => j = k

Fits(q, s, n) == \A j \in 1..Len(q) : q[j].send = s => q[j].records * RecordSize = n

LogRequests == [v : {1}, send : {"v1"}] \cup [v : {2}, send : Sends, records : Nat]

LogEvents == [send : Sends \cup {"v1"}, records : Nat]

\* `p' is the sequence `q' with `e' appended; `h' and `p' are its head and tail
Appends(p, q, e) == \E R : q \in Seq(R) /\ e \in R /\ p = Append(q, e)

Takes(q, h, p) == \E R : q \in Seq(R) /\ q # <<>> /\ h = Head(q) /\ p = Tail(q)

\* a full queue drops `e'
Offers(p, q, e) == p = q \/ Appends(p, q, e)

\* the type of what is in a queue, and of what is left of it or added to it
LEMMA QueueTypes ==
  ASSUME NEW R, NEW q \in Seq(R)
  PROVE  /\ q # <<>> => Head(q) \in R /\ Tail(q) \in Seq(R)
         /\ \A e \in R : Append(q, e) \in Seq(R)
         /\ DOMAIN q = 1..Len(q) /\ \A j \in 1..Len(q) : q[j] \in R
  OBVIOUS

\* what is in the queue `p' after `e' was put into `q'
Grown(p, q, e, s, n) ==
  /\ Has(p, s) <=> Has(q, s) \/ e.send = s
  /\ Once(q, s) /\ (~Has(q, s) \/ e.send # s) => Once(p, s)
  /\ Fits(q, s, n) /\ (e.send = s => e.records * RecordSize = n) => Fits(p, s, n)

LEMMA AppendHas ==
  ASSUME NEW q, NEW e, NEW p, Appends(p, q, e), NEW s, NEW n
  PROVE  Grown(p, q, e, s, n)
<1>. PICK R : q \in Seq(R) /\ e \in R /\ p = Append(q, e)
  BY DEF Appends
<1>. PICK l \in Nat : l = Len(q)
  OBVIOUS
<1>1. Len(p) = l + 1 /\ p[l + 1] = e /\ \A j \in 1..l : p[j] = q[j]
  OBVIOUS
<1>2. l + 1 \in 1..(l + 1) /\ \A j \in 1..(l + 1) : j \in 1..l \/ j = l + 1
  OBVIOUS
<1>3. \A j \in 1..l : j \in 1..(l + 1)
  OBVIOUS
<1>4. Has(p, s) <=> Has(q, s) \/ e.send = s
  BY <1>1, <1>2, <1>3 DEF Has
<1>5. Once(q, s) /\ (~Has(q, s) \/ e.send # s) => Once(p, s)
  BY <1>1, <1>2 DEF Has, Once
<1>6. Fits(q, s, n) /\ (e.send = s => e.records * RecordSize = n) => Fits(p, s, n)
  BY <1>1, <1>2 DEF Fits
<1>. QED  BY <1>4, <1>5, <1>6, Zenon DEF Grown

\* what is left in a queue
LEMMA TailHas ==
  ASSUME NEW q, NEW h, NEW p, Takes(q, h, p), NEW s, NEW n
  PROVE  /\ Has(q, s) <=> h.send = s \/ Has(p, s)
         /\ Once(q, s) => Once(p, s) /\ ~(h.send = s /\ Has(p, s))
         /\ Fits(q, s, n) => Fits(p, s, n) /\ (h.send = s => h.records * RecordSize = n)
<1>. PICK R : q \in Seq(R) /\ q # <<>> /\ h = Head(q) /\ p = Tail(q)
  BY DEF Takes
<1>. PICK l \in Nat : l = Len(q) - 1
  OBVIOUS
<1>1. /\ Len(q) = l + 1 /\ Len(p) = l /\ q[1] = h
      /\ \A j \in 1..l : p[j] = q[j + 1]
  <2>1. Len(q) = l + 1 /\ Len(p) = l
    OBVIOUS
  <2>2. q[1] = h
    OBVIOUS
  <2>3. \A j \in 1..l : p[j] = q[j + 1]
    BY <2>1
  <2>. QED  BY <2>1, <2>2, <2>3
<1>2. 1 \in 1..(l + 1) /\ \A j \in 1..l : j + 1 \in 1..(l + 1) /\ j + 1 # 1
  OBVIOUS
<1>3. \A k \in 1..(l + 1) : k = 1 \/ \E j \in 1..l : k = j + 1
  <2>. SUFFICES ASSUME NEW k \in 1..(l + 1), k # 1
                PROVE  \E j \in 1..l : k = j + 1
    OBVIOUS
  <2>1. k - 1 \in 1..l /\ k = (k - 1) + 1
    OBVIOUS
  <2>. QED  BY <2>1
<1>4. \A j, k \in 1..l : j + 1 = k + 1 => j = k
  OBVIOUS
<1>5. Has(q, s) <=> q[1].send = s \/ Has(p, s)
  <2>1. Has(q, s) => q[1].send = s \/ Has(p, s)
    BY <1>1, <1>3 DEF Has
  <2>2. q[1].send = s \/ Has(p, s) => Has(q, s)
    BY <1>1, <1>2 DEF Has
  <2>. QED  BY <2>1, <2>2
<1>6. Once(q, s) => Once(p, s)
  BY <1>1, <1>2, <1>4 DEF Once
<1>7. Once(q, s) => ~(q[1].send = s /\ Has(p, s))
  BY <1>1, <1>2 DEF Once, Has
<1>8. Fits(q, s, n) => Fits(p, s, n) /\ (q[1].send = s => q[1].records * RecordSize = n)
  BY <1>1, <1>2 DEF Fits
<1>. QED  BY <1>1, <1>5, <1>6, <1>7, <1>8

\* the call `s' is in at most one place in both queues together
Apart(q, p, s, n) ==
  /\ Once(q, s) /\ Once(p, s) /\ ~(Has(q, s) /\ Has(p, s))
  /\ Fits(q, s, n) /\ Fits(p, s, n)

\* the head `h' of one queue goes to the end of the next one as `e', or is
\* dropped
Carries(e, h, s) == e.send = h.send /\ (e.send = s => e.records = h.records)

Moved(q, p, q2, p2, s, n) ==
  /\ Apart(q2, p2, s, n)
  /\ Has(q2, s) => Has(q, s)
  /\ Has(p2, s) => Has(q, s) \/ Has(p, s)

LEMMA MoveHas ==
  ASSUME NEW q, NEW h, NEW q2, Takes(q, h, q2),
         NEW p, NEW e, NEW p2, Offers(p2, p, e),
         NEW s, NEW n, Carries(e, h, s), Apart(q, p, s, n)
  PROVE  Moved(q, p, q2, p2, s, n)
<1>1. /\ Has(q, s) <=> h.send = s \/ Has(q2, s)
      /\ Once(q2, s) /\ ~(h.send = s /\ Has(q2, s))
      /\ Fits(q2, s, n) /\ (h.send = s => h.records * RecordSize = n)
  BY TailHas, Zenon DEF Apart
<1>2. CASE p2 = p
  BY <1>1, <1>2, Zenon DEF Apart, Moved
<1>3. CASE Appends(p2, p, e)
  <2>1. e.send = h.send /\ (e.send = s => e.records * RecordSize = n)
    BY <1>1, Zenon DEF Carries
  <2>2. Grown(p2, p, e, s, n)
    BY <1>3, AppendHas, Zenon
  <2>. QED  BY <1>1, <2>1, <2>2, Zenon DEF Apart, Moved, Grown
<1>. QED  BY <1>2, <1>3, Zenon DEF Offers

\* sizes in bytes stand for numbers of records
LEMMA Cancel ==
  ASSUME NEW x \in Nat, NEW y \in Nat, NEW k \in Nat, k >= 1
  PROVE  /\ x * k <= y * k => x <= y
         /\ x * k = y * k => x = y
         /\ x % k = 0 => (x \div k) * k = x
         /\ x \div k \in Nat /\ x * k \in Nat
<1>1. x * k <= y * k => x <= y
  OBVIOUS
<1>2. x * k = y * k => x = y
  OBVIOUS
<1>3. x % k = 0 => (x \div k) * k = x
  OBVIOUS
<1>4. x \div k \in Nat
  OBVIOUS
<1>5. x * k \in Nat
  OBVIOUS
<1>. QED  BY <1>1, <1>2, <1>3, <1>4, <1>5

\* What is known of the logs of call `s' on their way to collector `c'.  They
\* are in one place at most: read by ProtoCodec, decoded, queued or received.
\* Past ProtoCodec, the stream has ended, and they are all that was written to
\* it; a portal that sent all of its batch wrote it all.
PairInv(s, c, sends, b, st, sv, d, e, r) ==
  /\ (c \in DOMAIN sends => sends[c] = "opening") =>
       st.n = 0 /\ <<s, c>> \notin sv /\ ~Has(d, s) /\ ~Has(e, s) /\ ~Has(r, s)
  /\ c \in DOMAIN sends => /\ st.n <= b[1] * RecordSize
                           /\ sends[c] = "ok" => st.n = b[1] * RecordSize
  /\ Has(d, s) \/ Has(e, s) \/ Has(r, s) => st.end = "eof"
  /\ Fits(d, s, st.n) /\ Fits(e, s, st.n) /\ Fits(r, s, st.n)
  /\ Once(d, s) /\ Once(e, s) /\ Once(r, s)
  /\ <<s, c>> \in sv => ~Has(d, s) /\ ~Has(e, s) /\ ~Has(r, s)
  /\ ~(Has(d, s) /\ Has(e, s)) /\ ~(Has(d, s) /\ Has(r, s)) /\ ~(Has(e, s) /\ Has(r, s))

Pair(s, c) ==
  PairInv(s, c, to[s], batch[s], stream[s][c], serving, decoded[c], events[c], received[c])

StreamState == [n : Nat, end : {"none", "open", "eof", "reset"}]

LogsType ==
  /\ DOMAIN batch = Sends /\ DOMAIN to = Sends
  /\ \A s \in Sends : IF batch[s] = <<>> THEN DOMAIN to[s] = {} ELSE batch[s][1] \in Nat
  /\ stream \in [Sends -> [LogCollectors -> StreamState]]
  /\ decoded \in [LogCollectors -> Seq(LogRequests)]
  /\ events \in [LogCollectors -> Seq(LogEvents)]
  /\ received \in [LogCollectors -> Seq(LogEvents)]

LogsInv == LogsType /\ \A s \in Sends, c \in LogCollectors : Pair(s, c)

\* A queue with nothing of a call in it fits any size.
LEMMA NoneFits ==
  ASSUME NEW q, NEW s, NEW n, ~Has(q, s)
  PROVE  Fits(q, s, n)
  BY DEF Has, Fits

\* only the progress and the reading of this very pair matter
LEMMA PairSame ==
  ASSUME NEW s, NEW c, NEW b, NEW st, NEW d, NEW e, NEW r,
         NEW sends, NEW sends2, NEW sv, NEW sv2,
         PairInv(s, c, sends, b, st, sv, d, e, r),
         c \in DOMAIN sends2 <=> c \in DOMAIN sends,
         c \in DOMAIN sends => sends2[c] = sends[c],
         <<s, c>> \in sv2 <=> <<s, c>> \in sv
  PROVE  PairInv(s, c, sends2, b, st, sv2, d, e, r)
  BY Zenon DEF PairInv

-----------------------------------------------------------------------------
\* Nothing was sent yet.
LEMMA InitLogsInv ==
  ASSUME LogsInit
  PROVE  LogsInv
<1>1. LogsType
  <2>1. [n |-> 0, end |-> "none"] \in StreamState
    BY DEF StreamState
  <2>. QED  BY <2>1 DEF LogsInit, LogsType
<1>2. ASSUME NEW s \in Sends, NEW c \in LogCollectors
      PROVE  Pair(s, c)
  <2>1. /\ DOMAIN to[s] = {} /\ stream[s][c].n = 0 /\ serving = {}
        /\ decoded[c] = <<>> /\ events[c] = <<>> /\ received[c] = <<>>
    BY <1>2 DEF LogsInit
  <2>2. ~Has(<<>>, s) /\ Once(<<>>, s)
    BY DEF Has, Once
  <2>3. \A n : Fits(<<>>, s, n)
    BY <2>2, NoneFits
  <2>. QED  BY <2>1, <2>2, <2>3, Zenon DEF Pair, PairInv
<1>. QED  BY <1>1, <1>2 DEF LogsInv

\* send_logs starts a new batch, of which nothing is under way.
LEMMA SendLogsInv ==
  ASSUME LogsInv, NEW s \in Sends, NEW n \in 1..MaxRecords, send_logs(s, n)
  PROVE  LogsInv'
<1>. RecordSize \in Nat /\ n \in Nat
  BY LogsAssumption
<1>1. /\ batch[s] = <<>> /\ batch' = [batch EXCEPT ![s] = <<n>>]
      /\ to' = [to EXCEPT ![s] = [c \in listeners |-> "opening"]]
      /\ UNCHANGED <<stream, serving, decoded, events, received>>
  BY DEF send_logs, collectorVars
<1>2. DOMAIN batch = Sends /\ DOMAIN to = Sends /\ DOMAIN to[s] = {}
  BY <1>1 DEF LogsInv, LogsType
<1>3. /\ batch'[s] = <<n>> /\ to'[s] = [c \in listeners |-> "opening"]
      /\ \A u \in Sends : u # s => batch'[u] = batch[u] /\ to'[u] = to[u]
      /\ DOMAIN batch' = Sends /\ DOMAIN to' = Sends
  BY <1>1, <1>2
<1>4. batch'[s] # <<>> /\ batch'[s][1] = n
  BY <1>3
<1>5. LogsType'
  BY <1>1, <1>3, <1>4 DEF LogsInv, LogsType
<1>6. ASSUME NEW u \in Sends, NEW c \in LogCollectors
      PROVE  Pair(u, c)'
  <2>1. CASE u # s
    BY <1>1, <1>3, <2>1, Zenon DEF LogsInv, Pair
  <2>2. CASE u = s
    <3>1. /\ stream[s][c].n = 0 /\ <<s, c>> \notin serving
          /\ ~Has(decoded[c], s) /\ ~Has(events[c], s) /\ ~Has(received[c], s)
      BY <1>2, <2>2, Zenon DEF LogsInv, Pair, PairInv
    <3>2. c \in DOMAIN to'[s] => to'[s][c] = "opening"
      BY <1>3
    <3>3. 0 <= batch'[s][1] * RecordSize
      BY <1>4
    <3>4. Pair(s, c)
      BY DEF LogsInv
    <3>. QED  BY <1>1, <2>2, <3>1, <3>2, <3>3, <3>4, Zenon DEF Pair, PairInv
  <2>. QED  BY <2>1, <2>2
<1>. QED  BY <1>5, <1>6 DEF LogsInv

\* of the progress and of the streams, only those of one pair change
OnlyProgress(s, c) ==
  /\ DOMAIN to' = Sends /\ \A u \in Sends : DOMAIN to'[u] = DOMAIN to[u]
  /\ \A u \in Sends, m \in LogCollectors :
       <<u, m>> # <<s, c>> /\ m \in DOMAIN to[u] => to'[u][m] = to[u][m]

OnlyStream(s, c) ==
  /\ stream' \in [Sends -> [LogCollectors -> StreamState]]
  /\ \A u \in Sends, m \in LogCollectors : <<u, m>> # <<s, c>> => stream'[u][m] = stream[u][m]

\* the progress of one pair is set
LEMMA EndsFacts ==
  ASSUME LogsType, NEW s \in Sends, NEW c \in LogCollectors, NEW state,
         Sending(s, c), Ends(s, c, state)
  PROVE  OnlyProgress(s, c) /\ c \in DOMAIN to[s] /\ to'[s][c] = state
<1>1. to' = [to EXCEPT ![s] = [to[s] EXCEPT ![c] = state]] /\ c \in DOMAIN to[s]
  BY DEF Ends, Sending
<1>2. DOMAIN to = Sends
  BY DEF LogsType
<1>3. to'[s] = [to[s] EXCEPT ![c] = state] /\ \A u \in Sends : u # s => to'[u] = to[u]
  BY <1>1, <1>2
<1>4. to'[s][c] = state /\ \A m \in DOMAIN to[s] : m # c => to'[s][m] = to[s][m]
  BY <1>1, <1>3
<1>. QED  BY <1>1, <1>2, <1>3, <1>4 DEF OnlyProgress

\* the stream of one pair is set
SetStream(s, c, st) == stream' = [stream EXCEPT ![s] = [stream[s] EXCEPT ![c] = st]]

LEMMA StreamFacts ==
  ASSUME LogsType, NEW s \in Sends, NEW c \in LogCollectors, NEW st \in StreamState,
         SetStream(s, c, st)
  PROVE  OnlyStream(s, c) /\ stream'[s][c] = st
<1>1. stream \in [Sends -> [LogCollectors -> StreamState]]
  BY Zenon DEF LogsType
<1>2. [stream[s] EXCEPT ![c] = st] \in [LogCollectors -> StreamState]
  BY <1>1
<1>3. stream'[s] = [stream[s] EXCEPT ![c] = st] /\ \A u \in Sends : u # s => stream'[u] = stream[u]
  BY <1>1 DEF SetStream
<1>4. stream' \in [Sends -> [LogCollectors -> StreamState]]
  BY <1>1, <1>2 DEF SetStream
<1>5. stream'[s][c] = st /\ \A m \in LogCollectors : m # c => stream'[s][m] = stream[s][m]
  BY <1>1, <1>3
<1>. QED  BY <1>3, <1>4, <1>5 DEF OnlyStream

\* a step that sets the progress and the stream of one pair, and starts reading
\* it at most, leaves the others alone
LEMMA OtherPairs ==
  ASSUME LogsInv, NEW s \in Sends, NEW c \in LogCollectors,
         OnlyProgress(s, c), OnlyStream(s, c),
         UNCHANGED <<batch, decoded, events, received>>,
         serving' = serving \/ serving' = serving \cup {<<s, c>>},
         NEW u \in Sends, NEW m \in LogCollectors, <<u, m>> # <<s, c>>
  PROVE  Pair(u, m)'
<1>1. PairInv(u, m, to[u], batch[u], stream[u][m], serving, decoded[m], events[m], received[m])
  BY Zenon DEF LogsInv, Pair
<1>2. <<u, m>> \in serving' <=> <<u, m>> \in serving
  OBVIOUS
<1>3. /\ DOMAIN to'[u] = DOMAIN to[u] /\ (m \in DOMAIN to[u] => to'[u][m] = to[u][m])
      /\ stream'[u][m] = stream[u][m]
  BY Zenon DEF OnlyProgress, OnlyStream
<1>4. PairInv(u, m, to'[u], batch[u], stream[u][m], serving', decoded[m], events[m], received[m])
  BY <1>1, <1>2, <1>3, PairSame, Zenon
<1>. QED  BY <1>3, <1>4, Zenon DEF Pair

\* get_raw_stream opens the stream and the collector starts to read it.
LEMMA OpenedInv ==
  ASSUME LogsInv, NEW s \in Sends, NEW c \in LogCollectors, get_raw_stream(s, c)
  PROVE  LogsInv'
<1>. LogsType
  BY DEF LogsInv
<1>. PICK st : st = [stream[s][c] EXCEPT !.end = "open"]
  BY Zenon
<1>1. /\ Sending(s, c) /\ to[s][c] = "opening" /\ Ends(s, c, "writing")
      /\ SetStream(s, c, st)
      /\ serving' = serving \cup {<<s, c>>}
      /\ UNCHANGED <<batch, decoded, events, received>>
  BY DEF get_raw_stream, SetStream
<1>2. st \in StreamState /\ st.n = stream[s][c].n
  <2>1. stream[s][c] \in StreamState
    BY DEF LogsType
  <2>. QED  BY <2>1 DEF StreamState
<1>3. OnlyProgress(s, c) /\ c \in DOMAIN to[s] /\ to'[s][c] = "writing"
  BY <1>1, EndsFacts
<1>4. OnlyStream(s, c) /\ stream'[s][c] = st
  BY <1>1, <1>2, StreamFacts
<1>5. LogsType'
  BY <1>1, <1>3, <1>4 DEF LogsType, OnlyProgress, OnlyStream
<1>6. Pair(s, c)'
  <2>1. Pair(s, c)
    BY DEF LogsInv
  <2>2. ~Has(decoded[c], s) /\ ~Has(events[c], s) /\ ~Has(received[c], s)
    BY <1>1, <2>1 DEF Pair, PairInv
  <2>3. c \in DOMAIN to'[s]
    BY <1>3 DEF OnlyProgress
  <2>. QED  BY <1>1, <1>2, <1>3, <1>4, <2>1, <2>2, <2>3 DEF Pair, PairInv
<1>7. ASSUME NEW u \in Sends, NEW m \in LogCollectors, <<u, m>> # <<s, c>>
      PROVE  Pair(u, m)'
  BY <1>1, <1>3, <1>4, <1>7, OtherPairs
<1>. QED  BY <1>5, <1>6, <1>7 DEF LogsInv

\* The portal writes one more byte, or closes the stream after the last one.
LEMMA WrittenInv ==
  ASSUME LogsInv, NEW s \in Sends, NEW c \in LogCollectors, write_all(s, c)
  PROVE  LogsInv'
<1>. LogsType /\ RecordSize \in Nat
  BY LogsAssumption DEF LogsInv
<1>1. /\ Sending(s, c) /\ to[s][c] = "writing" /\ stream[s][c].end = "open"
      /\ UNCHANGED <<batch, serving, decoded, events, received>>
  BY DEF write_all, collectorVars
<1>2. c \in DOMAIN to[s] /\ batch[s][1] \in Nat /\ stream[s][c] \in StreamState
  BY <1>1, Zenon DEF LogsType, Sending
<1>. PICK k \in Nat : k = batch[s][1] * RecordSize
  BY <1>2
<1>3. Pair(s, c)
  BY DEF LogsInv
<1>4. ~Has(decoded[c], s) /\ ~Has(events[c], s) /\ ~Has(received[c], s)
  BY <1>1, <1>3, Zenon DEF Pair, PairInv
<1>5. \A n : Fits(decoded[c], s, n) /\ Fits(events[c], s, n) /\ Fits(received[c], s, n)
  BY <1>4, NoneFits, Zenon
<1>6. ASSUME NEW st \in StreamState, NEW state,
             SetStream(s, c, st),
             st.n <= k, state = "ok" => st.n = k, state # "opening",
             OnlyProgress(s, c), to'[s][c] = state
      PROVE  LogsInv'
  <2>1. OnlyStream(s, c) /\ stream'[s][c] = st
    BY <1>6, StreamFacts, Zenon
  <2>2. LogsType'
    BY <1>1, <1>6, <2>1, Zenon DEF LogsType, OnlyProgress, OnlyStream
  <2>3. Pair(s, c)'
    <3>1. c \in DOMAIN to'[s]
      BY <1>2, <1>6, Zenon DEF OnlyProgress
    <3>. QED  BY <1>1, <1>2, <1>3, <1>4, <1>5, <1>6, <2>1, <3>1, Zenon DEF Pair, PairInv
  <2>4. ASSUME NEW u \in Sends, NEW m \in LogCollectors, <<u, m>> # <<s, c>>
        PROVE  Pair(u, m)'
    BY <1>1, <1>6, <2>1, <2>4, OtherPairs, Zenon
  <2>. QED  BY <2>2, <2>3, <2>4 DEF LogsInv
<1>7. CASE stream[s][c].n < k /\ stream' = [stream EXCEPT ![s][c].n = @ + 1] /\ to' = to
  <2>. PICK st : st = [stream[s][c] EXCEPT !.n = @ + 1]
    BY Zenon
  <2>1. st \in StreamState /\ st.n = stream[s][c].n + 1 /\ stream[s][c].n \in Nat
    BY <1>2 DEF StreamState
  <2>2. SetStream(s, c, st)
    BY <1>7 DEF SetStream
  <2>3. st.n <= k
    BY <1>7, <2>1
  <2>4. OnlyProgress(s, c) /\ to'[s][c] = "writing"
    BY <1>1, <1>7 DEF LogsType, OnlyProgress
  <2>. QED  BY <1>6, <1>7, <2>1, <2>2, <2>3, <2>4, Zenon
<1>8. CASE /\ stream[s][c].n = k /\ stream' = [stream EXCEPT ![s][c].end = "eof"]
           /\ Ends(s, c, "ok")
  <2>. PICK st : st = [stream[s][c] EXCEPT !.end = "eof"]
    BY Zenon
  <2>1. st \in StreamState /\ st.n = k
    BY <1>2, <1>8 DEF StreamState
  <2>2. SetStream(s, c, st)
    BY <1>8 DEF SetStream
  <2>3. OnlyProgress(s, c) /\ to'[s][c] = "ok"
    BY <1>1, <1>8, EndsFacts
  <2>4. st.n <= k /\ "ok" # "opening"
    BY <2>1
  <2>. QED  BY <1>6, <2>1, <2>2, <2>3, <2>4, Zenon
<1>. QED  BY <1>7, <1>8 DEF write_all

\* Sending to this collector fails or times out: the stream is closed or reset
\* with what was written to it.
LEMMA FailedInv ==
  ASSUME LogsInv, NEW s \in Sends, NEW c \in LogCollectors, SendingFails(s, c)
  PROVE  LogsInv'
<1>. LogsType
  BY DEF LogsInv
<1>1. /\ Sending(s, c) /\ Ends(s, c, "err") /\ stream' \in Dropped(s, c)
      /\ UNCHANGED <<batch, serving, decoded, events, received>>
  BY DEF SendingFails, collectorVars
<1>2. c \in DOMAIN to[s] /\ stream[s][c] \in StreamState
  BY <1>1, Zenon DEF LogsType, Sending
<1>3. OnlyProgress(s, c) /\ to'[s][c] = "err"
  BY <1>1, EndsFacts
<1>4. /\ OnlyStream(s, c) /\ stream'[s][c].n = stream[s][c].n
      /\ stream[s][c].end = "eof" => stream'[s][c].end = "eof"
  <2>1. CASE stream[s][c].end = "open"
    <3>1. PICK z \in {"eof", "reset"} : stream' = [stream EXCEPT ![s][c].end = z]
      BY <1>1, <2>1 DEF Dropped
    <3>. PICK st : st = [stream[s][c] EXCEPT !.end = z]
      BY Zenon
    <3>2. st \in StreamState /\ st.n = stream[s][c].n
      BY <1>2 DEF StreamState
    <3>3. SetStream(s, c, st)
      BY <3>1 DEF SetStream
    <3>4. OnlyStream(s, c) /\ stream'[s][c] = st
      BY <3>2, <3>3, StreamFacts
    <3>. QED  BY <2>1, <3>2, <3>4
  <2>2. CASE stream[s][c].end # "open"
    BY <1>1, <2>2 DEF Dropped, LogsType, OnlyStream
  <2>. QED  BY <2>1, <2>2, Zenon
<1>5. LogsType'
  BY <1>1, <1>3, <1>4, Zenon DEF LogsType, OnlyProgress, OnlyStream
<1>6. Pair(s, c)'
  <2>1. Pair(s, c)
    BY DEF LogsInv
  <2>2. c \in DOMAIN to'[s]
    BY <1>2, <1>3, Zenon DEF OnlyProgress
  <2>. QED  BY <1>1, <1>2, <1>3, <1>4, <2>1, <2>2, Zenon DEF Pair, PairInv
<1>7. ASSUME NEW u \in Sends, NEW m \in LogCollectors, <<u, m>> # <<s, c>>
      PROVE  Pair(u, m)'
  BY <1>1, <1>3, <1>4, <1>7, OtherPairs, Zenon
<1>. QED  BY <1>5, <1>6, <1>7 DEF LogsInv

\* the queues of one collector change
LEMMA QueueStep ==
  ASSUME LogsInv, NEW c \in LogCollectors, UNCHANGED <<batch, to, stream>>,
         \A u \in Sends, m \in LogCollectors :
           m # c => (<<u, m>> \in serving' <=> <<u, m>> \in serving),
         NEW d \in Seq(LogRequests), decoded' = [decoded EXCEPT ![c] = d],
         NEW e \in Seq(LogEvents), events' = [events EXCEPT ![c] = e],
         NEW r \in Seq(LogEvents), received' = [received EXCEPT ![c] = r],
         \A u \in Sends : PairInv(u, c, to[u], batch[u], stream[u][c], serving', d, e, r)
  PROVE  LogsInv'
<1>. LogsType
  BY Zenon DEF LogsInv
<1>1. /\ decoded'[c] = d /\ events'[c] = e /\ received'[c] = r
      /\ \A m \in LogCollectors : m # c =>
           decoded'[m] = decoded[m] /\ events'[m] = events[m] /\ received'[m] = received[m]
  BY Zenon DEF LogsType
<1>2. LogsType'
  BY Zenon DEF LogsType
<1>3. ASSUME NEW u \in Sends, NEW m \in LogCollectors
      PROVE  Pair(u, m)'
  <2>1. CASE m = c
    BY <1>1, <2>1 DEF Pair
  <2>2. CASE m # c
    <3>1. PairInv(u, m, to[u], batch[u], stream[u][m], serving, decoded[m], events[m], received[m])
      BY Zenon DEF LogsInv, Pair
    <3>2. PairInv(u, m, to[u], batch[u], stream[u][m], serving', decoded[m], events[m], received[m])
      BY <2>2, <3>1, PairSame, Zenon
    <3>. QED  BY <1>1, <2>2, <3>2, Zenon DEF Pair
  <2>. QED  BY <2>1, <2>2, Zenon
<1>. QED  BY <1>2, <1>3, Zenon DEF LogsInv

\* ProtoCodec reads to the end of the stream and decodes it, or gives up.
LEMMA ReadInv ==
  ASSUME LogsInv, NEW s \in Sends, NEW c \in LogCollectors, read_request(s, c)
  PROVE  LogsInv'
<1>. LogsType /\ RecordSize \in Nat /\ RecordSize >= 1
  BY LogsAssumption DEF LogsInv
<1>1. /\ <<s, c>> \in serving /\ serving' = serving \ {<<s, c>>}
      /\ UNCHANGED <<batch, to, stream, events, received>>
  BY Zenon DEF read_request, portalVars
<1>2. /\ decoded[c] \in Seq(LogRequests) /\ events[c] \in Seq(LogEvents) /\ received[c] \in Seq(LogEvents)
      /\ events' = [events EXCEPT ![c] = events[c]]
      /\ received' = [received EXCEPT ![c] = received[c]]
  BY <1>1, Zenon DEF LogsType
<1>3. \A u \in Sends :
        PairInv(u, c, to[u], batch[u], stream[u][c], serving, decoded[c], events[c], received[c])
  BY Zenon DEF LogsInv, Pair
<1>4. \A u \in Sends, m \in LogCollectors :
        /\ <<u, m>> \in serving' => <<u, m>> \in serving
        /\ <<u, m>> # <<s, c>> => (<<u, m>> \in serving' <=> <<u, m>> \in serving)
  BY <1>1
<1>5. CASE decoded' = decoded
  <2>1. decoded' = [decoded EXCEPT ![c] = decoded[c]]
    BY <1>5, Zenon DEF LogsType
  <2>2. \A u \in Sends :
          PairInv(u, c, to[u], batch[u], stream[u][c], serving', decoded[c], events[c], received[c])
    BY <1>3, <1>4, Zenon DEF PairInv
  <2>. QED  BY <1>1, <1>2, <1>4, <2>1, <2>2, QueueStep, Zenon
<1>6. CASE /\ stream[s][c].end = "eof" /\ stream[s][c].n % RecordSize = 0
           /\ Request(c, [v |-> 2, send |-> s, records |-> stream[s][c].n \div RecordSize])
  <2>. PICK n \in Nat : n = stream[s][c].n
    BY Zenon DEF LogsType, StreamState
  <2>. PICK k \in Nat : k = n \div RecordSize
    BY Cancel, Zenon
  <2>1. k * RecordSize = n
    <3>1. n % RecordSize = 0
      BY <1>6
    <3>. QED  BY <3>1, Cancel, Zenon
  <2>2. PICK q : q = [v |-> 2, send |-> s, records |-> k]
    BY Zenon
  <2>3. q \in LogRequests /\ q.send = s /\ q.records = k
    BY <2>2 DEF LogRequests
  <2>4. PICK d : d = Append(decoded[c], q)
    BY Zenon
  <2>5. decoded' = [decoded EXCEPT ![c] = d] /\ d \in Seq(LogRequests)
    BY <1>2, <1>6, <2>2, <2>3, <2>4 DEF Request
  <2>6. Appends(d, decoded[c], q)
    BY <1>2, <2>3, <2>4 DEF Appends
  <2>7. ASSUME NEW u \in Sends
        PROVE  PairInv(u, c, to[u], batch[u], stream[u][c], serving', d, events[c], received[c])
    <3>1. PairInv(u, c, to[u], batch[u], stream[u][c], serving, decoded[c], events[c], received[c])
      BY <1>3, Zenon
    <3>. PICK x : x = stream[u][c].n
      BY Zenon
    <3>2. Grown(d, decoded[c], q, u, x)
      BY <2>6, AppendHas, Zenon
    <3>3. CASE u = s
      <4>1. <<s, c>> \notin serving'
        BY <1>1, Zenon
      <4>2. c \in DOMAIN to[s] /\ to[s][c] # "opening"
        BY <1>1, <3>1, <3>3, Zenon DEF PairInv
      <4>3. ~Has(decoded[c], s) /\ ~Has(events[c], s) /\ ~Has(received[c], s)
        BY <1>1, <3>1, <3>3, Zenon DEF PairInv
      <4>. QED  BY <1>6, <2>1, <2>3, <3>1, <3>2, <3>3, <4>1, <4>2, <4>3, Zenon
                DEF PairInv, Grown
    <3>4. CASE u # s
      <4>1. <<u, c>> \in serving' <=> <<u, c>> \in serving
        BY <1>4, <3>4, Zenon
      <4>. QED  BY <2>3, <3>1, <3>2, <3>4, <4>1, Zenon DEF PairInv, Grown
    <3>. QED  BY <3>3, <3>4, Zenon
  <2>. QED  BY <1>1, <1>2, <1>4, <2>5, <2>7, QueueStep, Zenon
<1>. QED  BY <1>5, <1>6, Zenon DEF read_request

\* A request of the older protocol is of no call.
LEMMA V1Inv ==
  ASSUME LogsInv, NEW c \in LogCollectors, V1Request(c)
  PROVE  LogsInv'
<1>. LogsType
  BY DEF LogsInv
<1>1. PICK q : q = [v |-> 1, send |-> "v1"]
  BY Zenon
<1>2. q \in LogRequests /\ q.send = "v1"
  BY <1>1 DEF LogRequests
<1>3. PICK d : d = Append(decoded[c], q)
  BY Zenon
<1>4. /\ decoded' = [decoded EXCEPT ![c] = d]
      /\ UNCHANGED <<batch, to, stream, serving, events, received>>
  BY <1>1, <1>3 DEF V1Request, Request, portalVars
<1>5. /\ decoded[c] \in Seq(LogRequests) /\ events[c] \in Seq(LogEvents) /\ received[c] \in Seq(LogEvents)
      /\ events' = [events EXCEPT ![c] = events[c]]
      /\ received' = [received EXCEPT ![c] = received[c]]
  BY <1>4 DEF LogsType
<1>6. d \in Seq(LogRequests)
  BY <1>2, <1>3, <1>5, QueueTypes, Zenon
<1>7. Appends(d, decoded[c], q)
  BY <1>2, <1>3, <1>5 DEF Appends
<1>8. ASSUME NEW u \in Sends
      PROVE  PairInv(u, c, to[u], batch[u], stream[u][c], serving', d, events[c], received[c])
  <2>1. PairInv(u, c, to[u], batch[u], stream[u][c], serving, decoded[c], events[c], received[c])
    BY Zenon DEF LogsInv, Pair
  <2>2. q.send # u
    BY <1>2, LogsAssumption
  <2>. PICK x : x = stream[u][c].n
    OBVIOUS
  <2>3. Grown(d, decoded[c], q, u, x)
    BY <1>7, AppendHas, Zenon
  <2>. QED  BY <1>4, <2>1, <2>2, <2>3, Zenon DEF PairInv, Grown
<1>. QED  BY <1>4, <1>5, <1>6, <1>8, QueueStep, Zenon

\* The collector's behaviour turns a request into an event, or drops it if the
\* queue is full.
LEMMA HandledInv ==
  ASSUME LogsInv, NEW c \in LogCollectors, on_inner_event(c)
  PROVE  LogsInv'
<1>. LogsType
  BY DEF LogsInv
<1>1. PICK d : d = Tail(decoded[c])
  BY Zenon
<1>2. PICK q : q = Head(decoded[c])
  OBVIOUS
<1>3. PICK x : x = IF q.v = 1 THEN on_collector_v1_request(q) ELSE on_collector_v2_request(q)
  OBVIOUS
<1>4. /\ decoded[c] # <<>> /\ decoded' = [decoded EXCEPT ![c] = d]
      /\ UNCHANGED <<batch, to, stream, serving, received>>
      /\ events' = IF Len(events[c]) < EventsQueue
                   THEN [events EXCEPT ![c] = Append(@, x)] ELSE events
  BY <1>1, <1>2, <1>3 DEF on_inner_event, portalVars
<1>5. decoded[c] \in Seq(LogRequests) /\ events[c] \in Seq(LogEvents) /\ received[c] \in Seq(LogEvents)
  BY Zenon DEF LogsType
<1>6. q \in LogRequests /\ d \in Seq(LogRequests)
  BY <1>1, <1>2, <1>4, <1>5, QueueTypes, Zenon
<1>7. x \in LogEvents /\ x.send = q.send /\ (q.send \in Sends => x.records = q.records)
  <2>1. CASE q \in [v : {1}, send : {"v1"}]
    BY <1>3, <2>1, LogsAssumption DEF on_collector_v1_request, LogEvents
  <2>2. CASE q \in [v : {2}, send : Sends, records : Nat]
    BY <1>3, <2>2 DEF on_collector_v2_request, LogEvents
  <2>. QED  BY <1>6, <2>1, <2>2 DEF LogRequests
<1>8. PICK e : /\ e = events[c] \/ e = Append(events[c], x)
               /\ events' = [events EXCEPT ![c] = e]
  <2>1. CASE Len(events[c]) < EventsQueue
    BY <1>4, <2>1, Zenon
  <2>2. CASE ~(Len(events[c]) < EventsQueue)
    BY <1>4, <2>2, Zenon DEF LogsType
  <2>. QED  BY <2>1, <2>2
<1>9. e \in Seq(LogEvents)
  <2>1. x \in LogEvents
    BY <1>7
  <2>2. Append(events[c], x) \in Seq(LogEvents)
    BY <1>5, <2>1, QueueTypes, Zenon
  <2>3. e = events[c] \/ e = Append(events[c], x)
    BY <1>8
  <2>. QED  BY <1>5, <2>2, <2>3
<1>10. ASSUME NEW u \in Sends
       PROVE  PairInv(u, c, to[u], batch[u], stream[u][c], serving', d, e, received[c])
  <2>. PICK n : n = stream[u][c].n
    OBVIOUS
  <2>1. PairInv(u, c, to[u], batch[u], stream[u][c], serving, decoded[c], events[c], received[c])
    BY Zenon DEF LogsInv, Pair
  <2>2. Apart(decoded[c], events[c], u, n)
    BY <2>1, Zenon DEF PairInv, Apart
  <2>3. Carries(x, q, u)
    BY <1>7, Zenon DEF Carries
  <2>4. Moved(decoded[c], events[c], d, e, u, n)
    <3>1. Takes(decoded[c], q, d)
      BY <1>1, <1>2, <1>4, <1>5, Zenon DEF Takes
    <3>2. Offers(e, events[c], x)
      BY <1>5, <1>7, <1>8, Zenon DEF Offers, Appends
    <3>. QED  BY <2>2, <2>3, <3>1, <3>2, MoveHas, Zenon
  <2>. QED  BY <1>4, <2>1, <2>4, Zenon DEF PairInv, Apart, Moved
<1>11. received' = [received EXCEPT ![c] = received[c]]
  BY <1>4 DEF LogsType
<1>12. events' = [events EXCEPT ![c] = e]
  BY <1>8
<1>. QED  BY <1>4, <1>5, <1>6, <1>9, <1>10, <1>11, <1>12, QueueStep, Zenon

\* The application takes the oldest event.
LEMMA TakenInv ==
  ASSUME LogsInv, NEW c \in LogCollectors, TakeEvent(c)
  PROVE  LogsInv'
<1>. LogsType
  BY DEF LogsInv
<1>1. PICK e : e = Tail(events[c])
  BY Zenon
<1>2. PICK x : x = Head(events[c])
  OBVIOUS
<1>3. PICK r : r = Append(received[c], x)
  BY Zenon
<1>4. /\ events[c] # <<>> /\ events' = [events EXCEPT ![c] = e]
      /\ received' = [received EXCEPT ![c] = r]
      /\ UNCHANGED <<batch, to, stream, serving, decoded>>
  BY <1>1, <1>2, <1>3 DEF TakeEvent, portalVars
<1>5. decoded[c] \in Seq(LogRequests) /\ events[c] \in Seq(LogEvents) /\ received[c] \in Seq(LogEvents)
  BY Zenon DEF LogsType
<1>6. x \in LogEvents /\ e \in Seq(LogEvents)
  BY <1>1, <1>2, <1>4, <1>5, QueueTypes, Zenon
<1>7. r \in Seq(LogEvents)
  BY <1>3, <1>5, <1>6, QueueTypes, Zenon
<1>8. decoded' = [decoded EXCEPT ![c] = decoded[c]]
  BY <1>4 DEF LogsType
<1>9. ASSUME NEW u \in Sends
      PROVE  PairInv(u, c, to[u], batch[u], stream[u][c], serving', decoded[c], e, r)
  <2>. PICK n : n = stream[u][c].n
    OBVIOUS
  <2>1. PairInv(u, c, to[u], batch[u], stream[u][c], serving, decoded[c], events[c], received[c])
    BY Zenon DEF LogsInv, Pair
  <2>2. Apart(events[c], received[c], u, n)
    BY <2>1, Zenon DEF PairInv, Apart
  <2>3. Moved(events[c], received[c], e, r, u, n)
    <3>1. Takes(events[c], x, e)
      BY <1>1, <1>2, <1>4, <1>5, Zenon DEF Takes
    <3>2. Offers(r, received[c], x)
      BY <1>3, <1>5, <1>6, Zenon DEF Offers, Appends
    <3>3. Carries(x, x, u)
      BY Zenon DEF Carries
    <3>. QED  BY <2>2, <3>1, <3>2, <3>3, MoveHas, Zenon
  <2>. QED  BY <1>4, <2>1, <2>3, Zenon DEF PairInv, Apart, Moved
<1>. QED  BY <1>4, <1>5, <1>6, <1>7, <1>8, <1>9, QueueStep, Zenon

\* Every step, and stuttering, preserves the invariant.
LEMMA NextLogsInv ==
  ASSUME LogsInv, [LogsNext]_logsVars
  PROVE  LogsInv'
<1>1. CASE UNCHANGED <<batch, to, stream, serving, decoded, events, received>>
  BY <1>1, Zenon DEF LogsInv, LogsType, Pair
<1>2. ASSUME NEW found, ListenersChange(found)
      PROVE  LogsInv'
  BY <1>1, <1>2 DEF ListenersChange, collectorVars
<1>3. ASSUME NEW s \in Sends, publish_portal_logs(s)
      PROVE  LogsInv'
  BY <1>1, <1>3 DEF publish_portal_logs, collectorVars
<1>4. CASE UNCHANGED logsVars
  BY <1>1, <1>4 DEF logsVars
<1>. QED  BY <1>2, <1>3, <1>4, SendLogsInv, OpenedInv, WrittenInv, FailedInv, ReadInv, V1Inv,
             HandledInv, TakenInv DEF LogsNext

\* What a collector received is what PairInv says was written.
LEMMA LogsInvImplies ==
  ASSUME LogsInv
  PROVE  LogsWhole
<1>. RecordSize \in Nat /\ RecordSize >= 1 /\ LogsType
  BY LogsAssumption DEF LogsInv
<1>1. ASSUME NEW s \in Sends, NEW c \in LogCollectors
      PROVE  \A j, k \in Of(s, c) : j = k
  <2>1. Once(received[c], s)
    BY Zenon DEF LogsInv, Pair, PairInv
  <2>2. DOMAIN received[c] = 1..Len(received[c])
    BY QueueTypes, Zenon DEF LogsType
  <2>. QED  BY <2>1, <2>2, Zenon DEF Of, Once
<1>2. ASSUME NEW s \in Sends, NEW c \in LogCollectors, NEW j \in Of(s, c)
      PROVE  /\ c \in DOMAIN to[s]
             /\ received[c][j].records <= batch[s][1]
             /\ to[s][c] = "ok" => received[c][j].records = batch[s][1]
  <2>1. Pair(s, c) /\ received[c] \in Seq(LogEvents)
    BY Zenon DEF LogsInv, LogsType
  <2>2. j \in 1..Len(received[c]) /\ received[c][j].send = s /\ received[c][j] \in LogEvents
    <3>1. j \in DOMAIN received[c] /\ received[c][j].send = s
      BY <1>2, Zenon DEF Of
    <3>. QED  BY <2>1, <3>1, QueueTypes, Zenon
  <2>. PICK x \in Nat : x = received[c][j].records
    BY <2>2 DEF LogEvents
  <2>3. Has(received[c], s) /\ x * RecordSize = stream[s][c].n
    BY <2>1, <2>2, Zenon DEF Pair, PairInv, Has, Fits
  <2>4. c \in DOMAIN to[s]
    BY <2>1, <2>3, Zenon DEF Pair, PairInv
  <2>5. batch[s][1] \in Nat
    BY <2>4, Zenon DEF LogsType
  <2>6. /\ x * RecordSize <= batch[s][1] * RecordSize
        /\ to[s][c] = "ok" => x * RecordSize = batch[s][1] * RecordSize
    BY <2>1, <2>3, <2>4, Zenon DEF Pair, PairInv
  <2>. QED  BY <2>4, <2>5, <2>6, Cancel, Zenon
<1>. QED  BY <1>1, <1>2 DEF LogsWhole

-----------------------------------------------------------------------------
\* A collector hands the logs of a call of send_logs on at most once, only if
\* they were sent to it, never more than the call's batch, and all of the batch
\* if the portal finished sending it.
THEOREM LogsAlwaysWhole ==
  LogsSpec => []LogsWhole
<1>1. LogsInit => LogsInv
  BY InitLogsInv
<1>2. LogsInv /\ [LogsNext]_logsVars => LogsInv'
  BY NextLogsInv
<1>3. LogsInv => LogsWhole
  BY LogsInvImplies
<1>. QED  BY <1>1, <1>2, <1>3, PTL DEF LogsSpec

-----------------------------------------------------------------------------
(***************************************************************************)
(* Streams that keep connections (KeepAlive)                               *)
(***************************************************************************)

\* a stream is on one connection, and a task is spawned when its connection
\* has been established
KeepInv ==
  /\ conn \in [Conns -> {"new", "live", "closed"}]
  /\ opener \in [Conns -> {"none", "opening", "dialing", "asked", "reading", "ended"}]
  /\ on \in [Conns -> SUBSET Conns]
  /\ end \in [Conns -> {"none", "queued", "held", "dropped"}]
  /\ incoming \in Seq(Conns)
  /\ fails \in Nat
  /\ \A n \in Conns : \A m, k \in on[n] : m = k
  /\ \A n \in Conns : conn[n] = "new" => opener[n] = "none"

\* A channel that is empty or gets a stream holds connections (libp2p_stream).
LEMMA ChannelTypes ==
  ASSUME NEW S, NEW q \in Seq(S)
  PROVE  /\ \A x \in S : Append(q, x) \in Seq(S)
         /\ q # <<>> => Head(q) \in S /\ Tail(q) \in Seq(S)
OBVIOUS

\* Every step keeps a stream on the one connection open_stream found.
LEMMA NextKeepInv ==
  ASSUME KeepInv, [KeepNext]_keepVars
  PROVE  KeepInv'
<1>. USE DEF KeepInv
<1>1. ASSUME NEW m \in Conns, NEW c \in Clients, ConnectionEstablished(m, c)
      PROVE  KeepInv'
  BY <1>1 DEF ConnectionEstablished, ensure_keep_alive
<1>2. ASSUME NEW n \in Conns, open_stream(n)
      PROVE  KeepInv'
  BY <1>2 DEF open_stream, Live
<1>3. ASSUME NEW n \in Conns, OpenerEnds(n)
      PROVE  KeepInv'
  BY <1>3 DEF OpenerEnds
<1>4. ASSUME NEW n \in Conns, on_inbound_stream(n)
      PROVE  KeepInv'
  <2>1. incoming' \in Seq(Conns)
    BY <1>4, ChannelTypes DEF on_inbound_stream
  <2>. QED  BY <1>4, <2>1 DEF on_inbound_stream
<1>5. ASSUME NEW n \in Conns, ReadReturns(n)
      PROVE  KeepInv'
  BY <1>5 DEF ReadReturns
<1>6. ASSUME NEW m \in Conns, IdleTimeout(m)
      PROVE  KeepInv'
  BY <1>6 DEF IdleTimeout
<1>7. ASSUME NEW m \in Conns, Fails(m)
      PROVE  KeepInv'
  BY <1>7 DEF Fails
<1>8. CASE poll
  <2>1. Head(incoming) \in Conns /\ incoming' \in Seq(Conns)
    BY <1>8, ChannelTypes DEF poll
  <2>. QED  BY <1>8, <2>1 DEF poll
<1>9. CASE UNCHANGED keepVars
  BY <1>9 DEF keepVars
<1>. QED  BY <1>1, <1>2, <1>3, <1>4, <1>5, <1>6, <1>7, <1>8, <1>9, Zenon DEF KeepNext

\* A step that is no failure keeps a stream the server accepted, and with it
\* the connection: neither end is dropped while the other is held.
LEMMA KeptByStep ==
  ASSUME KeepInv, [KeepNext]_keepVars, NEW m \in Conns, NEW n \in Conns, conn[m] = "live",
         m \in on[n], opener[n] = "reading", end[n] \in {"queued", "held"}
  PROVE  \/ conn'[m] = "live" /\ m \in on'[n] /\ opener'[n] = "reading" /\ end'[n] \in {"queued", "held"}
         \/ fails' > fails
<1>. DEFINE Kept == conn'[m] = "live" /\ m \in on'[n] /\ opener'[n] = "reading" /\ end'[n] \in {"queued", "held"}
<1>. USE DEF KeepInv
<1>0. ~Lost(n)
  BY DEF Lost
<1>1. ASSUME NEW k \in Conns, NEW c \in Clients, ConnectionEstablished(k, c)
      PROVE  Kept
  BY <1>1 DEF ConnectionEstablished
<1>2. ASSUME NEW k \in Conns, open_stream(k)
      PROVE  Kept
  BY <1>2 DEF open_stream
<1>3. ASSUME NEW k \in Conns, OpenerEnds(k)
      PROVE  Kept
  BY <1>0, <1>3 DEF OpenerEnds
<1>4. ASSUME NEW k \in Conns, on_inbound_stream(k)
      PROVE  Kept
  BY <1>4 DEF on_inbound_stream
<1>5. ASSUME NEW k \in Conns, ReadReturns(k)
      PROVE  Kept
  BY <1>0, <1>5 DEF ReadReturns
<1>6. ASSUME NEW k \in Conns, IdleTimeout(k)
      PROVE  Kept
  BY <1>6 DEF IdleTimeout, Idle
<1>7. ASSUME NEW k \in Conns, Fails(k)
      PROVE  fails' > fails
  BY <1>7 DEF Fails
<1>8. CASE poll
  <2>1. Head(incoming) \in Conns
    BY <1>8, ChannelTypes DEF poll
  <2>. QED  BY <1>8, <2>1 DEF poll
<1>9. CASE UNCHANGED keepVars
  BY <1>9 DEF keepVars
<1>. QED  BY <1>1, <1>2, <1>3, <1>4, <1>5, <1>6, <1>7, <1>8, <1>9, Zenon DEF KeepNext

\* "This prevents the connection from being closed due to idle timeout"
\* (keep_alive.rs:17): for any number of clients and connections, however many
\* of them fail, a connection with a stream the server accepted stays, with
\* such a stream, unless it fails.
THEOREM StreamAlwaysKeeps == KeepSpec => [][StreamKeepsConnection]_keepVars
<1>1. KeepInit => KeepInv
  BY DEF KeepInit, KeepInv
<1>2. KeepInv /\ [KeepNext]_keepVars => KeepInv'
  BY NextKeepInv
<1>3. KeepInv /\ [KeepNext]_keepVars => [StreamKeepsConnection]_keepVars
  <2>. SUFFICES ASSUME KeepInv, [KeepNext]_keepVars, NEW m \in Conns, conn[m] = "live",
                       NEW n \in Streams(m, {"queued", "held"})
                PROVE  \/ conn'[m] = "live" /\ Streams(m, {"queued", "held"})' # {}
                       \/ fails' > fails
    BY DEF StreamKeepsConnection
  <2>. QED  BY KeptByStep DEF Streams
<1>. QED  BY <1>1, <1>2, <1>3, PTL DEF KeepSpec
=============================================================================
