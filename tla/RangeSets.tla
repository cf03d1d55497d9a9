------------------------------ MODULE RangeSets -----------------------------
(***************************************************************************)
(* RangeSet (crates/messages/src/range.rs): a set of blocks as a list of   *)
(* ranges, and its `extend', one step per iteration of the loop that       *)
(* merges them in place.  A behaviour extends one set several times.       *)
(***************************************************************************)
EXTENDS Integers, Sequences

CONSTANTS
  U64Max,      \* u64::MAX
  Batches,     \* the lists of ranges passed to extend
  MaxExtends   \* bounds the calls of extend

\* Range::new asserts its order
RangeType == {r \in [begin : 0..U64Max, end : 0..U64Max] : r.begin <= r.end}

ASSUME RangeAssumption == U64Max \in Nat /\ Batches \subseteq Seq(RangeType) /\ MaxExtends \in Nat

VARIABLES
  ranges,   \* RangeSet::ranges
  merging,  \* whether `extend' is in its loop
  i, pi,    \* the counters of the loop, from 0
  calls,    \* how often extend was called
  given     \* every range that was passed to it

rangeVars == <<ranges, merging, i, pi, calls, given>>

RangeInit ==
  /\ ranges = <<>> /\ merging = FALSE /\ i = 1 /\ pi = 0
  /\ calls = 0 /\ given = {}

\* the order derived for Range
LessOrEqual(r, s) == r.begin < s.begin \/ (r.begin = s.begin /\ r.end <= s.end)

Bijections(n) == {p \in [1..n -> 1..n] : \A k \in 1..n : \E j \in 1..n : p[j] = k}

IsSorted(s) == \A j, k \in 1..Len(s) : j <= k => LessOrEqual(s[j], s[k])

\* the list appended to and sorted
extend(batch) ==
  /\ ~merging /\ calls < MaxExtends
  /\ LET all == ranges \o batch IN
     \E p \in Bijections(Len(all)) :
       /\ ranges' = [k \in 1..Len(all) |-> all[p[k]]]
       /\ IsSorted(ranges')
  /\ merging' = TRUE /\ i' = 1 /\ pi' = 0
  /\ calls' = calls + 1
  /\ given' = given \cup {batch[k] : k \in 1..Len(batch)}

\* u64 addition, which wraps unless overflow checks are on
Succ(x) == IF x = U64Max THEN 0 ELSE x + 1

Larger(x, y) == IF x >= y THEN x ELSE y

\* mutant: ranges that touch are kept apart
MergeOverlapping ==
  /\ merging /\ i < Len(ranges)
  /\ LET c == ranges[i + 1]
         p == ranges[pi + 1]
     IN \/ /\ c.begin > p.end
           /\ pi' = pi + 1
           /\ ranges' = [ranges EXCEPT ![pi + 2] = c]
        \/ /\ c.begin <= p.end
           /\ ranges' = [ranges EXCEPT ![pi + 1] = [begin |-> p.begin, end |-> Larger(c.end, p.end)]]
           /\ UNCHANGED pi
  /\ i' = i + 1
  /\ UNCHANGED <<merging, calls, given>>

Merge ==
  /\ merging /\ i < Len(ranges)
  /\ LET c == ranges[i + 1]
         p == ranges[pi + 1]
     IN \/ /\ c.begin > Succ(p.end)
           /\ pi' = pi + 1
           /\ ranges' = [ranges EXCEPT ![pi + 2] = c]
        \/ /\ c.begin <= Succ(p.end)
           /\ ranges' = [ranges EXCEPT ![pi + 1] = [begin |-> p.begin, end |-> Larger(c.end, p.end)]]
           /\ UNCHANGED pi
  /\ i' = i + 1
  /\ UNCHANGED <<merging, calls, given>>

\* an empty list stays empty
Truncate ==
  /\ merging /\ i >= Len(ranges)
  /\ ranges' = SubSeq(ranges, 1, IF pi + 1 <= Len(ranges) THEN pi + 1 ELSE Len(ranges))
  /\ merging' = FALSE
  /\ UNCHANGED <<i, pi, calls, given>>

RangeNext == (\E batch \in Batches : extend(batch)) \/ Merge \/ Truncate

RangeSpec == RangeInit /\ [][RangeNext]_rangeVars

-----------------------------------------------------------------------------
Contains(r, point) == r.begin <= point /\ point <= r.end

\* the binary search of slices finds one, if the list is ordered
containing_range(point) == {k \in 1..Len(ranges) : Contains(ranges[k], point)}

has(point) == containing_range(point) # {}

includes(r) == \E k \in containing_range(r.begin) : ranges[k].end >= r.end

-----------------------------------------------------------------------------
(***************************************************************************)
(* Properties                                                              *)
(***************************************************************************)

Covered(point) == \E r \in given : Contains(r, point)

\* the last block has no successor to compare with
BelowTop == \A r \in given : r.end < U64Max

\* the name of a test, "range_set_always_sorted_and_separated": a block lies
\* between any two ranges, so that a binary search has one answer
Separated == \A j, k \in 1..Len(ranges) : j < k => ranges[j].end + 1 < ranges[k].begin

HasExact == \A point \in 0..U64Max : has(point) <=> Covered(point)

IncludesExact ==
  \A r \in RangeType : includes(r) <=> \A point \in r.begin..r.end : Covered(point)

\* After any calls of `extend', with ranges that overlap, touch or repeat, in
\* any order, the list is sorted and separated, `has' answers for exactly the
\* blocks that were given, and `includes', which looks at one range only, for
\* exactly the ranges all of whose blocks were.  Ranges that end at u64::MAX
\* are excluded: the successor of their end wraps.
RangeSetExact == ~merging /\ BelowTop => Separated /\ HasExact /\ IncludesExact
=============================================================================
