------------------------- MODULE AssignmentColumns --------------------------
(***************************************************************************)
(* What the builders and readers of the worker and the portal assignment   *)
(* have in common (crates/assignments/src/builder.rs, reader.rs): chunks   *)
(* are rows over the columns of a dataset, some of them compressed.        *)
(* Columns are indexed from 0 in the code and from 1 here; Option columns  *)
(* are <<>> for None, numbers are None.                                    *)
(***************************************************************************)
EXTENDS Integers, Sequences, FiniteSetsExt

None == -1

HASH_MAX_LEN == 3  \* 8 in the code

\* the hashes of a DataChunk, 5 to 8 word characters in the code: no byte is NUL
Hashes == {h \in Seq(Nat \ {0}) : Len(h) <= HASH_MAX_LEN}

\* the ids of chunks (DataChunk::new)
DataChunks == {
  id \in [top : Nat, first : Nat, last : Nat, hash : Hashes] :
    id.top <= id.first /\ id.first <= id.last}

chunk_hash(hash) == [i \in 1..HASH_MAX_LEN |-> IF i <= Len(hash) THEN hash[i] ELSE 0]

hash(bytes) == SubSeq(bytes, 1, Min({i \in 1..HASH_MAX_LEN : bytes[i] = 0} \cup {HASH_MAX_LEN + 1}) - 1)

\* holds: whether the predicate holds, by index; low and high as in the loop
partition_point(holds) ==
  LET bisect[w \in (0..Len(holds)) \X (0..Len(holds))] ==
        LET low == w[1]
            high == w[2]
            mid == low + (high - low) \div 2
        IN IF low >= high THEN low
           ELSE IF holds[mid + 1] THEN bisect[<<mid + 1, high>>] ELSE bisect[<<low, mid>>]
  IN bisect[<<0, Len(holds)>>]

\* the index of a key, None if the bisection does not meet it; `mid - 1' is -1
\* where the code returns None at once
lookup_index_by_key(keys, key) ==
  LET search[w \in (0..Len(keys)) \X (-1..Len(keys) - 1)] ==
        LET left == w[1]
            right == w[2]
            mid == (left + right) \div 2
        IN IF left > right THEN None
           ELSE IF keys[mid + 1] = key THEN mid
           ELSE IF keys[mid + 1] < key THEN search[<<mid + 1, right>>] ELSE search[<<left, mid - 1>>]
  IN search[<<0, Len(keys) - 1>>]

\* `last_peer_id' is that of the last entry; another order panics
CanAddWorker(entries, id) == entries # <<>> => entries[Len(entries)].id < id

-----------------------------------------------------------------------------
\* mutant: a run begins only where the top grows
PushTopGrowing(tops, index, top) ==
  IF tops = <<>> \/ tops[Len(tops)].top < top
  THEN Append(tops, [first_chunk_index |-> index, top |-> top])
  ELSE tops

\* tops are stored as runs of equal ones
PushTop(tops, index, top) ==
  IF tops = <<>> \/ tops[Len(tops)].top # top
  THEN Append(tops, [first_chunk_index |-> index, top |-> top])
  ELSE tops

check_top_runs(tops) ==
  /\ tops # <<>>
  /\ tops[1].first_chunk_index = 0
  /\ \A i \in 1..Len(tops) - 1 : tops[i].first_chunk_index < tops[i + 1].first_chunk_index

\* the last run at or before the chunk
top_at(tops, index) ==
  LET above == partition_point([i \in DOMAIN tops |-> tops[i].first_chunk_index <= index])
  IN IF above = 0 THEN None ELSE tops[above].top

\* a leading 0, so slot i is the start of chunk i's slice and slot i + 1 its end
Offsets(ends) == <<0>> \o ends

\* the slice of the chunk, clamped to the column
Slice(offsets, column, index) ==
  SubSeq(column, offsets[index + 1] + 1, Min({offsets[index + 2], Len(column)}))

\* an all-zero column of versions is left out
EmitVersions(versions) == IF \E i \in DOMAIN versions : versions[i] # 0 THEN versions ELSE <<>>

VersionAt(versions, index) == IF versions = <<>> THEN 0 ELSE versions[index + 1]

\* `lens' are the lengths of the columns that have one entry per chunk
check_columns(chunks, lens, tops) ==
  /\ \A len \in lens : len = chunks
  /\ tops # <<>>
  /\ tops[1].first_chunk_index = 0

\* of a vector of offsets that may be missing
Entries(offsets, chunks) == IF offsets = <<>> THEN chunks ELSE Len(offsets) - 1

\* last + 1 # start, unless the chunk is the first one
BreaksContinuity(last_block, start) == last_block # None /\ last_block + 1 # start
=============================================================================
