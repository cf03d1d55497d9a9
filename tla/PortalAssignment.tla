-------------------------- MODULE PortalAssignment --------------------------
(***************************************************************************)
(* The portal-facing assignment: PortalAssignmentBuilder with its dataset  *)
(* and chunk builders (crates/assignments/src/builder.rs), and how a       *)
(* portal finds the chunk for a block or a timestamp in it (reader.rs).    *)
(* Dataset ids are numbers, in the order of the strings.                   *)
(***************************************************************************)
EXTENDS AssignmentColumns

CONSTANTS
  DatasetIds,
  ReadSchemaIds,
  LastBlockHashes,   \* of the head block; an Option
  WorkerLists,       \* the lists passed to worker_indexes
  PeerIds,           \* numbers, in the order of the peer ids
  Statuses,          \* WorkerStatus
  ChunkInputs,       \* id (a DataChunk), block range, version and timestamp
  CheckContinuity,   \* check_continuity
  U32Max,            \* u32::MAX
  MaxDatasets,       \* bounds the datasets of an assignment
  MaxChunks,         \* bounds the chunks staged in an assignment
  Blocks,            \* the blocks a portal asks for
  Timestamps         \* the timestamps a portal asks for

VARIABLES
  \* PortalAssignmentBuilder
  last_block, all_datasets, columns, worker_entries, staged_worker_indexes,
  dataset,  \* the open PortalDatasetBuilder, <<>> if there is none
  chunk,    \* whether a PortalAssignmentChunkBuilder is open
  blob,     \* what `finish' returned, <<>> before
  rows,     \* what the caller staged in the open dataset
  expected  \* and in the emitted ones

\* what callers can pass: unsigned numbers, and ids that are DataChunks
IsChunkInput(in) ==
  /\ in.id \in DataChunks
  /\ in.first \in Nat /\ in.last \in Nat /\ in.version \in Nat /\ in.timestamp \in Nat
PortalCalls ==
  /\ U32Max \in Nat
  /\ DatasetIds \subseteq Int /\ Blocks \subseteq Nat /\ Timestamps \subseteq Nat
  /\ \A indexes \in WorkerLists : indexes \in Seq(Nat)
  /\ \A in \in ChunkInputs : IsChunkInput(in)

vars == <<last_block, all_datasets, columns, worker_entries, staged_worker_indexes, dataset, chunk,
          blob, rows, expected>>

NoColumns == [
  first_blocks |-> <<>>, block_deltas |-> <<>>, hashes |-> <<>>, tops |-> <<>>,
  timestamps |-> <<>>, versions |-> <<>>, worker_ends |-> <<>>, worker_indexes |-> <<>>]

Init ==
  /\ last_block = None /\ all_datasets = <<>> /\ columns = NoColumns
  /\ worker_entries = <<>> /\ staged_worker_indexes = <<>>
  /\ dataset = <<>> /\ chunk = FALSE /\ blob = <<>>
  /\ rows = <<>> /\ expected = <<>>

-----------------------------------------------------------------------------
(***************************************************************************)
(* Datasets                                                                *)
(***************************************************************************)

new_dataset(id, read_schema_id) ==
  /\ dataset = <<>> /\ blob = <<>> /\ Len(all_datasets) < MaxDatasets
  /\ dataset' = <<[id |-> id, read_schema_id |-> read_schema_id]>>
  /\ rows' = <<>>
  /\ UNCHANGED <<last_block, all_datasets, columns, worker_entries, staged_worker_indexes, chunk, blob,
                 expected>>

discard_dataset == columns' = NoColumns /\ last_block' = None

\* the dataset as it is written: what a reader gets
Emitted(d, last_block_hash) == [
  id |-> d.id, read_schema_id |-> d.read_schema_id, last_block_hash |-> last_block_hash,
  last_block |-> last_block,
  first_blocks |-> columns.first_blocks, block_deltas |-> columns.block_deltas,
  hashes |-> columns.hashes, tops |-> columns.tops, timestamps |-> columns.timestamps,
  versions |-> EmitVersions(columns.versions),
  worker_offsets |-> Offsets(columns.worker_ends), worker_indexes |-> columns.worker_indexes]

CanEmit == columns.first_blocks # <<>> /\ check_top_runs(columns.tops)

\* Without a last block `expect' panics, and nothing follows.
emit_dataset(d, last_block_hash) ==
  /\ CanEmit
  /\ last_block # None
  /\ all_datasets' = Append(all_datasets, Emitted(d, last_block_hash))
  /\ expected' = Append(expected, rows)
  /\ columns' = NoColumns /\ last_block' = None

FinishDataset(last_block_hash) ==
  /\ dataset # <<>> /\ ~chunk
  /\ dataset' = <<>>
  /\ \/ emit_dataset(dataset[1], last_block_hash)
     \/ ~CanEmit /\ discard_dataset /\ UNCHANGED <<all_datasets, expected>>
  /\ UNCHANGED <<worker_entries, staged_worker_indexes, chunk, blob, rows>>

DropDataset ==
  /\ dataset # <<>> /\ ~chunk
  /\ dataset' = <<>>
  /\ discard_dataset
  /\ UNCHANGED <<all_datasets, worker_entries, staged_worker_indexes, chunk, blob, rows, expected>>

add_worker(id, status) ==
  /\ dataset = <<>> /\ blob = <<>>
  /\ CanAddWorker(worker_entries, id)
  /\ worker_entries' = Append(worker_entries, [id |-> id, status |-> status])
  /\ UNCHANGED <<last_block, all_datasets, columns, staged_worker_indexes, dataset, chunk, blob, rows,
                 expected>>

Finish ==
  /\ dataset = <<>> /\ blob = <<>>
  /\ blob' = <<[datasets |-> all_datasets, workers |-> worker_entries]>>
  /\ UNCHANGED <<last_block, all_datasets, columns, worker_entries, staged_worker_indexes, dataset,
                 chunk, rows, expected>>

-----------------------------------------------------------------------------
(***************************************************************************)
(* Chunks                                                                  *)
(***************************************************************************)

new_chunk ==
  /\ dataset # <<>> /\ ~chunk
  /\ Len(columns.first_blocks) + MapThenSumSet(LAMBDA i : Len(expected[i]), DOMAIN expected) < MaxChunks
  /\ chunk' = TRUE
  /\ staged_worker_indexes' = <<>>
  /\ UNCHANGED <<last_block, all_datasets, columns, worker_entries, dataset, blob, rows, expected>>

worker_indexes(indexes) ==
  /\ chunk
  /\ staged_worker_indexes' = indexes
  /\ UNCHANGED <<last_block, all_datasets, columns, worker_entries, dataset, chunk, blob, rows,
                 expected>>

DropChunk ==
  /\ chunk
  /\ chunk' = FALSE
  /\ UNCHANGED <<last_block, all_datasets, columns, worker_entries, staged_worker_indexes, dataset,
                 blob, rows, expected>>

\* the columns with one more row; the end of the worker slice is pushed last,
\* and only if it fits
PushRow(in) ==
  LET refs == columns.worker_indexes \o staged_worker_indexes
  IN [columns EXCEPT
       !.tops = PushTop(@, Len(columns.first_blocks), in.id.top),
       !.first_blocks = Append(@, in.first),
       !.block_deltas = Append(@, in.last - in.first),
       !.hashes = Append(@, chunk_hash(in.id.hash)),
       !.versions = Append(@, in.version),
       !.timestamps = Append(@, in.timestamp),
       !.worker_indexes = refs,
       !.worker_ends = IF Len(refs) <= U32Max THEN Append(@, Len(refs)) ELSE @]

\* what the caller expects to read back
Row(in) ==
  [top |-> in.id.top, first |-> in.first, last |-> in.last, hash |-> in.id.hash,
   version |-> in.version, timestamp |-> in.timestamp, workers |-> staged_worker_indexes]

\* With check_continuity off, a gap still appends and only reports.
push_chunk(in) ==
  IF \/ BreaksContinuity(last_block, in.first) /\ CheckContinuity
     \/ Len(columns.first_blocks) > U32Max
     \/ in.last - in.first > U32Max
  THEN UNCHANGED <<columns, last_block, rows>>
  ELSE /\ columns' = PushRow(in)
       /\ IF Len(columns.worker_indexes \o staged_worker_indexes) <= U32Max
          THEN last_block' = in.last /\ rows' = Append(rows, Row(in))
          ELSE UNCHANGED <<last_block, rows>>

\* an id that is missing or disagrees with the range is refused
FinishChunk(in) ==
  /\ chunk
  /\ chunk' = FALSE
  /\ IF in.id.first = in.first /\ in.id.last = in.last
     THEN push_chunk(in)
     ELSE UNCHANGED <<columns, last_block, rows>>
  /\ UNCHANGED <<all_datasets, worker_entries, staged_worker_indexes, dataset, blob, expected>>

\* whether `finish' reports an error, which with check_continuity off does not
\* mean that the chunk was not added
FinishChunkFails(in) ==
  \/ in.id.first # in.first \/ in.id.last # in.last
  \/ BreaksContinuity(last_block, in.first)
  \/ Len(columns.first_blocks) > U32Max
  \/ in.last - in.first > U32Max
  \/ Len(columns.worker_indexes \o staged_worker_indexes) > U32Max

Next ==
  \/ \E id \in DatasetIds, read_schema_id \in ReadSchemaIds : new_dataset(id, read_schema_id)
  \/ \E id \in PeerIds, status \in Statuses : add_worker(id, status)
  \/ \E last_block_hash \in LastBlockHashes : FinishDataset(last_block_hash)
  \/ DropDataset
  \/ Finish
  \/ new_chunk
  \/ \E indexes \in WorkerLists : worker_indexes(indexes)
  \/ DropChunk
  \/ \E in \in ChunkInputs : FinishChunk(in)

Spec == Init /\ [][Next]_vars

-----------------------------------------------------------------------------
(***************************************************************************)
(* The reader                                                              *)
(***************************************************************************)

from_owned(d) ==
  LET chunks == Len(d.first_blocks) IN
  check_columns(chunks,
    {Len(d.block_deltas), Len(d.hashes), Len(d.timestamps), Len(d.worker_offsets) - 1,
     IF d.versions = <<>> THEN chunks ELSE Len(d.versions)},
    d.tops)

PortalChunk(d, index) ==
  [top |-> top_at(d.tops, index),
   first |-> d.first_blocks[index + 1],
   last |-> d.first_blocks[index + 1] + d.block_deltas[index + 1],
   hash |-> hash(d.hashes[index + 1]),
   version |-> VersionAt(d.versions, index),
   timestamp |-> d.timestamps[index + 1],
   workers |-> Slice(d.worker_offsets, d.worker_indexes, index)]

\* the index of the dataset by binary search, None if it is not met
lookup_by_key(datasets, id) == lookup_index_by_key([i \in DOMAIN datasets |-> datasets[i].id], id)

get_dataset(id) ==
  LET index == lookup_by_key(blob[1].datasets, id) IN IF index = None THEN <<>> ELSE <<blob[1].datasets[index + 1]>>

\* mutant: as in the legacy assignment, the end of the chunk is not looked at
FindChunkNoEnd(id, block) ==
  IF get_dataset(id) = <<>> THEN <<"UnknownDataset">>
  ELSE LET d == get_dataset(id)[1]
           above == partition_point([i \in DOMAIN d.first_blocks |-> d.first_blocks[i] <= block])
       IN IF block > d.last_block THEN <<"AfterLast">>
          ELSE IF above = 0 THEN <<"BeforeFirst">>
          ELSE <<"Ok", above - 1>>

find_chunk(id, block) ==
  IF get_dataset(id) = <<>> THEN <<"UnknownDataset">>
  ELSE LET d == get_dataset(id)[1]
           above == partition_point([i \in DOMAIN d.first_blocks |-> d.first_blocks[i] <= block])
       IN IF block > d.last_block THEN <<"AfterLast">>
          ELSE IF above = 0 THEN <<"BeforeFirst">>
          ELSE IF block > PortalChunk(d, above - 1).last THEN <<"InGap">>
          ELSE <<"Ok", above - 1>>

find_chunk_by_timestamp(id, ts) ==
  IF get_dataset(id) = <<>> THEN <<"UnknownDataset">>
  ELSE LET d == get_dataset(id)[1]
           count == Len(d.first_blocks)
           index == partition_point([i \in 1..count |-> d.timestamps[i] < ts])
       IN IF index = count THEN <<"AfterLast">> ELSE <<"Ok", index>>

-----------------------------------------------------------------------------
(***************************************************************************)
(* Properties                                                              *)
(***************************************************************************)

\* A portal reads back exactly the chunks that were staged, with the ids,
\* versions, timestamps and workers they were given, although tops, versions and
\* workers are stored compressed.  A dataset with more worker references than a
\* u32 counts, which its builder reported and emitted nevertheless, is refused
\* and never misread; every other one is accepted.
RoundTrip ==
  blob # <<>> =>
    \A i \in DOMAIN blob[1].datasets :
      LET d == blob[1].datasets[i] IN
      /\ from_owned(d) <=> Len(d.worker_indexes) <= U32Max
      /\ from_owned(d) => expected[i] = [k \in 1..Len(d.first_blocks) |-> PortalChunk(d, k - 1)]

\* ids the binary search over datasets can find, and chunks that do not overlap
IdsAscend == \A i \in 1..Len(blob[1].datasets) - 1 : blob[1].datasets[i].id < blob[1].datasets[i + 1].id
ChunksAscend(d) == \A k \in 1..Len(d) - 1 : d[k].last < d[k + 1].first

\* Which answer a portal should get for a block, from the staged chunks.
Answer(d, block) ==
  IF \E k \in DOMAIN d : d[k].first <= block /\ block <= d[k].last
  THEN <<"Ok", (CHOOSE k \in DOMAIN d : d[k].first <= block /\ block <= d[k].last) - 1>>
  ELSE IF block < d[1].first THEN <<"BeforeFirst">>
  ELSE IF block > d[Len(d)].last THEN <<"AfterLast">> ELSE <<"InGap">>

FindChunkExact ==
  blob # <<>> /\ IdsAscend =>
    \A id \in DatasetIds, block \in Blocks :
      IF \E i \in DOMAIN blob[1].datasets : blob[1].datasets[i].id = id
      THEN LET i == CHOOSE i \in DOMAIN blob[1].datasets : blob[1].datasets[i].id = id
           IN from_owned(blob[1].datasets[i]) /\ ChunksAscend(expected[i]) =>
                find_chunk(id, block) = Answer(expected[i], block)
      ELSE find_chunk(id, block) = <<"UnknownDataset">>

ByTimestampExact ==
  blob # <<>> /\ IdsAscend =>
    \A i \in DOMAIN blob[1].datasets, ts \in Timestamps :
      LET ups == expected[i]
          later == {k \in DOMAIN ups : ups[k].timestamp >= ts}
      IN /\ from_owned(blob[1].datasets[i])
         /\ \A k \in 1..Len(ups) - 1 : ups[k].timestamp <= ups[k + 1].timestamp
         => find_chunk_by_timestamp(blob[1].datasets[i].id, ts) =
             IF later = {} THEN <<"AfterLast">> ELSE <<"Ok", Min(later) - 1>>

\* find_chunk returns the chunk that holds the block, also next to gaps, and
\* tells a block in a gap from one before or after the dataset, as long as
\* datasets were opened in the order of their ids, chunks ascend, and the
\* dataset was accepted.
\* find_chunk_by_timestamp returns "the first chunk whose timestamp is at or
\* after `ts'" (reader.rs:782), when timestamps ascend: runs of equal
\* timestamps resolve to their first chunk.
FindsExact == FindChunkExact /\ ByTimestampExact
=============================================================================
