-------------------------- MODULE WorkerAssignment --------------------------
(***************************************************************************)
(* The worker-facing assignment: WorkerAssignmentBuilder with its dataset  *)
(* and chunk builders (crates/assignments/src/builder.rs), and what        *)
(* WorkerAssignment reads back (reader.rs).  One scheduler builds an       *)
(* assignment, by any sequence of calls the borrows of the builders allow. *)
(* An error that changes nothing is no step.  Tables are numbers, in the   *)
(* order of their names; a byte of a bitmap is the set of its bits.        *)
(***************************************************************************)
EXTENDS AssignmentColumns

CONSTANTS
  DatasetIds,
  DatasetUrls,       \* the storage roots of datasets
  BaseUrls,          \* the prefixes of generations
  Versions, WriteSchemaIds,
  Rosters,           \* the table lists passed to register_write_schema
  TableLists,        \* the table lists passed to tables_present
  WorkerLists,       \* the lists passed to worker_indexes
  PeerIds,           \* numbers, in the order of the peer ids
  Encryptable,       \* the peer ids headers can be encrypted for
  Statuses,          \* WorkerStatus
  ChunkInputs,       \* id (a DataChunk), block range and size of a chunk
  CheckContinuity,   \* check_continuity
  BITS,              \* bits of a byte
  U32Max,            \* u32::MAX
  MaxDatasets,       \* bounds the datasets of an assignment
  MaxChunks          \* bounds the chunks staged in an assignment

VARIABLES
  \* WorkerAssignmentBuilder
  last_block, all_datasets, write_schemas, current_generations, columns,
  worker_entries, staged_worker_indexes, staged_tables_present,
  dataset,  \* the open WorkerDatasetBuilder, <<>> if there is none
  chunk,    \* the open WorkerAssignmentChunkBuilder, <<>> if there is none
  blob,     \* what `finish' returned, <<>> before
  \* what the caller knows: the generations and the chunks accepted in the
  \* open dataset, and those of the emitted ones
  registered, rows, expected

\* what callers can pass: unsigned numbers, and ids that are DataChunks
IsChunkInput(in) ==
  /\ in.id \in DataChunks
  /\ in.first \in Nat /\ in.last \in Nat /\ in.size \in Nat
WorkerCalls ==
  /\ U32Max \in Nat /\ BITS \in Nat \ {0}
  /\ PeerIds \subseteq Int /\ Versions \subseteq Nat /\ WriteSchemaIds \subseteq Nat
  /\ \A tables \in Rosters \cup TableLists : tables \in Seq(Int)
  /\ \A indexes \in WorkerLists : indexes \in Seq(Nat)
  /\ \A in \in ChunkInputs : IsChunkInput(in)

builder == <<last_block, all_datasets, write_schemas, current_generations, columns, worker_entries>>
staging == <<staged_worker_indexes, staged_tables_present>>
caller == <<registered, rows, expected>>
vars == <<builder, staging, dataset, chunk, blob, caller>>

NoFunction == [x \in {} |-> x]

NoColumns == [
  first_blocks |-> <<>>, block_deltas |-> <<>>, hashes |-> <<>>, tops |-> <<>>, sizes |-> <<>>,
  write_schema_ids |-> <<>>, versions |-> <<>>, tables_present |-> <<>>,
  tables_present_ends |-> <<>>, any_tables_trimmed |-> FALSE, worker_ends |-> <<>>,
  worker_indexes |-> <<>>]

Init ==
  /\ last_block = None /\ all_datasets = <<>>
  /\ write_schemas = NoFunction /\ current_generations = NoFunction
  /\ columns = NoColumns /\ worker_entries = <<>>
  /\ staged_worker_indexes = <<>> /\ staged_tables_present = <<>>
  /\ dataset = <<>> /\ chunk = <<>> /\ blob = <<>>
  /\ registered = NoFunction /\ rows = <<>> /\ expected = <<>>

\* strictly, which rules out duplicates
StrictlySorted(tables) == \A i \in 1..Len(tables) - 1 : tables[i] < tables[i + 1]

Put(f, x, y) == [z \in DOMAIN f \cup {x} |-> IF z = x THEN y ELSE f[z]]

-----------------------------------------------------------------------------
(***************************************************************************)
(* The assignment and its datasets                                         *)
(***************************************************************************)

register_write_schema(id, tables) ==
  /\ dataset = <<>> /\ blob = <<>>
  /\ StrictlySorted(tables)
  /\ id \notin DOMAIN write_schemas
  /\ write_schemas' = Put(write_schemas, id, tables)
  /\ UNCHANGED <<last_block, all_datasets, current_generations, columns, worker_entries, staging,
                 dataset, chunk, blob, caller>>

new_dataset(id, base_url) ==
  /\ dataset = <<>> /\ blob = <<>> /\ Len(all_datasets) < MaxDatasets
  /\ dataset' = <<[id |-> id, base_url |-> base_url]>>
  /\ registered' = NoFunction /\ rows' = <<>>
  /\ UNCHANGED <<builder, staging, chunk, blob, expected>>

register_generation(version, base_url) ==
  /\ dataset # <<>> /\ chunk = <<>>
  /\ version # 0
  /\ version \notin DOMAIN current_generations
  /\ current_generations' = Put(current_generations, version, base_url)
  /\ registered' = Put(registered, version, base_url)
  /\ UNCHANGED <<last_block, all_datasets, write_schemas, columns, worker_entries, staging, dataset,
                 chunk, blob, rows, expected>>

\* mutant: the generations of the dataset stay
DiscardKeepsGenerations ==
  /\ columns' = NoColumns
  /\ last_block' = None
  /\ UNCHANGED current_generations

discard_dataset ==
  /\ columns' = NoColumns
  /\ last_block' = None
  /\ current_generations' = NoFunction

\* the dataset as it is written: what a reader gets
Emitted(d) == [
  id |-> d.id, base_url |-> d.base_url, last_block |-> last_block,
  generations |-> current_generations,
  first_blocks |-> columns.first_blocks, block_deltas |-> columns.block_deltas,
  hashes |-> columns.hashes, tops |-> columns.tops, sizes |-> columns.sizes,
  write_schema_ids |-> columns.write_schema_ids,
  tables_present_offsets |->
    IF columns.any_tables_trimmed THEN Offsets(columns.tables_present_ends) ELSE <<>>,
  tables_present |-> IF columns.any_tables_trimmed THEN columns.tables_present ELSE <<>>,
  versions |-> EmitVersions(columns.versions),
  worker_offsets |-> Offsets(columns.worker_ends), worker_indexes |-> columns.worker_indexes]

CanEmit == columns.first_blocks # <<>> /\ check_top_runs(columns.tops)

\* `last_block.take().expect(..)': without a last block it panics, and nothing
\* follows; a chunk that is staged has set it
emit_dataset(d) ==
  /\ CanEmit
  /\ last_block # None
  /\ all_datasets' = Append(all_datasets, Emitted(d))
  /\ expected' = Append(expected, [base_url |-> d.base_url, generations |-> registered, rows |-> rows])
  /\ columns' = NoColumns /\ last_block' = None /\ current_generations' = NoFunction

FinishDataset ==
  /\ dataset # <<>> /\ chunk = <<>>
  /\ dataset' = <<>>
  /\ \/ emit_dataset(dataset[1])
     \/ ~CanEmit /\ discard_dataset /\ UNCHANGED <<all_datasets, expected>>
  /\ UNCHANGED <<write_schemas, worker_entries, staging, chunk, blob, registered, rows>>

DropDataset ==
  /\ dataset # <<>> /\ chunk = <<>>
  /\ dataset' = <<>>
  /\ discard_dataset
  /\ UNCHANGED <<all_datasets, write_schemas, worker_entries, staging, chunk, blob, caller>>

\* `headers' is an Option; what they are encrypted for stands for them
PushWorker(id, status, headers) ==
  /\ dataset = <<>> /\ blob = <<>>
  /\ CanAddWorker(worker_entries, id)
  /\ worker_entries' = Append(worker_entries, [id |-> id, status |-> status, headers |-> headers])
  /\ UNCHANGED <<last_block, all_datasets, write_schemas, current_generations, columns, staging,
                 dataset, chunk, blob, caller>>

\* fails for a peer id whose key is not ed25519
generate_encrypted_headers(id) == IF id \in Encryptable THEN <<id>> ELSE <<>>

\* a worker whose headers cannot be encrypted is added without
add_worker_with_timestamp(id, status) == PushWorker(id, status, generate_encrypted_headers(id))

add_worker_with_sealed_headers(id, status, headers) == PushWorker(id, status, <<headers>>)

\* rosters reach the blob as registered, whatever became of the datasets
Finish ==
  /\ dataset = <<>> /\ blob = <<>>
  /\ blob' = <<[datasets |-> all_datasets, workers |-> worker_entries, schemas |-> write_schemas]>>
  /\ UNCHANGED <<builder, staging, dataset, chunk, caller>>

-----------------------------------------------------------------------------
(***************************************************************************)
(* Chunks.  A call that fails consumes the chunk builder, and what it      *)
(* staged stays in the assignment builder.                                 *)
(***************************************************************************)

Staged == Len(columns.first_blocks) + MapThenSumSet(LAMBDA i : Len(expected[i].rows), DOMAIN expected)

\* mutant: the bitmap staged by an earlier chunk stays
NewChunkKeepsBitmap ==
  /\ dataset # <<>> /\ chunk = <<>>
  /\ Staged < MaxChunks
  /\ staged_worker_indexes' = <<>>
  /\ chunk' = <<[write_schema_id |-> None, version |-> 0, tables_present |-> None,
                 tables |-> <<>>, workers |-> <<>>]>>
  /\ UNCHANGED <<builder, staged_tables_present, dataset, blob, caller>>

\* `tables' and `workers' are what the caller passed, <<>> for no call of
\* tables_present
new_chunk ==
  /\ dataset # <<>> /\ chunk = <<>>
  /\ Staged < MaxChunks
  /\ staged_worker_indexes' = <<>>
  /\ staged_tables_present' = <<>>
  /\ chunk' = <<[write_schema_id |-> None, version |-> 0, tables_present |-> None,
                 tables |-> <<>>, workers |-> <<>>]>>
  /\ UNCHANGED <<builder, dataset, blob, caller>>

write_schema_id(id) ==
  /\ chunk # <<>>
  /\ chunk' = <<[chunk[1] EXCEPT !.write_schema_id = id]>>
  /\ UNCHANGED <<builder, staging, dataset, blob, caller>>

version(v) ==
  /\ chunk # <<>>
  /\ chunk' = <<[chunk[1] EXCEPT !.version = v]>>
  /\ UNCHANGED <<builder, staging, dataset, blob, caller>>

worker_indexes(indexes) ==
  /\ chunk # <<>>
  /\ staged_worker_indexes' = indexes
  /\ chunk' = <<[chunk[1] EXCEPT !.workers = indexes]>>
  /\ UNCHANGED <<builder, staged_tables_present, dataset, blob, caller>>

\* where the roster cursor is after the first k tables, None once one of them
\* was not at it
Cursor(roster, tables) ==
  LET cursor[k \in 0..Len(tables)] ==
        IF k = 0 THEN 0
        ELSE LET from == cursor[k - 1]
                 at == Min({i \in from..Len(roster) : i = Len(roster) \/ roster[i + 1] >= tables[k]})
             IN IF from # None /\ at < Len(roster) /\ roster[at + 1] = tables[k]
                THEN at + 1 ELSE None
  IN cursor

\* one byte for every BITS tables of the roster
Bitmap(roster, present) ==
  [b \in 1..(Len(roster) + BITS - 1) \div BITS |->
     {bit \in 0..BITS - 1 : (b - 1) * BITS + bit \in present}]

tables_present(tables) ==
  /\ chunk # <<>>
  /\ LET id == chunk[1].write_schema_id IN
     IF id \notin DOMAIN write_schemas
     THEN chunk' = <<>> /\ UNCHANGED staged_tables_present
     ELSE LET roster == write_schemas[id]
              cursor == Cursor(roster, tables)
          IN /\ staged_tables_present' =
                  Bitmap(roster, {cursor[k] - 1 : k \in {l \in 1..Len(tables) : cursor[l] # None}})
             /\ chunk' = IF cursor[Len(tables)] = None THEN <<>>
                         ELSE <<[chunk[1] EXCEPT !.tables_present = id, !.tables = <<Range(tables)>>]>>
  /\ UNCHANGED <<builder, staged_worker_indexes, dataset, blob, caller>>

DropChunk ==
  /\ chunk # <<>>
  /\ chunk' = <<>>
  /\ UNCHANGED <<builder, staging, dataset, blob, caller>>

\* `as u32'
push_bitmap(cols, bits) ==
  [cols EXCEPT !.tables_present = @ \o bits,
               !.tables_present_ends = Append(@, Len(cols.tables_present \o bits) % (U32Max + 1))]

\* the columns with one more row; the end of the worker slice is pushed last,
\* and only if it fits
PushRow(in, c) ==
  LET index == Len(columns.first_blocks)
      cols == push_bitmap(columns, staged_tables_present)
      refs == columns.worker_indexes \o staged_worker_indexes
  IN [cols EXCEPT
       !.tops = PushTop(@, index, in.id.top),
       !.first_blocks = Append(@, in.first),
       !.block_deltas = Append(@, in.last - in.first),
       !.hashes = Append(@, chunk_hash(in.id.hash)),
       !.sizes = Append(@, in.size),
       !.write_schema_ids = Append(@, c.write_schema_id),
       !.versions = Append(@, c.version),
       !.any_tables_trimmed = @ \/ staged_tables_present # <<>>,
       !.worker_indexes = refs,
       !.worker_ends = IF Len(refs) <= U32Max THEN Append(@, Len(refs)) ELSE @]

\* what the caller expects to read back
Row(in, c) ==
  [top |-> in.id.top, first |-> in.first, last |-> in.last, hash |-> in.id.hash,
   size |-> in.size, write_schema_id |-> c.write_schema_id, version |-> c.version,
   tables |-> IF c.tables = <<>> THEN Range(write_schemas[c.write_schema_id]) ELSE c.tables[1],
   workers |-> c.workers]

\* mutant: a refused chunk moves last_block
PushMovesLastBlock(in, c) ==
  IF BreaksContinuity(last_block, in.first) /\ CheckContinuity
  THEN last_block' = in.last /\ UNCHANGED <<columns, rows>>
  ELSE columns' = PushRow(in, c) /\ last_block' = in.last /\ rows' = Append(rows, Row(in, c))

\* With check_continuity off, a gap still appends and only reports.  Without
\* room for the worker references the row is appended but for its end, and
\* last_block is not set.
push_chunk(in, c) ==
  IF \/ BreaksContinuity(last_block, in.first) /\ CheckContinuity
     \/ Len(columns.first_blocks) > U32Max
     \/ in.last - in.first > U32Max
  THEN UNCHANGED <<columns, last_block, rows>>
  ELSE /\ columns' = PushRow(in, c)
       /\ IF Len(columns.worker_indexes \o staged_worker_indexes) <= U32Max
          THEN last_block' = in.last /\ rows' = Append(rows, Row(in, c))
          ELSE UNCHANGED <<last_block, rows>>

\* the checks of `finish' on a chunk; a missing id is refused like a wrong one
Accepts(in, c) ==
  /\ in.id.first = in.first /\ in.id.last = in.last
  /\ c.write_schema_id \in DOMAIN write_schemas
  /\ c.version = 0 \/ c.version \in DOMAIN current_generations
  /\ c.tables_present # None => c.tables_present = c.write_schema_id

FinishChunk(in) ==
  /\ chunk # <<>>
  /\ chunk' = <<>>
  /\ IF Accepts(in, chunk[1]) THEN push_chunk(in, chunk[1])
                              ELSE UNCHANGED <<columns, last_block, rows>>
  /\ UNCHANGED <<all_datasets, write_schemas, current_generations, worker_entries, staging, dataset,
                 blob, registered, expected>>

\* whether `finish' reports an error, which with check_continuity off does not
\* mean that the chunk was not added
FinishChunkFails(in) ==
  \/ ~Accepts(in, chunk[1])
  \/ BreaksContinuity(last_block, in.first)
  \/ Len(columns.first_blocks) > U32Max
  \/ in.last - in.first > U32Max
  \/ Len(columns.worker_indexes \o staged_worker_indexes) > U32Max

Next ==
  \/ \E id \in WriteSchemaIds, tables \in Rosters : register_write_schema(id, tables)
  \/ \E id \in DatasetIds, base_url \in DatasetUrls : new_dataset(id, base_url)
  \/ \E v \in Versions, base_url \in BaseUrls : register_generation(v, base_url)
  \/ \E id \in PeerIds, status \in Statuses :
       \/ add_worker_with_timestamp(id, status)
       \/ add_worker_with_sealed_headers(id, status, id)
  \/ FinishDataset
  \/ DropDataset
  \/ Finish
  \/ new_chunk
  \/ \E id \in WriteSchemaIds : write_schema_id(id)
  \/ \E v \in Versions : version(v)
  \/ \E indexes \in WorkerLists : worker_indexes(indexes)
  \/ \E tables \in TableLists : tables_present(tables)
  \/ DropChunk
  \/ \E in \in ChunkInputs : FinishChunk(in)

Spec == Init /\ [][Next]_vars

-----------------------------------------------------------------------------
(***************************************************************************)
(* The reader                                                              *)
(***************************************************************************)

from_owned(d) ==
  LET chunks == Len(d.first_blocks) IN
  check_columns(chunks,
    {Len(d.block_deltas), Len(d.hashes), Len(d.sizes), Len(d.write_schema_ids),
     Len(d.worker_offsets) - 1, IF d.versions = <<>> THEN chunks ELSE Len(d.versions),
     Entries(d.tables_present_offsets, chunks)},
    d.tops)

\* the bitmap of the chunk, <<>> if there is none
ChunkBits(d, index) ==
  LET offsets == d.tables_present_offsets IN
  IF offsets # <<>> /\ offsets[index + 2] <= Len(d.tables_present)
  THEN SubSeq(d.tables_present, offsets[index + 1] + 1, offsets[index + 2]) ELSE <<>>

chunk_tables(schemas, d, index) ==
  LET roster == schemas[d.write_schema_ids[index + 1]]
      bits == ChunkBits(d, index)
      Present(i) == \/ bits = <<>>
                    \/ i \div BITS < Len(bits) /\ i % BITS \in bits[i \div BITS + 1]
  IN {roster[i + 1] : i \in {j \in 0..Len(roster) - 1 : Present(j)}}

WorkerChunk(schemas, d, index) ==
  [top |-> top_at(d.tops, index),
   first |-> d.first_blocks[index + 1],
   last |-> d.first_blocks[index + 1] + d.block_deltas[index + 1],
   hash |-> hash(d.hashes[index + 1]),
   size |-> d.sizes[index + 1],
   write_schema_id |-> d.write_schema_ids[index + 1],
   version |-> VersionAt(d.versions, index),
   tables |-> chunk_tables(schemas, d, index),
   workers |-> Slice(d.worker_offsets, d.worker_indexes, index)]

\* the segments of the chunk's url before its id, <<>> if its generation is unknown
url(d, index) ==
  LET v == VersionAt(d.versions, index) IN
  IF v = 0 THEN <<d.base_url>>
  ELSE IF v \in DOMAIN d.generations THEN <<d.base_url, d.generations[v]>> ELSE <<>>

\* mutant: the slot at the end of the slice is taken too
HoldingsInclusive(d, worker) ==
  {index \in 0..Len(d.first_blocks) - 1 :
     \E slot \in d.worker_offsets[index + 1]..d.worker_offsets[index + 2] :
        slot < Len(d.worker_indexes) /\ d.worker_indexes[slot + 1] = worker}

\* the chunks of a worker, by one scan over the slots
holdings(d, worker) ==
  {index \in 0..Len(d.first_blocks) - 1 :
     \E slot \in d.worker_offsets[index + 1]..Min({d.worker_offsets[index + 2], Len(d.worker_indexes)}) - 1 :
        d.worker_indexes[slot + 1] = worker}

get_chunk(assignment, ref) ==
  IF ref.dataset_index >= Len(assignment.datasets) THEN <<>>
  ELSE LET d == assignment.datasets[ref.dataset_index + 1]
       IN IF ref.chunk_index >= Len(d.first_blocks) THEN <<>>
          ELSE <<WorkerChunk(assignment.schemas, d, ref.chunk_index)>>

\* the dataset is resolved from the ref
chunk_url(assignment, ref) ==
  IF get_chunk(assignment, ref) = <<>> THEN <<>>
  ELSE url(assignment.datasets[ref.dataset_index + 1], ref.chunk_index)

iter_chunks_with_ref(assignment, worker) ==
  UNION {{[dataset_index |-> i - 1, chunk_index |-> index] : index \in holdings(assignment.datasets[i], worker)} :
         i \in DOMAIN assignment.datasets}

\* a worker's own entry, and its position, which chunks name it by
get_worker(workers, id) ==
  LET index == lookup_index_by_key([i \in DOMAIN workers |-> workers[i].id], id)
  IN IF index = None THEN <<>> ELSE <<[entry |-> workers[index + 1], index |-> index]>>

-----------------------------------------------------------------------------
(***************************************************************************)
(* Properties                                                              *)
(***************************************************************************)

Blob == blob[1]

\* A worker reads back exactly the chunks whose `finish' reported success (or,
\* unchecked, a gap), in order, with the ids, sizes, versions, tables and
\* workers the scheduler gave them, although tops, versions, tables and workers
\* are stored compressed and staged in buffers shared by all chunks.  A dataset
\* with more worker references than a u32 counts, which its builder reported
\* and emitted nevertheless, is refused; every other one is accepted.  The
\* length of the bitmaps is not checked but cut (`as u32'): they are read back
\* while a u32 counts their bytes.
RoundTrip ==
  blob # <<>> =>
    \A i \in DOMAIN Blob.datasets :
      LET d == Blob.datasets[i] IN
      /\ from_owned(d) <=> Len(d.worker_indexes) <= U32Max
      /\ from_owned(d) /\ Len(d.tables_present) <= U32Max =>
           expected[i].rows = [k \in 1..Len(d.first_blocks) |-> WorkerChunk(Blob.schemas, d, k - 1)]

\* A chunk's url is under the root of its dataset and, for a version other
\* than 0, under the prefix registered for it in this dataset, never one of a
\* dataset opened earlier and abandoned, rejected or emitted.
GenerationsScoped ==
  blob # <<>> =>
    \A i \in DOMAIN Blob.datasets :
      LET d == Blob.datasets[i] IN
      /\ d.generations = expected[i].generations
      /\ from_owned(d) =>
           \A k \in 1..Len(expected[i].rows) :
             LET v == expected[i].rows[k].version IN
             url(d, k - 1) =
               <<expected[i].base_url>> \o IF v = 0 THEN <<>> ELSE <<expected[i].generations[v]>>

\* A worker that was added finds its entry by its peer id, and iter_chunks
\* yields the chunks that name the entry's position, and no others; a worker
\* that was not added finds nothing.
HoldingsExact ==
  blob # <<>> =>
    \A id \in PeerIds :
      LET w == get_worker(Blob.workers, id) IN
      /\ (w = <<>>) = (\A i \in DOMAIN worker_entries : worker_entries[i].id # id)
      /\ w # <<>> =>
           /\ w[1].entry.id = id
           /\ \A i \in DOMAIN Blob.datasets : from_owned(Blob.datasets[i]) =>
                holdings(Blob.datasets[i], w[1].index) =
                  {k \in 0..Len(expected[i].rows) - 1 :
                     w[1].index \in Range(expected[i].rows[k + 1].workers)}

\* With check_continuity the chunks of a dataset follow each other without gap
\* or overlap, however many were refused in between.
Contiguous ==
  CheckContinuity =>
    \A i \in DOMAIN expected : \A k \in 1..Len(expected[i].rows) - 1 :
      expected[i].rows[k].last + 1 = expected[i].rows[k + 1].first
=============================================================================
