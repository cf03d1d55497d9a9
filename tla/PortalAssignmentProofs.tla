------------------------ MODULE PortalAssignmentProofs ----------------------
(***************************************************************************)
(* Proofs about PortalAssignment, for any calls of the builder, any number *)
(* of datasets, chunks and workers, and any limit of the offsets: a portal *)
(* reads back exactly the chunks its builder took, and finds the chunk of  *)
(* every block and every timestamp.                                        *)
(***************************************************************************)
EXTENDS PortalAssignment, ColumnLemmas

-----------------------------------------------------------------------------
(***************************************************************************)
(* The columns of an open dataset                                          *)
(***************************************************************************)

\* what a caller stages in a row: its blocks are in order
RowType == {
  row \in [top : Nat, first : Nat, last : Nat, hash : Hashes, version : Nat, timestamp : Nat,
           workers : Seq(Nat)] : row.first <= row.last}

ColumnsType == [
  first_blocks : Seq(Nat), block_deltas : Seq(Int), hashes : Seq(Padded), tops : Seq(TopRun),
  timestamps : Seq(Nat), versions : Seq(Nat), worker_ends : Seq(Nat), worker_indexes : Seq(Nat)]

\* row k of the columns that are not compressed
RowAt(c, k, row) ==
  /\ c.first_blocks[k] = row.first /\ c.block_deltas[k] = row.last - row.first
  /\ c.hashes[k] = chunk_hash(row.hash)
  /\ c.versions[k] = row.version /\ c.timestamps[k] = row.timestamp

Long(c, n) ==
  /\ Len(c.first_blocks) = n /\ Len(c.block_deltas) = n /\ Len(c.hashes) = n
  /\ Len(c.versions) = n /\ Len(c.timestamps) = n

\* the columns of the rows r
ColumnsOf(c, r) ==
  /\ Long(c, Len(r)) /\ Len(c.worker_ends) = Len(r)
  /\ \A k \in 1..Len(r) : RowAt(c, k, r[k])
  /\ TopsOf(c.tops, r)
  /\ SlicesOf(c.worker_ends, c.worker_indexes, Len(c.worker_indexes), WorkersOf(r), Len(r))

\* The columns are those of the rows, as long as the worker references fit.
Staged(c, r, last) ==
  /\ c \in ColumnsType /\ r \in Seq(RowType) /\ last \in Int
  /\ Len(c.worker_indexes) <= U32Max => ColumnsOf(c, r) /\ last = LastOf(r)
  /\ ~(Len(c.worker_indexes) <= U32Max) => Len(c.worker_ends) < Len(c.first_blocks)

\* The empty columns are those of no rows.
LEMMA NothingStaged ==
  ASSUME PortalCalls
  PROVE  Staged(NoColumns, <<>>, None)
<1>1. NoColumns \in ColumnsType
  BY DEF NoColumns, ColumnsType
<1>2. <<>> \in Seq(RowType) /\ None \in Int /\ Len(<<>>) = 0
  BY DEF None
<1>3. /\ Long(NoColumns, 0) /\ Len(NoColumns.worker_ends) = 0
      /\ NoColumns.worker_indexes = <<>> /\ NoColumns.tops = <<>>
  BY DEF NoColumns, Long
<1>4. TopsOf(<<>>, <<>>)
  BY DEF TopsOf, RunsOf
<1>5. SlicesOf(NoColumns.worker_ends, <<>>, 0, WorkersOf(<<>>), 0)
  BY DEF SlicesOf, Start
<1>6. ColumnsOf(NoColumns, <<>>)
  <2>1. \A k \in 1..0 : RowAt(NoColumns, k, <<>>[k])
    OBVIOUS
  <2>. QED  BY <1>2, <1>3, <1>4, <1>5, <2>1, Zenon DEF ColumnsOf
<1>7. 0 <= U32Max
  BY DEF PortalCalls
<1>. QED  BY <1>1, <1>2, <1>3, <1>6, <1>7, Zenon DEF Staged, LastOf

\* The fields of the columns with one more row.
LEMMA PushedFields ==
  ASSUME columns \in ColumnsType, NEW in, NEW c, c = PushRow(in),
         NEW refs, refs = columns.worker_indexes \o staged_worker_indexes
  PROVE  /\ c.tops = PushTop(columns.tops, Len(columns.first_blocks), in.id.top)
         /\ c.first_blocks = Append(columns.first_blocks, in.first)
         /\ c.block_deltas = Append(columns.block_deltas, in.last - in.first)
         /\ c.hashes = Append(columns.hashes, chunk_hash(in.id.hash))
         /\ c.versions = Append(columns.versions, in.version)
         /\ c.timestamps = Append(columns.timestamps, in.timestamp)
         /\ c.worker_indexes = refs
         /\ c.worker_ends = IF Len(refs) <= U32Max THEN Append(columns.worker_ends, Len(refs))
                            ELSE columns.worker_ends
         /\ c = [first_blocks |-> c.first_blocks, block_deltas |-> c.block_deltas,
                 hashes |-> c.hashes, tops |-> c.tops, timestamps |-> c.timestamps,
                 versions |-> c.versions, worker_ends |-> c.worker_ends,
                 worker_indexes |-> c.worker_indexes]
BY Zenon DEF ColumnsType, PushRow

\* What a caller passes for a chunk fits its columns.
LEMMA InputTypes ==
  ASSUME NEW in, IsChunkInput(in)
  PROVE  /\ in.first \in Nat /\ in.last \in Nat /\ in.last - in.first \in Int
         /\ in.version \in Nat /\ in.timestamp \in Nat
         /\ in.id.top \in Nat /\ in.id.hash \in Hashes /\ chunk_hash(in.id.hash) \in Padded
<1>1. /\ in.first \in Nat /\ in.last \in Nat /\ in.last - in.first \in Int
      /\ in.version \in Nat /\ in.timestamp \in Nat
      /\ in.id.top \in Nat /\ in.id.hash \in Hashes
  BY DEF IsChunkInput, DataChunks
<1>. QED  BY <1>1, HashPadded, Zenon

\* The columns with one more row are columns.
LEMMA PushedType ==
  ASSUME columns \in ColumnsType, staged_worker_indexes \in Seq(Nat), NEW in, IsChunkInput(in)
  PROVE  PushRow(in) \in ColumnsType
<1>1. PICK c : c = PushRow(in)
  BY Zenon
<1>2. PICK refs : refs = columns.worker_indexes \o staged_worker_indexes
  BY Zenon
<1>3. /\ columns.first_blocks \in Seq(Nat) /\ columns.block_deltas \in Seq(Int)
      /\ columns.hashes \in Seq(Padded) /\ columns.tops \in Seq(TopRun)
      /\ columns.timestamps \in Seq(Nat) /\ columns.versions \in Seq(Nat)
      /\ columns.worker_ends \in Seq(Nat) /\ columns.worker_indexes \in Seq(Nat)
  BY DEF ColumnsType
<1>6. refs \in Seq(Nat) /\ Len(refs) \in Nat
  BY <1>2, <1>3, ConcatFacts
<1>7. PushTop(columns.tops, Len(columns.first_blocks), in.id.top) \in Seq(TopRun)
  BY <1>3, InputTypes, LenFacts, PushTopType, Zenon
<1>8. /\ Append(columns.first_blocks, in.first) \in Seq(Nat)
      /\ Append(columns.block_deltas, in.last - in.first) \in Seq(Int)
      /\ Append(columns.hashes, chunk_hash(in.id.hash)) \in Seq(Padded)
      /\ Append(columns.versions, in.version) \in Seq(Nat)
      /\ Append(columns.timestamps, in.timestamp) \in Seq(Nat)
      /\ Append(columns.worker_ends, Len(refs)) \in Seq(Nat)
  BY <1>3, <1>6, InputTypes, AppendLonger, Zenon
<1>9. c \in ColumnsType
  <2>1. /\ c.first_blocks \in Seq(Nat) /\ c.block_deltas \in Seq(Int) /\ c.hashes \in Seq(Padded)
        /\ c.tops \in Seq(TopRun) /\ c.timestamps \in Seq(Nat) /\ c.versions \in Seq(Nat)
        /\ c.worker_ends \in Seq(Nat) /\ c.worker_indexes \in Seq(Nat)
    <3>1. /\ c.tops = PushTop(columns.tops, Len(columns.first_blocks), in.id.top)
          /\ c.first_blocks = Append(columns.first_blocks, in.first)
          /\ c.block_deltas = Append(columns.block_deltas, in.last - in.first)
          /\ c.hashes = Append(columns.hashes, chunk_hash(in.id.hash))
          /\ c.versions = Append(columns.versions, in.version)
          /\ c.timestamps = Append(columns.timestamps, in.timestamp)
          /\ c.worker_indexes = refs
      BY <1>1, <1>2, PushedFields, Zenon
    <3>2. c.worker_ends \in {Append(columns.worker_ends, Len(refs)), columns.worker_ends}
      BY <1>1, <1>2, PushedFields, Zenon
    <3>3. c.worker_ends \in Seq(Nat)
      BY <1>3, <1>8, <3>2, Zenon
    <3>. QED  BY <1>6, <1>7, <1>8, <3>1, <3>3, Zenon
  <2>2. c = [first_blocks |-> c.first_blocks, block_deltas |-> c.block_deltas,
             hashes |-> c.hashes, tops |-> c.tops, timestamps |-> c.timestamps,
             versions |-> c.versions, worker_ends |-> c.worker_ends,
             worker_indexes |-> c.worker_indexes]
    BY <1>1, <1>2, PushedFields, Zenon
  <2>. QED  BY <2>1, <2>2, Zenon DEF ColumnsType
<1>. QED  BY <1>1, <1>9, Zenon

\* A row that is staged appears at the end of each plain column.
LEMMA PushedRows ==
  ASSUME columns \in ColumnsType, staged_worker_indexes \in Seq(Nat), NEW in, IsChunkInput(in),
         in.first <= in.last, NEW r \in Seq(RowType), NEW c, c = PushRow(in), Long(columns, Len(r)),
         \A k \in 1..Len(r) : RowAt(columns, k, r[k])
  PROVE  /\ Long(c, Len(r) + 1) /\ Row(in) \in RowType
         /\ \A k \in 1..Len(r) + 1 : RowAt(c, k, Append(r, Row(in))[k])
<1>1. PICK n \in Nat : n = Len(r)
  BY LenFacts, Zenon
<1>2. PICK row : row = Row(in)
  BY Zenon
<1>3. PICK r2 : r2 = Append(r, row)
  BY Zenon
<1>4. /\ row \in RowType /\ row.first = in.first /\ row.last = in.last /\ row.hash = in.id.hash
      /\ row.version = in.version /\ row.timestamp = in.timestamp
  BY <1>2 DEF Row, RowType, IsChunkInput, DataChunks
<1>5. r2[n + 1] = row /\ \A k \in 1..n : r2[k] = r[k]
  BY <1>1, <1>3, <1>4
<1>6. /\ c.first_blocks = Append(columns.first_blocks, in.first)
      /\ c.block_deltas = Append(columns.block_deltas, in.last - in.first)
      /\ c.hashes = Append(columns.hashes, chunk_hash(in.id.hash))
      /\ c.versions = Append(columns.versions, in.version)
      /\ c.timestamps = Append(columns.timestamps, in.timestamp)
  BY PushedFields, Zenon
<1>7. /\ columns.first_blocks \in Seq(Nat) /\ columns.block_deltas \in Seq(Int)
      /\ columns.hashes \in Seq(Padded)
      /\ columns.timestamps \in Seq(Nat) /\ columns.versions \in Seq(Nat)
  BY DEF ColumnsType
<1>8. Long(columns, n)
  BY <1>1, Zenon
<1>9. /\ Longer(c.first_blocks, columns.first_blocks, n, in.first)
      /\ Longer(c.block_deltas, columns.block_deltas, n, in.last - in.first)
      /\ Longer(c.hashes, columns.hashes, n, chunk_hash(in.id.hash))
      /\ Longer(c.versions, columns.versions, n, in.version)
      /\ Longer(c.timestamps, columns.timestamps, n, in.timestamp)
  <2>1. /\ Len(columns.first_blocks) = n /\ Len(columns.block_deltas) = n /\ Len(columns.hashes) = n
        /\ Len(columns.versions) = n /\ Len(columns.timestamps) = n
    BY <1>8, Zenon DEF Long
  <2>2. Longer(c.first_blocks, columns.first_blocks, n, in.first)
    BY <1>6, <1>7, <2>1, InputTypes, AppendLonger, Zenon
  <2>3. Longer(c.block_deltas, columns.block_deltas, n, in.last - in.first)
    BY <1>6, <1>7, <2>1, InputTypes, AppendLonger, Zenon
  <2>4. Longer(c.hashes, columns.hashes, n, chunk_hash(in.id.hash))
    BY <1>6, <1>7, <2>1, InputTypes, AppendLonger, Zenon
  <2>5. Longer(c.versions, columns.versions, n, in.version)
    BY <1>6, <1>7, <2>1, InputTypes, AppendLonger, Zenon
  <2>6. Longer(c.timestamps, columns.timestamps, n, in.timestamp)
    BY <1>6, <1>7, <2>1, InputTypes, AppendLonger, Zenon
  <2>. QED  BY <2>2, <2>3, <2>4, <2>5, <2>6, Zenon
<1>10. Long(c, n + 1)
  BY <1>9, Zenon DEF Long, Longer
<1>11. RowAt(c, n + 1, row)
  BY <1>4, <1>9, Zenon DEF RowAt, Longer
<1>12. ASSUME NEW k \in 1..n
       PROVE  RowAt(c, k, r[k])
  <2>1. RowAt(columns, k, r[k])
    BY <1>1, Zenon
  <2>2. /\ c.first_blocks[k] = columns.first_blocks[k] /\ c.block_deltas[k] = columns.block_deltas[k]
        /\ c.hashes[k] = columns.hashes[k]
        /\ c.versions[k] = columns.versions[k] /\ c.timestamps[k] = columns.timestamps[k]
    BY <1>9, Zenon DEF Longer
  <2>. QED  BY <2>1, <2>2, Zenon DEF RowAt
<1>13. \A k \in 1..n + 1 : k \in 1..n \/ k = n + 1
  OBVIOUS
<1>14. \A k \in 1..n + 1 : RowAt(c, k, r2[k])
  BY <1>5, <1>11, <1>12, <1>13, Zenon
<1>. QED  BY <1>1, <1>2, <1>3, <1>4, <1>10, <1>14, Zenon

-----------------------------------------------------------------------------
(***************************************************************************)
(* The invariant                                                           *)
(***************************************************************************)

\* Pushing a chunk keeps what is staged consistent: the row is staged with its
\* columns, or the worker references no longer fit and an end is missing.
LEMMA PushStaged ==
  ASSUME PortalCalls, staged_worker_indexes \in Seq(Nat), NEW in, IsChunkInput(in),
         in.first <= in.last, NEW r, NEW last, Staged(columns, r, last),
         NEW refs, refs = columns.worker_indexes \o staged_worker_indexes
  PROVE  /\ Len(refs) <= U32Max => Staged(PushRow(in), Append(r, Row(in)), in.last)
         /\ ~(Len(refs) <= U32Max) => Staged(PushRow(in), r, last)
<1>1. PICK c : c = PushRow(in)
  BY Zenon
<1>2. PICK row : row = Row(in)
  BY Zenon
<1>3. columns \in ColumnsType /\ r \in Seq(RowType) /\ last \in Int
  BY Zenon DEF Staged
<1>4. c \in ColumnsType
  BY <1>1, <1>3, PushedType, Zenon
<1>5. PICK n \in Nat : n = Len(r)
  BY <1>3, LenFacts, Zenon
<1>6. row \in RowType /\ row.top = in.id.top /\ row.last = in.last /\ row.workers = staged_worker_indexes
  BY <1>2, InputTypes DEF Row, RowType
<1>7. /\ columns.worker_indexes \in Seq(Nat) /\ columns.worker_ends \in Seq(Nat)
      /\ columns.first_blocks \in Seq(Nat) /\ columns.tops \in Seq(TopRun)
  BY <1>3 DEF ColumnsType
<1>8. /\ Len(columns.worker_indexes) \in Nat /\ Len(refs) \in Nat
      /\ Len(columns.worker_indexes) <= Len(refs)
  <2>1. Len(refs) = Len(columns.worker_indexes) + Len(staged_worker_indexes)
    BY <1>7, ConcatFacts, Zenon
  <2>2. Len(columns.worker_indexes) \in Nat /\ Len(staged_worker_indexes) \in Nat
    BY <1>7, LenFacts, Zenon
  <2>. QED  BY <2>1, <2>2
<1>9. U32Max \in Nat
  BY Zenon DEF PortalCalls
<1>10. c.worker_indexes = refs
  BY <1>1, <1>3, PushedFields, Zenon
<1>11. CASE Len(refs) <= U32Max
  <2>1. Len(columns.worker_indexes) <= U32Max
    BY <1>8, <1>9, <1>11
  <2>2. ColumnsOf(columns, r)
    BY <2>1, Zenon DEF Staged
  <2>3. PICK r2 : r2 = Append(r, row)
    BY Zenon
  <2>4. r2 \in Seq(RowType) /\ Len(r2) = n + 1 /\ r2[n + 1] = row /\ r2 # <<>>
    BY <1>3, <1>5, <1>6, <2>3, AppendFacts, Zenon
  <2>5. /\ Long(columns, n) /\ Len(columns.worker_ends) = n
        /\ \A k \in 1..n : RowAt(columns, k, r[k])
        /\ TopsOf(columns.tops, r)
        /\ SlicesOf(columns.worker_ends, columns.worker_indexes, Len(columns.worker_indexes),
                    WorkersOf(r), n)
    BY <1>5, <2>2, Zenon DEF ColumnsOf
  <2>6. Long(c, n + 1) /\ \A k \in 1..n + 1 : RowAt(c, k, r2[k])
    BY <1>1, <1>2, <1>3, <1>5, <2>3, <2>5, PushedRows, Zenon
  <2>7. c.worker_ends = Append(columns.worker_ends, Len(refs))
    BY <1>1, <1>3, <1>11, PushedFields, Zenon
  <2>8. Len(c.worker_ends) = n + 1
    <3>1. Longer(c.worker_ends, columns.worker_ends, Len(columns.worker_ends), Len(refs))
      BY <1>7, <1>8, <2>7, AppendLonger, Zenon
    <3>. QED  BY <2>5, <3>1, Zenon DEF Longer
  <2>9. TopsOf(c.tops, r2)
    <3>1. c.tops = PushTop(columns.tops, n, row.top)
      <4>1. c.tops = PushTop(columns.tops, Len(columns.first_blocks), in.id.top)
        BY <1>1, <1>3, PushedFields, Zenon
      <4>2. Len(columns.first_blocks) = n
        BY <2>5, Zenon DEF Long
      <4>. QED  BY <1>6, <4>1, <4>2, Zenon
    <3>2. row.top \in Nat
      BY <1>6, Zenon DEF RowType
    <3>. QED  BY <1>3, <1>5, <1>6, <1>7, <2>3, <2>5, <3>1, <3>2, PushTopOf, Zenon
  <2>10. SlicesOf(c.worker_ends, c.worker_indexes, Len(c.worker_indexes), WorkersOf(r2), n + 1)
    <3>1. \A x \in RowType : x.workers \in Seq(Nat)
      BY Zenon DEF RowType
    <3>. QED  BY <1>3, <1>5, <1>6, <1>7, <1>10, <2>3, <2>5, <2>7, <3>1, PushWorkers, Zenon
  <2>11. ColumnsOf(c, r2)
    BY <2>4, <2>6, <2>8, <2>9, <2>10, Zenon DEF ColumnsOf
  <2>12. LastOf(r2) = in.last
    BY <1>6, <2>4, Zenon DEF LastOf
  <2>13. in.last \in Int
    BY InputTypes
  <2>14. Staged(c, r2, in.last)
    BY <1>4, <1>10, <1>11, <2>4, <2>11, <2>12, <2>13, Zenon DEF Staged
  <2>. QED  BY <1>1, <1>2, <1>11, <2>3, <2>14, Zenon
<1>12. CASE ~(Len(refs) <= U32Max)
  <2>1. c.worker_ends = columns.worker_ends
    BY <1>1, <1>3, <1>12, PushedFields, Zenon
  <2>2. Len(c.first_blocks) = Len(columns.first_blocks) + 1
    <3>1. c.first_blocks = Append(columns.first_blocks, in.first) /\ in.first \in Nat
      BY <1>1, <1>3, PushedFields, InputTypes, Zenon
    <3>2. Longer(c.first_blocks, columns.first_blocks, Len(columns.first_blocks), in.first)
      BY <1>7, <3>1, AppendLonger, Zenon
    <3>. QED  BY <3>2, Zenon DEF Longer
  <2>3. Len(columns.worker_ends) <= Len(columns.first_blocks)
    <3>1. CASE Len(columns.worker_indexes) <= U32Max
      <4>1. Len(columns.worker_ends) = n /\ Len(columns.first_blocks) = n
        BY <1>5, <3>1, Zenon DEF Staged, ColumnsOf, Long
      <4>. QED  BY <4>1
    <3>2. CASE ~(Len(columns.worker_indexes) <= U32Max)
      <4>1. Len(columns.worker_ends) < Len(columns.first_blocks)
        BY <3>2, Zenon DEF Staged
      <4>2. Len(columns.worker_ends) \in Nat /\ Len(columns.first_blocks) \in Nat
        BY <1>7, LenFacts, Zenon
      <4>. QED  BY <4>1, <4>2
    <3>. QED  BY <3>1, <3>2, Zenon
  <2>4. Len(c.worker_ends) < Len(c.first_blocks)
    <3>1. Len(columns.worker_ends) \in Nat /\ Len(columns.first_blocks) \in Nat
      BY <1>7, LenFacts, Zenon
    <3>. QED  BY <2>1, <2>2, <2>3, <3>1
  <2>5. Staged(c, r, last)
    BY <1>3, <1>4, <1>10, <1>12, <2>4, Zenon DEF Staged
  <2>. QED  BY <1>1, <1>12, <2>5, Zenon
<1>. QED  BY <1>11, <1>12, Zenon

\* an emitted dataset is what a reader gets of the columns of its rows
DatasetType == [
  id : Int, read_schema_id : ReadSchemaIds, last_block_hash : LastBlockHashes, last_block : Int,
  first_blocks : Seq(Nat), block_deltas : Seq(Int), hashes : Seq(Padded), tops : Seq(TopRun),
  timestamps : Seq(Nat), versions : Seq(Nat), worker_offsets : Seq(Nat), worker_indexes : Seq(Nat)]

Written(d, c) ==
  /\ d.first_blocks = c.first_blocks /\ d.block_deltas = c.block_deltas
  /\ d.hashes = c.hashes /\ d.tops = c.tops /\ d.timestamps = c.timestamps
  /\ d.versions = EmitVersions(c.versions)
  /\ d.worker_offsets = Offsets(c.worker_ends) /\ d.worker_indexes = c.worker_indexes

EmittedOf(d, r) ==
  \E c : Written(d, c) /\ Staged(c, r, d.last_block) /\ c.first_blocks # <<>>

PortalInv ==
  /\ Staged(columns, IF dataset = <<>> THEN <<>> ELSE rows, last_block)
  /\ staged_worker_indexes \in Seq(Nat)
  /\ chunk => dataset # <<>>
  /\ dataset # <<>> => dataset[1] \in [id : Int, read_schema_id : ReadSchemaIds]
  /\ all_datasets \in Seq(DatasetType) /\ expected \in Seq(Seq(RowType))
  /\ Len(all_datasets) = Len(expected)
  /\ \A i \in 1..Len(all_datasets) : EmittedOf(all_datasets[i], expected[i])
  /\ blob # <<>> => dataset = <<>> /\ blob[1].datasets = all_datasets

-----------------------------------------------------------------------------
(***************************************************************************)
(* Every call keeps the invariant                                          *)
(***************************************************************************)

\* A new builder satisfies the invariant.
LEMMA InitPortalInv ==
  ASSUME PortalCalls, Init
  PROVE  PortalInv
<1>1. Staged(columns, <<>>, last_block)
  BY NothingStaged, Zenon DEF Init
<1>2. <<>> \in Seq(Nat) /\ <<>> \in Seq(DatasetType) /\ <<>> \in Seq(Seq(RowType)) /\ Len(<<>>) = 0
  BY EmptyFacts, Zenon
<1>3. \A i \in 1..0 : EmittedOf(all_datasets[i], expected[i])
  OBVIOUS
<1>. QED  BY <1>1, <1>2, <1>3, Zenon DEF Init, PortalInv

\* A dataset is emitted with the columns of the rows it was given.
LEMMA EmitPortalInv ==
  ASSUME PortalCalls, PortalInv, NEW last_block_hash \in LastBlockHashes, dataset # <<>>, ~chunk,
         dataset' = <<>>, emit_dataset(dataset[1], last_block_hash),
         UNCHANGED <<worker_entries, staged_worker_indexes, chunk, blob, rows>>
  PROVE  PortalInv'
<1>1. PICK d : d = Emitted(dataset[1], last_block_hash)
  BY Zenon
<1>2. Staged(columns, rows, last_block)
  BY Zenon DEF PortalInv
<1>3. /\ columns \in ColumnsType /\ last_block \in Int /\ rows \in Seq(RowType)
      /\ dataset[1] \in [id : Int, read_schema_id : ReadSchemaIds]
  BY <1>2, Zenon DEF PortalInv, Staged
<1>4. d \in DatasetType
  <2>1. /\ columns.first_blocks \in Seq(Nat) /\ columns.block_deltas \in Seq(Int)
        /\ columns.hashes \in Seq(Padded) /\ columns.tops \in Seq(TopRun)
        /\ columns.timestamps \in Seq(Nat) /\ columns.versions \in Seq(Nat)
        /\ columns.worker_ends \in Seq(Nat) /\ columns.worker_indexes \in Seq(Nat)
    BY <1>3 DEF ColumnsType
  <2>2. EmitVersions(columns.versions) \in Seq(Nat)
    BY <2>1, EmptyFacts, Zenon DEF EmitVersions
  <2>3. Offsets(columns.worker_ends) \in Seq(Nat)
    <3>1. <<0>> \in Seq(Nat)
      OBVIOUS
    <3>. QED  BY <2>1, <3>1, ConcatFacts, Zenon DEF Offsets
  <2>4. dataset[1].id \in Int /\ dataset[1].read_schema_id \in ReadSchemaIds
    BY <1>3
  <2>. QED  BY <1>1, <1>3, <2>1, <2>2, <2>3, <2>4, Zenon DEF Emitted, DatasetType
<1>5. Written(d, columns) /\ d.last_block = last_block
  BY <1>1, Zenon DEF Emitted, Written
<1>6. EmittedOf(d, rows)
  BY <1>2, <1>5, Zenon DEF EmittedOf, emit_dataset, CanEmit
<1>7. PICK n \in Nat : n = Len(all_datasets) /\ n = Len(expected)
  BY LenFacts, Zenon DEF PortalInv
<1>8. /\ all_datasets' \in Seq(DatasetType) /\ Longer(all_datasets', all_datasets, n, d)
      /\ expected' \in Seq(Seq(RowType)) /\ Longer(expected', expected, n, rows)
  <2>1. all_datasets' = Append(all_datasets, d) /\ expected' = Append(expected, rows)
    BY <1>1, Zenon DEF emit_dataset
  <2>2. all_datasets \in Seq(DatasetType) /\ expected \in Seq(Seq(RowType))
    BY Zenon DEF PortalInv
  <2>. QED  BY <1>3, <1>4, <1>7, <2>1, <2>2, AppendLonger, Zenon
<1>9. \A i \in 1..n + 1 : EmittedOf(all_datasets'[i], expected'[i])
  <2>1. \A i \in 1..n + 1 : i \in 1..n \/ i = n + 1
    OBVIOUS
  <2>2. \A i \in 1..n : EmittedOf(all_datasets[i], expected[i])
    BY <1>7, Zenon DEF PortalInv
  <2>. QED  BY <1>6, <1>8, <2>1, <2>2, Zenon DEF Longer
<1>10. Staged(columns', <<>>, last_block')
  BY NothingStaged, Zenon DEF emit_dataset
<1>11. \A i \in 1..Len(all_datasets') : EmittedOf(all_datasets'[i], expected'[i])
  BY <1>8, <1>9, Zenon DEF Longer
<1>12. Len(all_datasets') = Len(expected')
  BY <1>8, Zenon DEF Longer
<1>13. blob' = <<>>
  BY Zenon DEF PortalInv
<1>14. staged_worker_indexes' \in Seq(Nat) /\ ~chunk'
  BY Zenon DEF PortalInv
<1>. QED  BY <1>8, <1>10, <1>11, <1>12, <1>13, <1>14, Zenon DEF PortalInv

\* A dataset that is dropped or cannot be emitted leaves nothing behind.
LEMMA DiscardPortalInv ==
  ASSUME PortalCalls, PortalInv, dataset # <<>>, ~chunk, dataset' = <<>>, discard_dataset,
         UNCHANGED <<all_datasets, worker_entries, staged_worker_indexes, chunk, blob, rows, expected>>
  PROVE  PortalInv'
<1>1. Staged(columns', <<>>, last_block')
  BY NothingStaged, Zenon DEF discard_dataset
<1>2. blob' = <<>>
  BY Zenon DEF PortalInv
<1>3. /\ staged_worker_indexes' \in Seq(Nat) /\ ~chunk'
      /\ all_datasets' \in Seq(DatasetType) /\ expected' \in Seq(Seq(RowType))
      /\ Len(all_datasets') = Len(expected')
      /\ \A i \in 1..Len(all_datasets') : EmittedOf(all_datasets'[i], expected'[i])
  BY Zenon DEF PortalInv
<1>. QED  BY <1>1, <1>2, <1>3, Zenon DEF PortalInv

\* `finish' of a chunk, accepted or refused, keeps the invariant.
LEMMA FinishChunkPortalInv ==
  ASSUME PortalCalls, PortalInv, NEW in \in ChunkInputs, FinishChunk(in)
  PROVE  PortalInv'
<1>1. IsChunkInput(in)
  BY Zenon DEF PortalCalls
<1>2. dataset # <<>> /\ blob = <<>>
  BY Zenon DEF PortalInv, FinishChunk
<1>3. Staged(columns, rows, last_block) /\ staged_worker_indexes \in Seq(Nat)
  BY <1>2, Zenon DEF PortalInv
<1>4. PICK refs : refs = columns.worker_indexes \o staged_worker_indexes
  BY Zenon
<1>5. \/ UNCHANGED <<columns, last_block, rows>>
      \/ /\ columns' = PushRow(in) /\ Len(refs) <= U32Max /\ in.first <= in.last
         /\ last_block' = in.last /\ rows' = Append(rows, Row(in))
      \/ /\ columns' = PushRow(in) /\ ~(Len(refs) <= U32Max) /\ in.first <= in.last
         /\ last_block' = last_block /\ rows' = rows
  BY <1>1, <1>4, Zenon DEF FinishChunk, push_chunk, IsChunkInput, DataChunks
<1>6. Staged(columns', rows', last_block')
  <2>1. CASE UNCHANGED <<columns, last_block, rows>>
    BY <1>3, <2>1, Zenon
  <2>2. CASE /\ columns' = PushRow(in) /\ Len(refs) <= U32Max /\ in.first <= in.last
             /\ last_block' = in.last /\ rows' = Append(rows, Row(in))
    <3>1. Staged(PushRow(in), Append(rows, Row(in)), in.last)
      BY <1>1, <1>3, <1>4, <2>2, PushStaged, Zenon
    <3>. QED  BY <2>2, <3>1, Zenon
  <2>3. CASE /\ columns' = PushRow(in) /\ ~(Len(refs) <= U32Max) /\ in.first <= in.last
             /\ last_block' = last_block /\ rows' = rows
    <3>1. Staged(PushRow(in), rows, last_block)
      BY <1>1, <1>3, <1>4, <2>3, PushStaged, Zenon
    <3>. QED  BY <2>3, <3>1, Zenon
  <2>. QED  BY <1>5, <2>1, <2>2, <2>3, Zenon
<1>7. UNCHANGED <<all_datasets, worker_entries, staged_worker_indexes, dataset, blob, expected>> /\ ~chunk'
  BY Zenon DEF FinishChunk
<1>. QED  BY <1>2, <1>6, <1>7, Zenon DEF PortalInv

\* Every call keeps the invariant.
LEMMA NextPortalInv ==
  ASSUME PortalCalls, PortalInv, [Next]_vars
  PROVE  PortalInv'
<1>1. ASSUME NEW id \in DatasetIds, NEW read_schema_id \in ReadSchemaIds,
             new_dataset(id, read_schema_id)
      PROVE  PortalInv'
  <2>1. dataset = <<>> /\ blob = <<>> /\ ~chunk
    BY <1>1, Zenon DEF new_dataset, PortalInv
  <2>2. PICK e : e = [id |-> id, read_schema_id |-> read_schema_id]
    BY Zenon
  <2>3. id \in Int
    BY Zenon DEF PortalCalls
  <2>4. e \in [id : Int, read_schema_id : ReadSchemaIds]
    BY <2>2, <2>3
  <2>5. dataset' = <<e>> /\ <<e>> # <<>> /\ <<e>>[1] = e
    <3>1. <<e>> # <<>> /\ <<e>>[1] = e
      OBVIOUS
    <3>. QED  BY <1>1, <2>2, <3>1, Zenon DEF new_dataset
  <2>6. /\ rows' = <<>>
        /\ UNCHANGED <<last_block, all_datasets, columns, worker_entries, staged_worker_indexes, chunk,
                       blob, expected>>
    BY <1>1, Zenon DEF new_dataset
  <2>7. Staged(columns', rows', last_block')
    BY <2>1, <2>6, Zenon DEF PortalInv
  <2>. QED  BY <2>1, <2>4, <2>5, <2>6, <2>7, Zenon DEF PortalInv
<1>2. ASSUME NEW id \in PeerIds, NEW status \in Statuses, add_worker(id, status)
      PROVE  PortalInv'
  BY <1>2, Zenon DEF add_worker, PortalInv
<1>3. ASSUME NEW last_block_hash \in LastBlockHashes, FinishDataset(last_block_hash)
      PROVE  PortalInv'
  <2>1. CASE emit_dataset(dataset[1], last_block_hash)
    BY <1>3, <2>1, EmitPortalInv, Zenon DEF FinishDataset
  <2>2. CASE discard_dataset /\ UNCHANGED <<all_datasets, expected>>
    BY <1>3, <2>2, DiscardPortalInv, Zenon DEF FinishDataset
  <2>. QED  BY <1>3, <2>1, <2>2, Zenon DEF FinishDataset
<1>4. CASE DropDataset
  BY <1>4, DiscardPortalInv, Zenon DEF DropDataset
<1>5. CASE Finish
  <2>1. PICK e : e = [datasets |-> all_datasets, workers |-> worker_entries]
    BY Zenon
  <2>2. blob' = <<e>> /\ <<e>>[1] = e /\ e.datasets = all_datasets
    <3>1. <<e>>[1] = e /\ e.datasets = all_datasets
      BY <2>1
    <3>. QED  BY <1>5, <2>1, <3>1, Zenon DEF Finish
  <2>3. /\ dataset = <<>>
        /\ UNCHANGED <<last_block, all_datasets, columns, worker_entries, staged_worker_indexes,
                       dataset, chunk, rows, expected>>
    BY <1>5, Zenon DEF Finish
  <2>4. blob'[1].datasets = all_datasets'
    BY <2>2, <2>3, Zenon
  <2>. QED  BY <2>3, <2>4, Zenon DEF PortalInv
<1>6. CASE new_chunk
  <2>1. staged_worker_indexes' \in Seq(Nat)
    BY <1>6, EmptyFacts, Zenon DEF new_chunk
  <2>. QED  BY <1>6, <2>1, Zenon DEF new_chunk, PortalInv
<1>7. ASSUME NEW indexes \in WorkerLists, worker_indexes(indexes)
      PROVE  PortalInv'
  <2>1. staged_worker_indexes' \in Seq(Nat)
    BY <1>7, Zenon DEF worker_indexes, PortalCalls
  <2>. QED  BY <1>7, <2>1, Zenon DEF worker_indexes, PortalInv
<1>8. CASE DropChunk
  BY <1>8, Zenon DEF DropChunk, PortalInv
<1>9. ASSUME NEW in \in ChunkInputs, FinishChunk(in)
      PROVE  PortalInv'
  BY <1>9, FinishChunkPortalInv, Zenon
<1>10. CASE UNCHANGED vars
  BY <1>10, Zenon DEF vars, PortalInv
<1>. QED  BY <1>1, <1>2, <1>3, <1>4, <1>5, <1>6, <1>7, <1>8, <1>9, <1>10, Zenon DEF Next

-----------------------------------------------------------------------------
(***************************************************************************)
(* Reading back                                                            *)
(***************************************************************************)

\* A reader gets the rows of an emitted dataset.
ReadAs(d, r) ==
  /\ Len(r) > 0 /\ d.last_block = r[Len(r)].last
  /\ Len(d.first_blocks) = Len(r) /\ Len(d.timestamps) = Len(r)
  /\ \A k \in 1..Len(r) :
       /\ d.first_blocks[k] = r[k].first /\ d.timestamps[k] = r[k].timestamp
       /\ PortalChunk(d, k - 1) = r[k]

\* A row is read back from the columns it was written to.
LEMMA RowBack ==
  ASSUME NEW d, NEW c \in ColumnsType, NEW r \in Seq(RowType), Written(d, c), ColumnsOf(c, r),
         NEW k \in 1..Len(r)
  PROVE  PortalChunk(d, k - 1) = r[k]
<1>1. PICK n \in Nat : n = Len(r)
  BY LenFacts, Zenon
<1>2. PICK row : row = r[k]
  BY Zenon
<1>3. row \in RowType /\ k \in 1..n /\ (k - 1) + 1 = k
  BY <1>1, <1>2
<1>4. /\ row.first \in Nat /\ row.last \in Nat /\ row.hash \in Hashes /\ row.workers \in Seq(Nat)
      /\ row = [top |-> row.top, first |-> row.first, last |-> row.last, hash |-> row.hash,
                version |-> row.version, timestamp |-> row.timestamp, workers |-> row.workers]
  BY <1>3 DEF RowType
<1>5. /\ c.tops \in Seq(TopRun) /\ c.versions \in Seq(Nat) /\ c.worker_ends \in Seq(Nat)
      /\ c.worker_indexes \in Seq(Nat)
  BY DEF ColumnsType
<1>6. RowAt(c, k, row)
  BY <1>2, Zenon DEF ColumnsOf
<1>7. top_at(d.tops, k - 1) = row.top
  BY <1>1, <1>2, <1>3, <1>5, TopAtOf, Zenon DEF ColumnsOf, Written
<1>8. d.first_blocks[(k - 1) + 1] = row.first
  BY <1>3, <1>6, Zenon DEF Written, RowAt
<1>9. d.first_blocks[(k - 1) + 1] + d.block_deltas[(k - 1) + 1] = row.last
  <2>1. d.block_deltas[(k - 1) + 1] = row.last - row.first
    BY <1>3, <1>6, Zenon DEF Written, RowAt
  <2>2. row.first + (row.last - row.first) = row.last
    BY <1>4
  <2>. QED  BY <1>8, <2>1, <2>2, Zenon
<1>10. hash(d.hashes[(k - 1) + 1]) = row.hash
  BY <1>3, <1>4, <1>6, HashBack, Zenon DEF Written, RowAt
<1>11. VersionAt(d.versions, k - 1) = row.version
  <2>1. Len(c.versions) = n
    BY <1>1, Zenon DEF ColumnsOf, Long
  <2>2. VersionAt(EmitVersions(c.versions), k - 1) = c.versions[k]
    BY <1>3, <1>5, <2>1, VersionBack, Zenon
  <2>. QED  BY <1>6, <2>2, Zenon DEF Written, RowAt
<1>12. d.timestamps[(k - 1) + 1] = row.timestamp
  BY <1>3, <1>6, Zenon DEF Written, RowAt
<1>13. Slice(d.worker_offsets, d.worker_indexes, k - 1) = row.workers
  <2>1. SliceOf(c.worker_ends, c.worker_indexes, Len(c.worker_indexes), row.workers, k)
    <3>1. WorkersOf(r)[k] = row.workers
      BY <1>2, Zenon DEF WorkersOf
    <3>. QED  BY <3>1, Zenon DEF ColumnsOf, SlicesOf
  <2>2. Len(c.worker_ends) = n
    BY <1>1, Zenon DEF ColumnsOf
  <2>3. Slice(Offsets(c.worker_ends), c.worker_indexes, k - 1) = row.workers
    BY <1>3, <1>4, <1>5, <2>1, <2>2, SliceBack, Zenon
  <2>. QED  BY <2>3, Zenon DEF Written
<1>. QED  BY <1>2, <1>4, <1>7, <1>8, <1>9, <1>10, <1>11, <1>12, <1>13, Zenon DEF PortalChunk

\* A dataset is accepted exactly if its worker references fit, and then read as
\* the rows it was given.
LEMMA DatasetBack ==
  ASSUME NEW d, NEW r, EmittedOf(d, r)
  PROVE  /\ from_owned(d) <=> Len(d.worker_indexes) <= U32Max
         /\ from_owned(d) => ReadAs(d, r)
<1>1. PICK c : Written(d, c) /\ Staged(c, r, d.last_block) /\ c.first_blocks # <<>>
  BY Zenon DEF EmittedOf
<1>2. c \in ColumnsType /\ r \in Seq(RowType)
  BY <1>1, Zenon DEF Staged
<1>3. /\ c.first_blocks \in Seq(Nat) /\ c.versions \in Seq(Nat) /\ c.worker_ends \in Seq(Nat)
      /\ c.tops \in Seq(TopRun)
  BY <1>2 DEF ColumnsType
<1>4. Len(d.worker_offsets) - 1 = Len(c.worker_ends)
  <2>1. <<0>> \in Seq(Nat) /\ Len(<<0>>) = 1
    OBVIOUS
  <2>2. Len(d.worker_offsets) = Len(<<0>>) + Len(c.worker_ends)
    <3>1. d.worker_offsets = <<0>> \o c.worker_ends
      BY <1>1, Zenon DEF Written, Offsets
    <3>2. Len(<<0>> \o c.worker_ends) = Len(<<0>>) + Len(c.worker_ends)
      BY <1>3, <2>1, ConcatFacts
    <3>. QED  BY <3>1, <3>2, Zenon
  <2>3. Len(c.worker_ends) \in Nat
    BY <1>3, LenFacts, Zenon
  <2>. QED  BY <2>1, <2>2, <2>3
<1>5. CASE Len(d.worker_indexes) <= U32Max
  <2>1. ColumnsOf(c, r) /\ d.last_block = LastOf(r)
    BY <1>1, <1>5, Zenon DEF Staged, Written
  <2>2. PICK n \in Nat : n = Len(r)
    BY <1>2, LenFacts, Zenon
  <2>3. Long(c, n) /\ Len(c.worker_ends) = n /\ TopsOf(c.tops, r)
    BY <2>1, <2>2, Zenon DEF ColumnsOf
  <2>4. n > 0
    <3>1. Len(c.first_blocks) \in Nat \ {0}
      BY <1>1, <1>3, EmptyFacts, Zenon
    <3>2. Len(c.first_blocks) = n
      BY <2>3, Zenon DEF Long
    <3>. QED  BY <3>1, <3>2
  <2>5. r # <<>>
    BY <2>2, <2>4
  <2>6. c.tops # <<>> /\ c.tops[1].first_chunk_index = 0
    <3>1. Len(c.tops) > 0 /\ c.tops[1].first_chunk_index = 0
      BY <2>2, <2>3, <2>4, Zenon DEF TopsOf, RunsOf
    <3>2. c.tops # <<>>
      BY <3>1
    <3>. QED  BY <3>1, <3>2, Zenon
  <2>7. from_owned(d)
    <3>1. d.versions = <<>> \/ Len(d.versions) = n
      BY <1>1, <2>3, Zenon DEF Written, EmitVersions, Long
    <3>2. /\ Len(d.first_blocks) = n /\ Len(d.block_deltas) = n /\ Len(d.hashes) = n
          /\ Len(d.timestamps) = n /\ Len(d.worker_offsets) - 1 = n
      BY <1>1, <1>4, <2>3, Zenon DEF Written, Long
    <3>3. (IF d.versions = <<>> THEN n ELSE Len(d.versions)) = n
      BY <3>1, Zenon
    <3>4. d.tops # <<>> /\ d.tops[1].first_chunk_index = 0
      BY <1>1, <2>6, Zenon DEF Written
    <3>. QED  BY <3>2, <3>3, <3>4 DEF from_owned, check_columns
  <2>8. ReadAs(d, r)
    <3>1. d.last_block = r[Len(r)].last
      BY <2>1, <2>5, Zenon DEF LastOf
    <3>2. Len(d.first_blocks) = n /\ Len(d.timestamps) = n
      BY <1>1, <2>3, Zenon DEF Written, Long
    <3>3. \A k \in 1..n : PortalChunk(d, k - 1) = r[k]
      BY <1>1, <1>2, <2>1, <2>2, RowBack, Zenon
    <3>4. \A k \in 1..n : d.first_blocks[k] = r[k].first /\ d.timestamps[k] = r[k].timestamp
      BY <1>1, <2>1, <2>2, Zenon DEF Written, ColumnsOf, RowAt
    <3>. QED  BY <2>2, <2>4, <3>1, <3>2, <3>3, <3>4, Zenon DEF ReadAs
  <2>. QED  BY <1>5, <2>7, <2>8, Zenon
<1>6. CASE ~(Len(d.worker_indexes) <= U32Max)
  <2>1. Len(c.worker_ends) < Len(c.first_blocks)
    BY <1>1, <1>6, Zenon DEF Staged, Written
  <2>2. Len(c.worker_ends) \in Nat /\ Len(c.first_blocks) \in Nat
    BY <1>3, LenFacts, Zenon
  <2>3. Len(d.worker_offsets) - 1 # Len(d.first_blocks)
    <3>1. Len(c.worker_ends) # Len(c.first_blocks)
      BY <2>1, <2>2
    <3>2. d.first_blocks = c.first_blocks
      BY <1>1, Zenon DEF Written
    <3>. QED  BY <1>4, <3>1, <3>2, Zenon
  <2>4. ~from_owned(d)
    BY <2>3, Zenon DEF from_owned, check_columns
  <2>. QED  BY <1>6, <2>4, Zenon
<1>. QED  BY <1>5, <1>6, Zenon

\* Datasets that were emitted are read back.
LEMMA RoundTripFromInv ==
  ASSUME PortalInv
  PROVE  RoundTrip
<1>. SUFFICES ASSUME blob # <<>>, NEW i \in DOMAIN blob[1].datasets, NEW d, d = blob[1].datasets[i]
              PROVE  /\ from_owned(d) <=> Len(d.worker_indexes) <= U32Max
                     /\ from_owned(d) =>
                          expected[i] = [k \in 1..Len(d.first_blocks) |-> PortalChunk(d, k - 1)]
  BY Zenon DEF RoundTrip
<1>1. /\ blob[1].datasets = all_datasets /\ all_datasets \in Seq(DatasetType)
      /\ Len(all_datasets) = Len(expected) /\ expected \in Seq(Seq(RowType))
      /\ \A j \in 1..Len(all_datasets) : EmittedOf(all_datasets[j], expected[j])
  BY Zenon DEF PortalInv
<1>2. i \in 1..Len(all_datasets) /\ i \in 1..Len(expected)
  BY <1>1, LenFacts, Zenon
<1>3. PICK r \in Seq(RowType) : r = expected[i]
  BY <1>1, <1>2
<1>4. EmittedOf(d, r)
  BY <1>1, <1>2, <1>3, Zenon
<1>5. ASSUME ReadAs(d, r)
      PROVE  r = [k \in 1..Len(d.first_blocks) |-> PortalChunk(d, k - 1)]
  <2>1. \A k \in 1..Len(d.first_blocks) : PortalChunk(d, k - 1) = r[k]
    BY <1>5, Zenon DEF ReadAs
  <2>2. DOMAIN r = 1..Len(d.first_blocks) /\ r \in [1..Len(r) -> RowType]
    BY <1>5, LenFacts, Zenon DEF ReadAs
  <2>3. r = [k \in 1..Len(d.first_blocks) |-> r[k]]
    BY <2>2, Zenon
  <2>. QED  BY <2>1, <2>3, Zenon
<1>. QED  BY <1>3, <1>4, <1>5, DatasetBack, Zenon

\* A portal reads back exactly the chunks its builder took (RoundTrip): for any
\* chunks, datasets and worker lists, in any order of calls, and whatever the
\* u32 that counts the worker references.
THEOREM PortalAlwaysReadsBack ==
  ASSUME PortalCalls
  PROVE  Spec => []RoundTrip
<1>1. Init => PortalInv
  BY InitPortalInv, Zenon
<1>2. PortalInv /\ [Next]_vars => PortalInv'
  BY NextPortalInv, Zenon
<1>3. PortalInv => RoundTrip
  BY RoundTripFromInv, Zenon
<1>. QED  BY <1>1, <1>2, <1>3, PTL DEF Spec

-----------------------------------------------------------------------------
(***************************************************************************)
(* Finding a chunk                                                         *)
(***************************************************************************)

\* Datasets in the order of their ids are found by their id.
LEMMA DatasetFound ==
  ASSUME PortalInv, blob # <<>>, IdsAscend, NEW id \in Int
  PROVE  /\ \A i \in 1..Len(all_datasets) : all_datasets[i].id = id =>
              /\ get_dataset(id) = <<all_datasets[i]>>
              /\ \A j \in 1..Len(all_datasets) : all_datasets[j].id = id => j = i
         /\ (\A i \in 1..Len(all_datasets) : all_datasets[i].id # id) => get_dataset(id) = <<>>
<1>1. /\ blob[1].datasets = all_datasets /\ all_datasets \in Seq(DatasetType)
  BY Zenon DEF PortalInv
<1>2. PICK n \in Nat : n = Len(all_datasets) /\ DOMAIN all_datasets = 1..n
  BY <1>1, LenFacts, Zenon
<1>3. PICK q : q = lookup_index_by_key([i \in DOMAIN all_datasets |-> all_datasets[i].id], id)
  BY Zenon
<1>4. lookup_by_key(blob[1].datasets, id) = q
  BY <1>1, <1>3, Zenon DEF lookup_by_key
<1>5. KeyAt(all_datasets, n, id, q)
  <2>1. \A i \in 1..n : all_datasets[i].id \in Int
    <3>1. \A i \in 1..n : all_datasets[i] \in DatasetType
      BY <1>1, <1>2
    <3>. QED  BY <3>1 DEF DatasetType
  <2>2. \A i \in 1..n - 1 : all_datasets[i].id < all_datasets[i + 1].id
    BY <1>1, <1>2, Zenon DEF IdsAscend
  <2>3. Keyed(all_datasets, n)
    BY <1>2, <2>1, <2>2, Zenon DEF Keyed
  <2>. QED  BY <1>3, <2>3, KeyFound, Zenon
<1>6. ASSUME NEW i \in 1..n, all_datasets[i].id = id
      PROVE  get_dataset(id) = <<all_datasets[i]>>
  <2>1. i - 1 # -1 /\ (i - 1) + 1 = i
    OBVIOUS
  <2>. QED  BY <1>1, <1>4, <1>5, <1>6, <2>1, Zenon DEF KeyAt, get_dataset, None
<1>7. ASSUME \A i \in 1..n : all_datasets[i].id # id
      PROVE  get_dataset(id) = <<>>
  BY <1>4, <1>5, <1>7, Zenon DEF KeyAt, get_dataset
<1>. QED  BY <1>2, <1>5, <1>6, <1>7, Zenon DEF KeyAt

\* Where a block lies among chunks that ascend, p of which begin at or before it.
Place(n, f, g, b, p) ==
  /\ n \in Nat /\ n > 0 /\ b \in Nat /\ p \in 0..n
  /\ \A k \in 1..n : f[k] \in Nat /\ g[k] \in Nat /\ f[k] <= g[k]
  /\ \A k \in 1..n - 1 : g[k] < f[k + 1]
  /\ \A k \in 1..n : (f[k] <= b) <=> (k <= p)

\* Where a block lies among chunks that ascend: p of them begin at or before it.
LEMMA BlockPlace ==
  ASSUME NEW n, NEW f, NEW g, NEW b, NEW p, Place(n, f, g, b, p)
  PROVE  /\ p # 0 /\ ~(b > g[p]) => p \in 1..n /\ f[p] <= b /\ b <= g[p]
         /\ \A k \in 1..n : f[k] <= b /\ b <= g[k] => k = p /\ ~(b > g[p])
         /\ b < f[1] <=> p = 0
         /\ b > g[n] => p = n
<1>. n \in Nat /\ n > 0 /\ b \in Nat /\ p \in 0..n
  BY Zenon DEF Place
<1>. /\ \A k \in 1..n : f[k] \in Nat /\ g[k] \in Nat /\ f[k] <= g[k]
     /\ \A k \in 1..n - 1 : g[k] < f[k + 1]
     /\ \A k \in 1..n : (f[k] <= b) <=> (k <= p)
  BY Zenon DEF Place
<1>1. ASSUME NEW k \in 1..n, f[k] <= b, b <= g[k]
      PROVE  k = p
  <2>1. k <= p
    BY <1>1
  <2>2. CASE k < p
    <3>1. k + 1 \in 1..n /\ k \in 1..n - 1 /\ k + 1 <= p
      BY <2>2
    <3>2. f[k + 1] <= b /\ g[k] < f[k + 1] /\ f[k + 1] \in Nat /\ g[k] \in Nat
      BY <3>1
    <3>. QED  BY <1>1, <3>2
  <2>. QED  BY <2>1, <2>2
<1>2. 1 \in 1..n /\ n \in 1..n
  OBVIOUS
<1>3. b < f[1] <=> p = 0
  BY <1>2
<1>4. b > g[n] => p = n
  <2>1. b > g[n] => f[n] <= b
    BY <1>2
  <2>. QED  BY <1>2, <2>1
<1>5. p # 0 /\ ~(b > g[p]) => p \in 1..n /\ f[p] <= b /\ b <= g[p]
  <2>1. p # 0 => p \in 1..n /\ f[p] <= b
    OBVIOUS
  <2>. QED  BY <2>1
<1>6. \A k \in 1..n : f[k] <= b /\ b <= g[k] => k = p /\ ~(b > g[p])
  BY <1>1
<1>. QED  BY <1>3, <1>4, <1>5, <1>6, Zenon

\* The rows of a dataset by field, as functions.
LEMMA RowFields ==
  ASSUME NEW r \in Seq(RowType)
  PROVE  \A k \in 1..Len(r) :
           /\ r[k].first \in Nat /\ r[k].last \in Nat /\ r[k].first <= r[k].last
           /\ r[k].timestamp \in Nat
<1>1. \A k \in 1..Len(r) : r[k] \in RowType
  OBVIOUS
<1>. QED  BY <1>1, Zenon DEF RowType

\* find_chunk answers as a scan of the staged chunks would.
LEMMA FindChunkRight ==
  ASSUME NEW d, NEW r \in Seq(RowType), ReadAs(d, r), d.first_blocks \in Seq(Nat), ChunksAscend(r),
         NEW id, get_dataset(id) = <<d>>, NEW b \in Nat
  PROVE  find_chunk(id, b) = Answer(r, b)
<1>1. PICK n \in Nat : n = Len(r) /\ DOMAIN r = 1..n /\ n > 0
  BY LenFacts, Zenon DEF ReadAs
<1>2. PICK f, g : f = [k \in 1..n |-> r[k].first] /\ g = [k \in 1..n |-> r[k].last]
  BY Zenon
<1>3. \A k \in 1..n : f[k] = r[k].first /\ g[k] = r[k].last
  BY <1>2, Zenon
<1>4. \A k \in 1..n : f[k] \in Nat /\ g[k] \in Nat /\ f[k] <= g[k]
  BY <1>1, <1>3, RowFields, Zenon
<1>5. \A k \in 1..n - 1 : k \in 1..n /\ k + 1 \in 1..n
  OBVIOUS
<1>6. \A k \in 1..n - 1 : g[k] < f[k + 1]
  BY <1>1, <1>3, <1>5, Zenon DEF ChunksAscend
<1>7. PICK p \in 0..n : \A k \in 1..n : (f[k] <= b) <=> (k <= p)
  <2>1. \A k \in 1..n - 1 : f[k] + 0 <= f[k + 1]
    BY <1>4, <1>5, <1>6
  <2>2. 0 \in {0, 1} /\ b \in Int /\ \A k \in 1..n : f[k] \in Int
    BY <1>4
  <2>3. \A i, j \in 1..n : i < j => f[i] + 0 <= f[j]
    BY <2>1, <2>2, AscendsFar, Zenon
  <2>4. \A i, j \in 1..n : i < j => f[i] <= f[j]
    BY <1>4, <2>3
  <2>. QED  BY <2>2, <2>4, LastHolding, Zenon
<1>8. PICK h : h = [i \in DOMAIN d.first_blocks |-> d.first_blocks[i] <= b]
  BY Zenon
<1>9. partition_point(h) = p
  <2>1. DOMAIN d.first_blocks = 1..n /\ \A k \in 1..n : d.first_blocks[k] = f[k]
    BY <1>1, <1>3, LenFacts, Zenon DEF ReadAs
  <2>2. h = [k \in 1..n |-> d.first_blocks[k] <= b]
    BY <1>8, <2>1, Zenon
  <2>3. Len(h) = n
    BY <2>2
  <2>4. \A k \in 1..n : h[k] <=> k <= p
    BY <1>7, <2>1, <2>2, Zenon
  <2>. QED  BY <2>3, <2>4, PartitionPoint, Zenon
<1>10. d.last_block = g[n]
  <2>1. n \in 1..n
    BY <1>1
  <2>. QED  BY <1>1, <1>3, <2>1, Zenon DEF ReadAs
<1>11. p # 0 => PortalChunk(d, p - 1).last = g[p]
  <2>1. p # 0 => p \in 1..n
    OBVIOUS
  <2>. QED  BY <1>1, <1>3, <2>1, Zenon DEF ReadAs
<1>12. find_chunk(id, b) =
         IF b > g[n] THEN <<"AfterLast">>
         ELSE IF p = 0 THEN <<"BeforeFirst">>
         ELSE IF b > g[p] THEN <<"InGap">>
         ELSE <<"Ok", p - 1>>
  <2>1. get_dataset(id) # <<>> /\ get_dataset(id)[1] = d
    OBVIOUS
  <2>2. find_chunk(id, b) =
          IF b > d.last_block THEN <<"AfterLast">>
          ELSE IF p = 0 THEN <<"BeforeFirst">>
          ELSE IF b > PortalChunk(d, p - 1).last THEN <<"InGap">>
          ELSE <<"Ok", p - 1>>
    BY <1>8, <1>9, <2>1, Zenon DEF find_chunk
  <2>. QED  BY <1>10, <1>11, <2>2, Zenon
<1>13. /\ p # 0 /\ ~(b > g[p]) => p \in 1..n /\ f[p] <= b /\ b <= g[p]
       /\ \A k \in 1..n : f[k] <= b /\ b <= g[k] => k = p /\ ~(b > g[p])
       /\ b < f[1] <=> p = 0
       /\ b > g[n] => p = n
  <2>1. Place(n, f, g, b, p)
    BY <1>1, <1>4, <1>6, <1>7, Zenon DEF Place
  <2>. QED  BY <2>1, BlockPlace, Zenon
<1>15. Answer(r, b) =
         IF \E k \in 1..n : f[k] <= b /\ b <= g[k]
         THEN <<"Ok", (CHOOSE k \in 1..n : f[k] <= b /\ b <= g[k]) - 1>>
         ELSE IF b < f[1] THEN <<"BeforeFirst">>
         ELSE IF b > g[n] THEN <<"AfterLast">> ELSE <<"InGap">>
  <2>1. r[1].first = f[1] /\ r[Len(r)].last = g[n]
    <3>1. 1 \in 1..n /\ n \in 1..n
      BY <1>1
    <3>. QED  BY <1>1, <1>3, <3>1, Zenon
  <2>2. \A k \in 1..n : (r[k].first <= b /\ b <= r[k].last) <=> (f[k] <= b /\ b <= g[k])
    BY <1>3, Zenon
  <2>3. (CHOOSE k \in 1..n : r[k].first <= b /\ b <= r[k].last)
          = CHOOSE k \in 1..n : f[k] <= b /\ b <= g[k]
    BY <2>2, Zenon
  <2>. QED  BY <1>1, <2>1, <2>2, <2>3, Zenon DEF Answer
<1>16. CASE \E k \in 1..n : f[k] <= b /\ b <= g[k]
  <2>1. PICK q : q = CHOOSE k \in 1..n : f[k] <= b /\ b <= g[k]
    BY Zenon
  <2>2. q \in 1..n /\ f[q] <= b /\ b <= g[q]
    BY <1>16, <2>1, Zenon
  <2>3. q = p /\ ~(b > g[p])
    BY <1>13, <2>2, Zenon
  <2>4. p # 0 /\ ~(b > g[n])
    <3>1. p \in 1..n
      BY <2>2, <2>3, Zenon
    <3>2. p # 0
      BY <3>1
    <3>. QED  BY <1>13, <2>3, <3>2, Zenon
  <2>. QED  BY <1>12, <1>15, <1>16, <2>1, <2>3, <2>4, Zenon
<1>17. CASE ~\E k \in 1..n : f[k] <= b /\ b <= g[k]
  <2>1. p # 0 => b > g[p]
    BY <1>13, <1>17, Zenon
  <2>2. b > g[n] => p # 0
    BY <1>1, <1>13
  <2>3. CASE p = 0
    <3>1. b < f[1] /\ ~(b > g[n])
      BY <1>13, <2>2, <2>3, Zenon
    <3>. QED  BY <1>12, <1>15, <1>17, <2>3, <3>1, Zenon
  <2>4. CASE p # 0
    <3>1. ~(b < f[1]) /\ b > g[p]
      BY <1>13, <2>1, <2>4, Zenon
    <3>2. find_chunk(id, b) = IF b > g[n] THEN <<"AfterLast">> ELSE <<"InGap">>
      BY <1>12, <2>4, <3>1, Zenon
    <3>3. Answer(r, b) = IF b > g[n] THEN <<"AfterLast">> ELSE <<"InGap">>
      BY <1>15, <1>17, <3>1, Zenon
    <3>. QED  BY <3>2, <3>3
  <2>. QED  BY <2>3, <2>4, Zenon
<1>. QED  BY <1>16, <1>17, Zenon

Later(r, ts) == {k \in DOMAIN r : r[k].timestamp >= ts}

\* find_chunk_by_timestamp returns the first chunk at or after the timestamp.
LEMMA ByTimestampRight ==
  ASSUME NEW d, NEW r \in Seq(RowType), ReadAs(d, r),
         \A k \in 1..Len(r) - 1 : r[k].timestamp <= r[k + 1].timestamp,
         NEW id, get_dataset(id) = <<d>>, NEW ts \in Nat
  PROVE  find_chunk_by_timestamp(id, ts) =
           IF Later(r, ts) = {} THEN <<"AfterLast">> ELSE <<"Ok", Min(Later(r, ts)) - 1>>
<1>12. PICK later : later = Later(r, ts)
  BY Zenon
<1>1. PICK n \in Nat : n = Len(r) /\ DOMAIN r = 1..n
  BY LenFacts, Zenon
<1>2. PICK f : f = [k \in 1..n |-> r[k].timestamp]
  BY Zenon
<1>3. \A k \in 1..n : f[k] = r[k].timestamp /\ f[k] \in Nat
  BY <1>1, <1>2, RowFields, Zenon
<1>4. PICK p \in 0..n : \A k \in 1..n : (f[k] <= ts - 1) <=> (k <= p)
  <2>1. \A k \in 1..n - 1 : k \in 1..n /\ k + 1 \in 1..n
    OBVIOUS
  <2>2. \A k \in 1..n - 1 : f[k] <= f[k + 1]
    BY <1>1, <1>3, <2>1, Zenon
  <2>3. \A k \in 1..n - 1 : f[k] + 0 <= f[k + 1]
    BY <1>3, <2>1, <2>2
  <2>4. 0 \in {0, 1} /\ ts - 1 \in Int /\ \A k \in 1..n : f[k] \in Int
    BY <1>3
  <2>5. \A i, j \in 1..n : i < j => f[i] + 0 <= f[j]
    BY <2>3, <2>4, AscendsFar, Zenon
  <2>6. \A i, j \in 1..n : i < j => f[i] <= f[j]
    BY <1>3, <2>5
  <2>. QED  BY <2>4, <2>6, LastHolding, Zenon
<1>5. \A k \in 1..n : (f[k] < ts) <=> (k <= p)
  BY <1>3, <1>4
<1>6. PICK h : h = [i \in 1..Len(d.first_blocks) |-> d.timestamps[i] < ts]
  BY Zenon
<1>7. partition_point(h) = p
  <2>1. Len(d.first_blocks) = n /\ \A k \in 1..n : d.timestamps[k] = f[k]
    BY <1>1, <1>3, Zenon DEF ReadAs
  <2>2. h = [k \in 1..n |-> d.timestamps[k] < ts]
    BY <1>6, <2>1, Zenon
  <2>3. Len(h) = n
    BY <2>2
  <2>4. \A k \in 1..n : h[k] <=> k <= p
    BY <1>5, <2>1, <2>2, Zenon
  <2>. QED  BY <2>3, <2>4, PartitionPoint, Zenon
<1>8. find_chunk_by_timestamp(id, ts) = IF p = n THEN <<"AfterLast">> ELSE <<"Ok", p>>
  <2>1. get_dataset(id) # <<>> /\ get_dataset(id)[1] = d /\ Len(d.first_blocks) = n
    BY <1>1 DEF ReadAs
  <2>2. find_chunk_by_timestamp(id, ts) = IF p = Len(d.first_blocks) THEN <<"AfterLast">> ELSE <<"Ok", p>>
    BY <1>6, <1>7, <2>1, Zenon DEF find_chunk_by_timestamp
  <2>. QED  BY <2>1, <2>2, Zenon
<1>9. later = {k \in 1..n : ~(k <= p)}
  <2>1. \A k \in 1..n : (r[k].timestamp >= ts) <=> ~(k <= p)
    BY <1>3, <1>5
  <2>. QED  BY <1>1, <1>12, <2>1, Zenon DEF Later
<1>10. CASE p = n
  <2>1. later = {}
    BY <1>9, <1>10
  <2>. QED  BY <1>8, <1>10, <1>12, <2>1, Zenon
<1>11. CASE p # n
  <2>1. p + 1 \in later /\ \A k \in later : k \in Nat /\ p + 1 <= k
    <3>1. p + 1 \in 1..n /\ ~(p + 1 <= p)
      BY <1>11
    <3>2. \A k \in 1..n : k \in Nat /\ (~(k <= p) => p + 1 <= k)
      OBVIOUS
    <3>. QED  BY <1>9, <3>1, <3>2, Zenon
  <2>2. PICK m : m = Min(later)
    BY Zenon
  <2>3. m \in later /\ \A k \in later : m <= k
    BY <2>1, <2>2, Zenon DEF Min
  <2>4. m - 1 = p
    BY <2>1, <2>3
  <2>5. later # {}
    BY <2>1, Zenon
  <2>. QED  BY <1>8, <1>11, <1>12, <2>2, <2>4, <2>5, Zenon
<1>. QED  BY <1>10, <1>11, Zenon

-----------------------------------------------------------------------------
(***************************************************************************)
(* What a portal is told                                                   *)
(***************************************************************************)

\* An accepted dataset of a finished assignment is read as its rows.
LEMMA AcceptedDataset ==
  ASSUME PortalInv, NEW i \in 1..Len(all_datasets), from_owned(all_datasets[i])
  PROVE  /\ expected[i] \in Seq(RowType) /\ ReadAs(all_datasets[i], expected[i])
         /\ all_datasets[i].first_blocks \in Seq(Nat)
<1>1. /\ all_datasets \in Seq(DatasetType) /\ expected \in Seq(Seq(RowType))
      /\ Len(all_datasets) = Len(expected) /\ EmittedOf(all_datasets[i], expected[i])
  BY Zenon DEF PortalInv
<1>2. expected[i] \in Seq(RowType) /\ all_datasets[i] \in DatasetType
  BY <1>1
<1>3. all_datasets[i].first_blocks \in Seq(Nat)
  BY <1>2 DEF DatasetType
<1>. QED  BY <1>1, <1>2, <1>3, DatasetBack, Zenon

\* Blocks are found in the datasets that were emitted.
LEMMA FindChunkFromInv ==
  ASSUME PortalCalls, PortalInv
  PROVE  FindChunkExact
<1>. SUFFICES ASSUME blob # <<>>, IdsAscend, NEW id \in DatasetIds, NEW block \in Blocks
              PROVE  IF \E i \in DOMAIN blob[1].datasets : blob[1].datasets[i].id = id
                     THEN LET i == CHOOSE i \in DOMAIN blob[1].datasets : blob[1].datasets[i].id = id
                          IN from_owned(blob[1].datasets[i]) /\ ChunksAscend(expected[i]) =>
                               find_chunk(id, block) = Answer(expected[i], block)
                     ELSE find_chunk(id, block) = <<"UnknownDataset">>
  BY Zenon DEF FindChunkExact
<1>1. id \in Int /\ block \in Nat
  BY Zenon DEF PortalCalls
<1>2. blob[1].datasets = all_datasets /\ all_datasets \in Seq(DatasetType)
  BY Zenon DEF PortalInv
<1>3. DOMAIN all_datasets = 1..Len(all_datasets)
  BY <1>2, LenFacts, Zenon
<1>4. CASE \E i \in DOMAIN blob[1].datasets : blob[1].datasets[i].id = id
  <2>1. PICK i : i = CHOOSE j \in DOMAIN blob[1].datasets : blob[1].datasets[j].id = id
    BY Zenon
  <2>2. i \in 1..Len(all_datasets) /\ all_datasets[i].id = id
    BY <1>2, <1>3, <1>4, <2>1, Zenon
  <2>3. get_dataset(id) = <<all_datasets[i]>>
    BY <1>1, <2>2, DatasetFound, Zenon
  <2>4. ASSUME from_owned(all_datasets[i]), ChunksAscend(expected[i])
        PROVE  find_chunk(id, block) = Answer(expected[i], block)
    BY <1>1, <2>2, <2>3, <2>4, AcceptedDataset, FindChunkRight, Zenon
  <2>. QED  BY <1>2, <1>4, <2>1, <2>4, Zenon
<1>5. CASE ~\E i \in DOMAIN blob[1].datasets : blob[1].datasets[i].id = id
  <2>1. get_dataset(id) = <<>>
    BY <1>1, <1>2, <1>3, <1>5, DatasetFound, Zenon
  <2>. QED  BY <1>5, <2>1, Zenon DEF find_chunk
<1>. QED  BY <1>4, <1>5, Zenon

\* Timestamps are found in the datasets that were emitted.
LEMMA ByTimestampFromInv ==
  ASSUME PortalCalls, PortalInv
  PROVE  ByTimestampExact
<1>. SUFFICES ASSUME blob # <<>>, IdsAscend, NEW i \in DOMAIN blob[1].datasets, NEW ts \in Timestamps,
                     NEW ups, ups = expected[i],
                     NEW later, later = {k \in DOMAIN ups : ups[k].timestamp >= ts},
                     from_owned(blob[1].datasets[i]),
                     \A k \in 1..Len(ups) - 1 : ups[k].timestamp <= ups[k + 1].timestamp
              PROVE  find_chunk_by_timestamp(blob[1].datasets[i].id, ts) =
                       IF later = {} THEN <<"AfterLast">> ELSE <<"Ok", Min(later) - 1>>
  BY Zenon DEF ByTimestampExact
<1>1. ts \in Nat
  BY Zenon DEF PortalCalls
<1>2. blob[1].datasets = all_datasets /\ all_datasets \in Seq(DatasetType)
  BY Zenon DEF PortalInv
<1>3. i \in 1..Len(all_datasets)
  BY <1>2, LenFacts, Zenon
<1>4. PICK d : d = all_datasets[i]
  BY Zenon
<1>5. ups \in Seq(RowType) /\ ReadAs(d, ups)
  BY <1>2, <1>3, <1>4, AcceptedDataset, Zenon
<1>6. d.id \in Int
  <2>1. d \in DatasetType
    BY <1>2, <1>3, <1>4
  <2>. QED  BY <2>1 DEF DatasetType
<1>7. get_dataset(d.id) = <<d>>
  BY <1>3, <1>4, <1>6, DatasetFound, Zenon
<1>8. find_chunk_by_timestamp(d.id, ts) =
        IF later = {} THEN <<"AfterLast">> ELSE <<"Ok", Min(later) - 1>>
  <2>1. later = Later(ups, ts)
    BY Zenon DEF Later
  <2>2. find_chunk_by_timestamp(d.id, ts) =
          IF Later(ups, ts) = {} THEN <<"AfterLast">> ELSE <<"Ok", Min(Later(ups, ts)) - 1>>
    BY <1>1, <1>5, <1>7, ByTimestampRight, Zenon
  <2>. QED  BY <2>1, <2>2, Zenon
<1>. QED  BY <1>2, <1>4, <1>8, Zenon

\* A portal finds the chunk that holds a block, or is told on which side of the
\* chunks or between which the block lies, and the first chunk at or after a
\* timestamp (FindsExact), for any datasets and any blocks and timestamps.
THEOREM PortalAlwaysFinds ==
  ASSUME PortalCalls
  PROVE  Spec => []FindsExact
<1>1. Init => PortalInv
  BY InitPortalInv, Zenon
<1>2. PortalInv /\ [Next]_vars => PortalInv'
  BY NextPortalInv, Zenon
<1>3. PortalInv => FindsExact
  BY FindChunkFromInv, ByTimestampFromInv, Zenon DEF FindsExact
<1>. QED  BY <1>1, <1>2, <1>3, PTL DEF Spec
=============================================================================
