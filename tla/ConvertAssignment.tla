-------------------------- MODULE ConvertAssignment -------------------------
(***************************************************************************)
(* crates/assignments/examples/convert_assignment.rs: reads a legacy       *)
(* assignment, drives the builders of the worker and of the portal         *)
(* assignment from it, one call at a time, and verifies what they wrote.   *)
(* An error ends the program.  The unprefixed variables of the builder are *)
(* those of WorkerAssignment, the ones of PortalAssignment begin with p_.  *)
(* Files are written and read back unchanged, so a builder's blob is what  *)
(* is verified.                                                            *)
(***************************************************************************)
EXTENDS LegacyAssignment

CONSTANTS BITS, U32Max, NotParquet

VARIABLES
  last_block, all_datasets, write_schemas, current_generations, columns, worker_entries,
  staged_worker_indexes, staged_tables_present, dataset, chunk, blob, registered, rows, expected,
  p_last_block, p_all_datasets, p_columns, p_worker_entries, p_staged_worker_indexes, p_dataset,
  p_chunk, p_blob, p_rows, p_expected,
  pc,   \* the next call of the program
  di,   \* the dataset, or the worker, it is at
  ci    \* the chunk it is at

W == INSTANCE WorkerAssignment WITH
  CheckContinuity <- FALSE, DatasetIds <- {}, DatasetUrls <- {}, BaseUrls <- {}, Versions <- {},
  WriteSchemaIds <- {}, Rosters <- {}, TableLists <- {}, WorkerLists <- {}, ChunkInputs <- {}

P == INSTANCE PortalAssignment WITH
  CheckContinuity <- FALSE, DatasetIds <- {}, ReadSchemaIds <- {}, LastBlockHashes <- {},
  WorkerLists <- {}, ChunkInputs <- {},
  last_block <- p_last_block, all_datasets <- p_all_datasets, columns <- p_columns,
  worker_entries <- p_worker_entries, staged_worker_indexes <- p_staged_worker_indexes,
  dataset <- p_dataset, chunk <- p_chunk, blob <- p_blob, rows <- p_rows, expected <- p_expected

wVars ==
  <<last_block, all_datasets, write_schemas, current_generations, columns, worker_entries,
    staged_worker_indexes, staged_tables_present, dataset, chunk, blob, registered, rows, expected>>
pVars ==
  <<p_last_block, p_all_datasets, p_columns, p_worker_entries, p_staged_worker_indexes, p_dataset,
    p_chunk, p_blob, p_rows, p_expected>>
convertVars == <<legacyVars, wVars, pVars, pc, di, ci>>

ConvertInit == LegacyInit /\ W!Init /\ P!Init /\ pc = "source" /\ di = 1 /\ ci = 1

Source == legacy[1]
SourceDataset == Source.datasets[di]
SourceChunk == SourceDataset.chunks[ci]

\* mutant: files that are no tables are listed too
TablesOfAll(c) == SetToSortSeq(Range(Source.files[c.files]), <)

\* other files than the tables are ignored; BTreeSet and sort and dedup alike
tables_of(c) == SetToSortSeq(Range(Source.files[c.files]) \ {NotParquet}, <)

\* mutant: the tables of the first chunk
RosterOfFirst(index) == tables_of(Source.datasets[index].chunks[1])

rosters(index) ==
  LET chunks == Source.datasets[index].chunks
  IN SetToSortSeq(UNION {Range(tables_of(chunks[k])) : k \in DOMAIN chunks}, <)

\* 0 is free to mean "unset"
schema_id(index) == index

\* whether the id of the chunk agrees with the chunk
id_of(c) == c.id.first = c.first_block

-----------------------------------------------------------------------------
(***************************************************************************)
(* build_worker                                                            *)
(***************************************************************************)

At(phase) == pc = phase /\ UNCHANGED <<legacyVars, pVars>>

Fail == pc' = "failed" /\ UNCHANGED <<wVars, di, ci>>

read_legacy ==
  /\ At("source") /\ legacy # <<>>
  /\ pc' = "rosters"
  /\ UNCHANGED <<wVars, di, ci>>

RegisterRoster ==
  /\ At("rosters") /\ di <= Len(Source.datasets)
  /\ W!register_write_schema(schema_id(di), rosters(di))
  /\ di' = di + 1
  /\ UNCHANGED <<pc, ci>>

RostersDone ==
  /\ At("rosters") /\ di > Len(Source.datasets)
  /\ pc' = "dataset" /\ di' = 1
  /\ UNCHANGED <<wVars, ci>>

OpenDataset ==
  /\ At("dataset") /\ di <= Len(Source.datasets)
  /\ W!new_dataset(SourceDataset.id, SourceDataset.chunks[1].dataset_base_url)
  /\ pc' = "chunk" /\ ci' = 1
  /\ UNCHANGED di

OpenChunk ==
  /\ At("chunk") /\ ci <= Len(SourceDataset.chunks)
  /\ IF id_of(SourceChunk)
     THEN W!new_chunk /\ pc' = "schema" /\ UNCHANGED <<di, ci>>
     ELSE Fail

SetSchema ==
  /\ At("schema")
  /\ W!write_schema_id(schema_id(di))
  /\ pc' = "indexes"
  /\ UNCHANGED <<di, ci>>

SetWorkers ==
  /\ At("indexes")
  /\ W!worker_indexes(SourceChunk.worker_indexes)
  /\ pc' = IF Len(tables_of(SourceChunk)) # Len(rosters(di)) THEN "tables" ELSE "finish"
  /\ UNCHANGED <<di, ci>>

SetTables ==
  /\ At("tables")
  /\ W!tables_present(tables_of(SourceChunk))
  /\ pc' = IF chunk' = <<>> THEN "failed" ELSE "finish"
  /\ UNCHANGED <<di, ci>>

WorkerInput(c) == [id |-> c.id, first |-> c.id.first, last |-> c.id.last, size |-> c.size]

CloseChunk ==
  /\ At("finish")
  /\ W!FinishChunk(WorkerInput(SourceChunk))
  /\ pc' = IF W!FinishChunkFails(WorkerInput(SourceChunk)) THEN "failed" ELSE "chunk"
  /\ ci' = ci + 1
  /\ UNCHANGED di

CloseDataset ==
  /\ At("chunk") /\ ci > Len(SourceDataset.chunks)
  /\ W!FinishDataset
  /\ pc' = IF W!CanEmit THEN "dataset" ELSE "failed"
  /\ di' = di + 1
  /\ UNCHANGED ci

DatasetsDone ==
  /\ At("dataset") /\ di > Len(Source.datasets)
  /\ pc' = "workers" /\ di' = 1
  /\ UNCHANGED <<wVars, ci>>

AddWorker ==
  /\ At("workers") /\ di <= Len(Source.workers)
  /\ LET entry == Source.workers[di] IN
     IF entry.headers = <<>> THEN Fail
     ELSE /\ W!add_worker_with_sealed_headers(entry.id, entry.status, entry.headers[1])
          /\ di' = di + 1
          /\ UNCHANGED <<pc, ci>>

FinishWorker ==
  /\ At("workers") /\ di > Len(Source.workers)
  /\ W!Finish
  /\ pc' = "p_dataset" /\ di' = 1
  /\ UNCHANGED ci

build_worker ==
  \/ RegisterRoster \/ RostersDone \/ OpenDataset \/ OpenChunk \/ SetSchema \/ SetWorkers
  \/ SetTables \/ CloseChunk \/ CloseDataset \/ DatasetsDone \/ AddWorker \/ FinishWorker

-----------------------------------------------------------------------------
(***************************************************************************)
(* build_portal.  The counts of missing and falling timestamps are only    *)
(* reported.                                                               *)
(***************************************************************************)

PortalAt(phase) == pc = phase /\ UNCHANGED <<legacyVars, wVars>>

OpenPortalDataset ==
  /\ PortalAt("p_dataset") /\ di <= Len(Source.datasets)
  /\ P!new_dataset(SourceDataset.id, schema_id(di))
  /\ pc' = "p_chunk" /\ ci' = 1
  /\ UNCHANGED di

\* id_of has succeeded on every chunk before
OpenPortalChunk ==
  /\ PortalAt("p_chunk") /\ ci <= Len(SourceDataset.chunks)
  /\ P!new_chunk
  /\ pc' = "p_indexes"
  /\ UNCHANGED <<di, ci>>

SetPortalWorkers ==
  /\ PortalAt("p_indexes")
  /\ P!worker_indexes(SourceChunk.worker_indexes)
  /\ pc' = "p_finish"
  /\ UNCHANGED <<di, ci>>

\* a timestamp that is not set is stored as 0
UnwrapOrZero(timestamp) == IF timestamp = None THEN 0 ELSE timestamp

PortalInput(c) ==
  [id |-> c.id, first |-> c.id.first, last |-> c.id.last, version |-> 0,
   timestamp |-> UnwrapOrZero(c.last_block_timestamp)]

ClosePortalChunk ==
  /\ PortalAt("p_finish")
  /\ P!FinishChunk(PortalInput(SourceChunk))
  /\ pc' = IF P!FinishChunkFails(PortalInput(SourceChunk)) THEN "failed" ELSE "p_chunk"
  /\ ci' = ci + 1
  /\ UNCHANGED di

ClosePortalDataset ==
  /\ PortalAt("p_chunk") /\ ci > Len(SourceDataset.chunks)
  /\ P!FinishDataset(last_block_hash(SourceDataset))
  /\ pc' = IF P!CanEmit THEN "p_dataset" ELSE "failed"
  /\ di' = di + 1
  /\ UNCHANGED ci

PortalDatasetsDone ==
  /\ PortalAt("p_dataset") /\ di > Len(Source.datasets)
  /\ pc' = "p_workers" /\ di' = 1
  /\ UNCHANGED <<pVars, ci>>

AddPortalWorker ==
  /\ PortalAt("p_workers") /\ di <= Len(Source.workers)
  /\ P!add_worker(Source.workers[di].id, Source.workers[di].status)
  /\ di' = di + 1
  /\ UNCHANGED <<pc, ci>>

FinishPortal ==
  /\ PortalAt("p_workers") /\ di > Len(Source.workers)
  /\ P!Finish
  /\ pc' = "verify"
  /\ UNCHANGED <<di, ci>>

build_portal ==
  \/ OpenPortalDataset \/ OpenPortalChunk \/ SetPortalWorkers \/ ClosePortalChunk
  \/ ClosePortalDataset \/ PortalDatasetsDone \/ AddPortalWorker \/ FinishPortal

-----------------------------------------------------------------------------
(***************************************************************************)
(* verify                                                                  *)
(***************************************************************************)

Id(c) == [top |-> c.top, first |-> c.first, last |-> c.last, hash |-> c.hash]

\* w and p are the chunk as the worker and the portal read it
ChunkVerified(source, id, w, p) ==
  /\ id_of(source)
  /\ source.dataset_id = id
  /\ Id(w) = source.id /\ Id(p) = source.id
  /\ w.first = source.first_block /\ p.first = source.first_block
  /\ w.size = source.size
  /\ w.tables = Range(tables_of(source))
  /\ p.timestamp = UnwrapOrZero(source.last_block_timestamp)
  /\ p.version = 0 /\ w.version = 0
  /\ p.workers = source.worker_indexes /\ w.workers = source.worker_indexes

DatasetVerified(source, w, p) ==
  /\ w.id = source.id /\ p.id = source.id
  /\ w.last_block = source.last_block /\ p.last_block = source.last_block
  /\ p.last_block_hash = last_block_hash(source)
  /\ Len(w.first_blocks) = Len(source.chunks) /\ Len(p.first_blocks) = Len(source.chunks)
  /\ w.base_url = source.chunks[1].dataset_base_url
  /\ \A k \in DOMAIN source.chunks :
       ChunkVerified(source.chunks[k], source.id, W!WorkerChunk(blob[1].schemas, w, k - 1),
                     P!PortalChunk(p, k - 1))

\* both readers accept the blobs before
Verified ==
  /\ \A i \in DOMAIN blob[1].datasets : W!from_owned(blob[1].datasets[i])
  /\ \A i \in DOMAIN p_blob[1].datasets : P!from_owned(p_blob[1].datasets[i])
  /\ Len(blob[1].datasets) = Len(Source.datasets) /\ Len(p_blob[1].datasets) = Len(Source.datasets)
  /\ \A i \in DOMAIN Source.datasets :
       DatasetVerified(Source.datasets[i], blob[1].datasets[i], p_blob[1].datasets[i])
  /\ blob[1].workers = Source.workers
  /\ p_blob[1].workers =
       [i \in DOMAIN Source.workers |->
          [id |-> Source.workers[i].id, status |-> Source.workers[i].status]]

verify ==
  /\ pc = "verify"
  /\ pc' = IF Verified THEN "verified" ELSE "differs"
  /\ UNCHANGED <<legacyVars, wVars, pVars, di, ci>>

Build == pc = "source" /\ LegacyNext /\ UNCHANGED <<wVars, pVars, pc, di, ci>>

ConvertNext == Build \/ read_legacy \/ build_worker \/ build_portal \/ verify

ConvertSpec == ConvertInit /\ [][ConvertNext]_convertVars

-----------------------------------------------------------------------------
(***************************************************************************)
(* Properties                                                              *)
(***************************************************************************)

\* ids agree with the chunks and the datasets they are filed under, and every
\* worker has headers to copy
Consistent ==
  /\ \A i \in DOMAIN Source.datasets : LET d == Source.datasets[i] IN
       /\ \A k \in DOMAIN d.chunks : id_of(d.chunks[k]) /\ d.chunks[k].dataset_id = d.id
       /\ d.last_block = Last(d.chunks).id.last
  /\ \A i \in DOMAIN Source.workers : Source.workers[i].headers # <<>>

\* the chunks of a dataset name one base url; the converter and `verify' look at
\* that of the first chunk only
OneBaseUrl ==
  \A i \in DOMAIN Source.datasets : LET chunks == Source.datasets[i].chunks IN
    \A k \in DOMAIN chunks : chunks[k].dataset_base_url = chunks[1].dataset_base_url

GapFree == \A i \in DOMAIN Source.datasets : Contiguous(Source.datasets[i].chunks)

OnlyGaps ==
  \A i \in DOMAIN Source.datasets : LET chunks == Source.datasets[i].chunks IN
    \A k \in 1..Len(chunks) - 1 : chunks[k].id.last < chunks[k + 1].first_block

\* "Gaps are legal in the source, and the new format carries each chunk's own
\* end, so a gap is no longer something a reader can misread"
\* (convert_assignment.rs:176): a consistent source whose chunks are in order
\* converts, with gaps between them or without.
GapsConvert == pc \in {"failed", "differs"} => ~(Consistent /\ OnlyGaps)

\* what a worker at a position has to hold, by the legacy assignment
LegacyHoldings(index) ==
  {LET c == get_chunk(Source, ref)[1]
   IN [url |-> <<c.dataset_base_url>>, id |-> c.id, size |-> c.size,
       tables |-> Range(Source.files[c.files]) \ {NotParquet}] :
     ref \in iter_chunks_with_ref(Source, index)}

WorkerHoldings(index) ==
  {LET c == W!get_chunk(blob[1], ref)[1]
   IN [url |-> W!chunk_url(blob[1], ref), id |-> Id(c), size |-> c.size, tables |-> c.tables] :
     ref \in W!iter_chunks_with_ref(blob[1], index)}

\* A consistent source without gaps converts: no call of either builder fails
\* on it, whichever tables its chunks have of the dataset's roster, and `verify'
\* finds no difference.  After a conversion that verified, a worker that looks
\* itself up decrypts the same headers as by the legacy assignment and, if the
\* chunks of a dataset name one base url, holds the same chunks, with the same
\* tables under the same urls; and a portal gets the same answer for every
\* block: the chunks do not move between workers, nor queries between chunks,
\* when a network switches formats.
ConversionExact ==
  /\ pc \in {"failed", "differs"} => ~(Consistent /\ GapFree)
  /\ pc = "verified" =>
       /\ \A id \in PeerIds :
            LET before == get_worker(Source, id)
                after == W!get_worker(blob[1].workers, id)
            IN /\ (before = <<>>) = (after = <<>>)
               /\ before # <<>> =>
                    /\ after[1].index = before[1].index
                    /\ OneBaseUrl =>
                         WorkerHoldings(after[1].index) = LegacyHoldings(before[1].index)
                    /\ decrypt_headers(after[1].entry.headers, id) = <<[worker_id |-> id]>>
       /\ \A i \in DOMAIN Source.datasets, block \in Blocks :
            LET id == Source.datasets[i].id
            IN P!find_chunk(id, block) = find_chunk(Source, id, block)
=============================================================================
