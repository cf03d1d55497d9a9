---------------------------- MODULE MCAssignments ---------------------------
(***************************************************************************)
(* The three formats of assignments for TLC.  A behaviour builds a worker  *)
(* assignment, or a portal assignment, by any calls of its builder, or a   *)
(* legacy one which is then converted.                                     *)
(***************************************************************************)
EXTENDS ConvertAssignment

DataChunk(top, first, last, hash_) == [top |-> top, first |-> first, last |-> last, hash |-> hash_]

Legacy(dataset_id, id, ts, hash_, files, workers) ==
  [id |-> id, range |-> [first |-> id.first, last |-> id.last], dataset_id |-> dataset_id,
   size |-> 7 + id.first, last_block_hash |-> hash_, last_block_timestamp |-> ts,
   dataset_base_url |-> IF dataset_id = 1 THEN "b1" ELSE "b2", files |-> files,
   worker_indexes |-> workers]

\* equal and missing timestamps, tables in any order, twice, and next to other
\* files, a gap between 1 and 3, an id that disagrees with its range, and a chunk
\* under another base url than the rest of its dataset
MCChunks == {
  Legacy(1, DataChunk(0, 0, 1, <<1, 2>>), 5, <<"h1">>, <<2, 1>>, <<0, 1>>),
  Legacy(1, DataChunk(2, 2, 2, <<1, 2, 3>>), 5, <<>>, <<2, 9, 2>>, <<1>>),
  [Legacy(1, DataChunk(0, 3, 5, <<2>>), 7, <<"h3">>, <<9, 3>>, <<0>>) EXCEPT !.dataset_base_url = "b2"],
  Legacy(2, DataChunk(0, 0, 1, <<1>>), None, <<>>, <<1>>, <<1>>),
  [Legacy(1, DataChunk(2, 2, 2, <<1>>), 5, <<>>, <<1>>, <<0>>) EXCEPT !.range.first = 1]}

\* tops that fall again, hashes of different lengths, a gap, and an id that
\* disagrees with its range
WorkerInputs == {
  [id |-> DataChunk(0, 0, 1, <<1, 2>>), first |-> 0, last |-> 1, size |-> 7],
  [id |-> DataChunk(2, 2, 2, <<1, 2, 3>>), first |-> 2, last |-> 2, size |-> 8],
  [id |-> DataChunk(0, 3, 5, <<2>>), first |-> 3, last |-> 5, size |-> 7],
  [id |-> DataChunk(2, 2, 2, <<1>>), first |-> 2, last |-> 3, size |-> 7]}

\* a roster in two bytes of BITS = 2, and an unsorted one; neither two lists of
\* two workers nor two such bitmaps fit in the offsets
FreeWorker == INSTANCE WorkerAssignment WITH
  U32Max <- 3, CheckContinuity <- TRUE, DatasetIds <- {1}, DatasetUrls <- {"b"}, BaseUrls <- {"p"},
  Versions <- {1}, WriteSchemaIds <- {1, 2}, Rosters <- {<<1, 2, 3>>, <<2, 1>>},
  TableLists <- {<<2, 3>>, <<3, 2>>}, WorkerLists <- {<<0, 1>>, <<1>>}, PeerIds <- {1, 2},
  ChunkInputs <- WorkerInputs, MaxChunks <- 2

\* as above, with equal and missing timestamps
PortalChunkInput(id, v, ts) ==
  [id |-> id, first |-> id.first, last |-> id.last, version |-> v, timestamp |-> ts]

PortalInputs == {
  PortalChunkInput(DataChunk(0, 0, 1, <<1, 2>>), 0, 5),
  PortalChunkInput(DataChunk(3, 3, 3, <<1, 2, 3>>), 1, 5),
  PortalChunkInput(DataChunk(0, 4, 5, <<2>>), 0, 7),
  PortalChunkInput(DataChunk(4, 4, 5, <<2>>), 0, 0),
  [PortalChunkInput(DataChunk(2, 2, 2, <<1>>), 0, 5) EXCEPT !.last = 3]}

\* three lists of two workers do not fit in the offsets
FreePortal == INSTANCE PortalAssignment WITH
  U32Max <- 5, CheckContinuity <- FALSE, DatasetIds <- {1, 2}, ReadSchemaIds <- {1}, LastBlockHashes <- {"h"},
  WorkerLists <- {<<0, 1>>}, PeerIds <- {1, 2}, ChunkInputs <- PortalInputs,
  last_block <- p_last_block, all_datasets <- p_all_datasets, columns <- p_columns,
  worker_entries <- p_worker_entries, staged_worker_indexes <- p_staged_worker_indexes,
  dataset <- p_dataset, chunk <- p_chunk, blob <- p_blob, rows <- p_rows, expected <- p_expected

\* what the proofs about the assignments assume of the calls
ASSUME CallsAssumption == FreeWorker!WorkerCalls /\ FreePortal!PortalCalls

Init ==
  /\ LegacyInit /\ W!Init /\ P!Init /\ di = 1 /\ ci = 1
  /\ pc \in {"source", "worker", "portal"}
  /\ pc # "source" => check_continuity

Next ==
  \/ ConvertNext
  \/ pc = "worker" /\ FreeWorker!Next /\ UNCHANGED <<legacyVars, pVars, pc, di, ci>>
  \/ pc = "portal" /\ FreePortal!Next /\ UNCHANGED <<legacyVars, wVars, pc, di, ci>>

Spec == Init /\ [][Next]_convertVars

\* A worker accepts an assignment whose offsets fit and reads back the chunks
\* its builder took, also when the builder is driven by the conversion
\* (WorkerAssignment.RoundTrip); with check_continuity, without a gap or
\* overlap, however many chunks were refused (WorkerAssignment.Contiguous).
WorkerRoundTrip ==
  IF pc = "worker" THEN FreeWorker!RoundTrip /\ FreeWorker!Contiguous ELSE W!RoundTrip

\* A worker that was added holds the chunks that name its position, and no
\* others (WorkerAssignment.HoldingsExact), under the prefixes registered in
\* their own dataset (WorkerAssignment.GenerationsScoped).
WorkerHoldingsExact == FreeWorker!HoldingsExact /\ FreeWorker!GenerationsScoped

\* A portal accepts an assignment whose offsets fit and reads back the chunks
\* its builder took (PortalAssignment.RoundTrip).
PortalRoundTrip == FreePortal!RoundTrip

\* A portal finds the chunk of every block, and the first chunk at or after
\* every timestamp (PortalAssignment.FindsExact).
PortalFindsExact == FreePortal!FindsExact
=============================================================================
