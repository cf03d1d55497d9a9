-------------------------- MODULE LegacyAssignment --------------------------
(***************************************************************************)
(* The assignment that workers and portals still share: AssignmentBuilder  *)
(* with its ChunkBuilder (crates/assignments/src/builder.rs), and what     *)
(* Assignment reads back (reader.rs, assignment_fb.rs).  A chunk carries   *)
(* its first block only; its last block is in its id.  The setters of a    *)
(* ChunkBuilder only fill the argument of `finish', so a chunk is built in *)
(* one step.  Dataset ids and peer ids are numbers, in their order.        *)
(***************************************************************************)
EXTENDS AssignmentColumns, SequencesExt

CONSTANTS
  Chunks,           \* what the setters of a ChunkBuilder are given
  PeerIds, Statuses,
  Encryptable,      \* the peer ids headers can be encrypted for
  Blocks,           \* the blocks a portal asks for
  Timestamps,       \* the timestamps a portal asks for
  MaxDatasets, MaxChunks  \* bound the assignment

VARIABLES
  check_continuity, legacy_last_block, current_chunks, current_dataset_id, legacy_datasets,
  worker_assignments,
  files_list_offsets,  \* where a list of files was written
  file_lists,          \* the lists of files in the buffer
  legacy               \* what `finish' returned, <<>> before

lists == <<files_list_offsets, file_lists>>
legacyVars ==
  <<check_continuity, legacy_last_block, current_chunks, current_dataset_id, legacy_datasets,
    worker_assignments, lists, legacy>>

LegacyInit ==
  /\ check_continuity \in BOOLEAN
  /\ legacy_last_block = None /\ current_chunks = <<>> /\ current_dataset_id = None
  /\ legacy_datasets = <<>> /\ worker_assignments = <<>>
  /\ files_list_offsets = [files \in {} |-> 0] /\ file_lists = <<>>
  /\ legacy = <<>>

-----------------------------------------------------------------------------
(***************************************************************************)
(* The builder                                                             *)
(***************************************************************************)

\* mutant: a list is looked up by its length
CacheFilesByLength(files) ==
  LET same == {known \in DOMAIN files_list_offsets : Len(known) = Len(files)} IN
  IF same # {}
  THEN /\ files_list_offsets' = [known \in DOMAIN files_list_offsets \cup {files} |->
                                   files_list_offsets[IF known = files THEN CHOOSE s \in same : TRUE ELSE known]]
       /\ UNCHANGED file_lists
  ELSE /\ file_lists' = Append(file_lists, files)
       /\ files_list_offsets' = [known \in DOMAIN files_list_offsets \cup {files} |->
                                   IF known = files THEN Len(file_lists) + 1 ELSE files_list_offsets[known]]

\* a list of files is written once
cache_files_list(files) ==
  IF files \in DOMAIN files_list_offsets
  THEN UNCHANGED lists
  ELSE /\ file_lists' = Append(file_lists, files)
       /\ files_list_offsets' = [known \in DOMAIN files_list_offsets \cup {files} |->
                                   IF known = files THEN Len(file_lists) + 1 ELSE files_list_offsets[known]]

\* mutant: a refused chunk moves last_block
AddChunkMoves(chunk, dataset_id, range) ==
  /\ legacy_last_block' = range.last
  /\ IF BreaksContinuity(legacy_last_block, range.first) /\ check_continuity
     THEN UNCHANGED <<current_chunks, current_dataset_id>>
     ELSE current_chunks' = Append(current_chunks, chunk) /\ current_dataset_id' = dataset_id

\* With check_continuity off, a gap still appends and only reports.
add_chunk(chunk, dataset_id, range) ==
  IF BreaksContinuity(legacy_last_block, range.first) /\ check_continuity
  THEN UNCHANGED <<legacy_last_block, current_chunks, current_dataset_id>>
  ELSE /\ legacy_last_block' = range.last
       /\ current_chunks' = Append(current_chunks, chunk)
       /\ current_dataset_id' = dataset_id

Built == Len(current_chunks) + FoldSeq(LAMBDA d, n : n + Len(d.chunks), 0, legacy_datasets)

\* new_chunk, the setters and finish
NewChunk(in) ==
  /\ legacy = <<>> /\ Built < MaxChunks
  /\ cache_files_list(in.files)
  /\ add_chunk(
       [id |-> in.id, first_block |-> in.range.first, dataset_id |-> in.dataset_id, size |-> in.size,
        last_block_hash |-> in.last_block_hash, last_block_timestamp |-> in.last_block_timestamp,
        dataset_base_url |-> in.dataset_base_url, files |-> files_list_offsets'[in.files],
        worker_indexes |-> in.worker_indexes],
       in.dataset_id, in.range)
  /\ UNCHANGED <<check_continuity, legacy_datasets, worker_assignments, legacy>>

\* `expect' panics if no chunk was added
finish_dataset ==
  /\ legacy = <<>> /\ Len(legacy_datasets) < MaxDatasets
  /\ legacy_last_block # None
  /\ legacy_datasets' = Append(legacy_datasets,
       [id |-> current_dataset_id, chunks |-> current_chunks, last_block |-> legacy_last_block])
  /\ legacy_last_block' = None /\ current_chunks' = <<>> /\ current_dataset_id' = None
  /\ UNCHANGED <<check_continuity, worker_assignments, lists, legacy>>

\* fails for a peer id whose key is not ed25519
encrypt_with_rng(id, plaintext) == IF id \in Encryptable THEN <<[to |-> id, text |-> plaintext]>> ELSE <<>>

\* the plaintext names the worker; the entry has no headers if it cannot be encrypted
generate_encrypted_headers(id) == encrypt_with_rng(id, [worker_id |-> id])

\* the timestamp only salts the headers
add_worker_with_timestamp(id, status) ==
  /\ legacy = <<>>
  /\ CanAddWorker(worker_assignments, id)
  /\ worker_assignments' =
       Append(worker_assignments, [id |-> id, status |-> status, headers |-> generate_encrypted_headers(id)])
  /\ UNCHANGED <<check_continuity, legacy_last_block, current_chunks, current_dataset_id, legacy_datasets,
                 lists, legacy>>

\* chunks of a dataset that was not finished are not part of the assignment
LegacyFinish ==
  /\ legacy = <<>>
  /\ legacy' = <<[datasets |-> legacy_datasets, workers |-> worker_assignments, files |-> file_lists]>>
  /\ UNCHANGED <<check_continuity, legacy_last_block, current_chunks, current_dataset_id, legacy_datasets,
                 worker_assignments, lists>>

LegacyNext ==
  \/ \E in \in Chunks : NewChunk(in)
  \/ finish_dataset
  \/ \E id \in PeerIds, status \in Statuses : add_worker_with_timestamp(id, status)
  \/ LegacyFinish

-----------------------------------------------------------------------------
(***************************************************************************)
(* The reader                                                              *)
(***************************************************************************)

\* a dataset without an id cannot be looked up
get_dataset(assignment, id) ==
  LET index == lookup_index_by_key([i \in DOMAIN assignment.datasets |-> assignment.datasets[i].id], id)
  IN IF index = None THEN <<>> ELSE <<assignment.datasets[index + 1]>>

last_block_hash(dataset) == Last(dataset.chunks).last_block_hash

get_worker_by_index(assignment, index) == [entry |-> assignment.workers[index + 1], index |-> index]

get_worker(assignment, id) ==
  LET index == lookup_index_by_key([i \in DOMAIN assignment.workers |-> assignment.workers[i].id], id)
  IN IF index = None THEN <<>> ELSE <<get_worker_by_index(assignment, index)>>

\* with the worker's own key; <<>> stands for an error
decrypt_headers(headers, id) ==
  IF headers = <<>> \/ headers[1].to # id THEN <<>> ELSE <<headers[1].text>>

get_chunk(assignment, ref) ==
  IF ref.dataset_index >= Len(assignment.datasets) THEN <<>>
  ELSE LET chunks == assignment.datasets[ref.dataset_index + 1].chunks
       IN IF ref.chunk_index >= Len(chunks) THEN <<>> ELSE <<chunks[ref.chunk_index + 1]>>

iter_chunks_with_ref(assignment, worker_index) ==
  UNION {{[dataset_index |-> d - 1, chunk_index |-> c - 1] :
            c \in {k \in DOMAIN assignment.datasets[d].chunks :
                     worker_index \in Range(assignment.datasets[d].chunks[k].worker_indexes)}} :
         d \in DOMAIN assignment.datasets}

\* an element that equals the key, or else the last one below it; both -1 and
\* the length are outside of the sequence, 0 is its first index
binary_search_by(keys, key) ==
  LET search[left \in -1..Len(keys), right \in -1..Len(keys)] ==
        LET mid == (left + right) \div 2 IN
        IF left + 1 >= right THEN [equal |-> FALSE, index |-> left]
        ELSE IF keys[mid + 1] < key THEN search[mid, right]
        ELSE IF keys[mid + 1] > key THEN search[left, mid]
        ELSE [equal |-> TRUE, index |-> mid]
  IN search[-1, Len(keys)]

find_chunk(assignment, id, block) ==
  IF get_dataset(assignment, id) = <<>> THEN <<"UnknownDataset">>
  ELSE LET d == get_dataset(assignment, id)[1]
           found == binary_search_by([i \in DOMAIN d.chunks |-> d.chunks[i].first_block], block)
       IN IF block > d.last_block THEN <<"AfterLast">>
          ELSE IF found.index = None THEN <<"BeforeFirst">> ELSE <<"Ok", found.index>>

\* mutant: the walk to the first of several equal timestamps is left out
FindByTimestampAny(assignment, id, ts) ==
  IF get_dataset(assignment, id) = <<>> THEN <<"UnknownDataset">>
  ELSE LET chunks == get_dataset(assignment, id)[1].chunks
           Stamp(i) == chunks[i].last_block_timestamp
           found == binary_search_by([i \in DOMAIN chunks |-> IF Stamp(i) = None THEN 0 ELSE Stamp(i)], ts)
           index == IF found.equal THEN found.index ELSE found.index + 1
       IN IF index = Len(chunks) THEN <<"AfterLast">> ELSE <<"Ok", index>>

\* a missing timestamp counts as 0 in the search, and as none in the walk back
\* over equal ones
find_chunk_by_timestamp(assignment, id, ts) ==
  IF get_dataset(assignment, id) = <<>> THEN <<"UnknownDataset">>
  ELSE LET chunks == get_dataset(assignment, id)[1].chunks
           Stamp(i) == chunks[i].last_block_timestamp
           found == binary_search_by([i \in DOMAIN chunks |-> IF Stamp(i) = None THEN 0 ELSE Stamp(i)], ts)
           index == IF found.equal THEN found.index ELSE found.index + 1
           others == {i \in 0..index : Stamp(i + 1) # ts}
       IN IF index = Len(chunks) THEN <<"AfterLast">>
          ELSE IF Stamp(index + 1) # ts THEN <<"Ok", index>>
          ELSE <<"Ok", IF others = {} THEN 0 ELSE Max(others) + 1>>

-----------------------------------------------------------------------------
(***************************************************************************)
(* Properties                                                              *)
(***************************************************************************)

Ascending(s) == \A i \in 1..Len(s) - 1 : s[i] < s[i + 1]
NeverFalling(s) == \A i \in 1..Len(s) - 1 : s[i] <= s[i + 1]

\* the range of a chunk, by its id
Holds(chunk, block) == chunk.first_block <= block /\ block <= chunk.id.last

\* what a reader should find, in a dataset without gaps
BlockAnswer(chunks, block) ==
  IF \E k \in DOMAIN chunks : Holds(chunks[k], block)
  THEN <<"Ok", (CHOOSE k \in DOMAIN chunks : Holds(chunks[k], block)) - 1>>
  ELSE IF block < chunks[1].first_block THEN <<"BeforeFirst">> ELSE <<"AfterLast">>

TimestampAnswer(stamps, ts) ==
  LET later == {k \in DOMAIN stamps : stamps[k] >= ts}
  IN IF later = {} THEN <<"AfterLast">> ELSE <<"Ok", Min(later) - 1>>

Contiguous(chunks) == \A k \in 1..Len(chunks) - 1 : chunks[k].id.last + 1 = chunks[k + 1].first_block

\* find_chunk returns the chunk whose range holds the block, although chunks
\* carry no end: without gaps the next chunk's start stands for it, and a
\* builder that checks continuity leaves none, however many chunks it refused.
\* find_chunk_by_timestamp returns the first chunk at or after a timestamp,
\* where the binary search may meet any of several equal ones.  What is found
\* has the files its builder was given, though lists of files are shared.
LegacyFindsExact ==
  legacy # <<>> /\ Ascending([i \in DOMAIN legacy_datasets |-> legacy_datasets[i].id]) =>
    \A i \in DOMAIN legacy_datasets :
      LET d == legacy_datasets[i]
          stamps == [k \in DOMAIN d.chunks |-> d.chunks[k].last_block_timestamp]
      IN /\ \A k \in DOMAIN d.chunks : \E in \in Chunks :
              /\ in.id = d.chunks[k].id /\ in.range.first = d.chunks[k].first_block
              /\ in.dataset_id = d.chunks[k].dataset_id
              /\ in.files = legacy[1].files[d.chunks[k].files]
         /\ (\A k \in DOMAIN d.chunks : d.chunks[k].id.first = d.chunks[k].first_block) =>
              /\ check_continuity => Contiguous(d.chunks)
              /\ Contiguous(d.chunks) =>
                   \A block \in Blocks : find_chunk(legacy[1], d.id, block) = BlockAnswer(d.chunks, block)
              /\ NeverFalling(stamps) /\ None \notin Range(stamps) =>
                   \A ts \in Timestamps :
                     find_chunk_by_timestamp(legacy[1], d.id, ts) = TimestampAnswer(stamps, ts)
=============================================================================
