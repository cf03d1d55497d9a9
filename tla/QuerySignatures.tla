--------------------------- MODULE QuerySignatures --------------------------
(***************************************************************************)
(* What the signatures of queries and of their results cover               *)
(* (crates/messages/src/signatures.rs).  A portal signs a query for a      *)
(* worker; the worker signs its result, which covers a hash of the data;   *)
(* the portal reports a summary of the result, with the worker's           *)
(* signature, to a logs collector, and the worker reports the query, with  *)
(* the portal's.  Strings and keys are sequences of bytes.  A byte, a      *)
(* number and a fixed-length field are shorter here; they keep a fixed     *)
(* length.                                                                 *)
(***************************************************************************)
EXTENDS Naturals, Sequences

CONSTANTS
  Base,         \* values of a byte
  Client,       \* the key of the portal
  WorkerKeys,   \* the keys of workers
  Queries,      \* the fields of queries
  Results       \* the fields of results: query_id and an Option `result'

\* the fields of query.proto; an optional field is a sequence of at most one
QueryType ==
  [query_id : Seq(Nat), request_id : Seq(Nat), dataset : Seq(Nat), query : Seq(Nat),
   chunk_id : Seq(Nat), timestamp_ms : Nat, block_range : Seq([begin : Nat, end : Nat]),
   query_engine : Nat, output_format : Nat]

ResultType ==
  [query_id : Seq(Nat),
   result : Seq([ok : {TRUE}, data : Nat, last_block : Nat] \cup [ok : {FALSE}, code : Nat])]

ASSUME SignatureAssumption ==
  /\ Base \in Nat /\ Base >= 1
  /\ WorkerKeys \subseteq Seq(Nat)
  /\ Queries \subseteq QueryType /\ \A q \in Queries : Len(q.block_range) <= 1
  /\ Results \subseteq ResultType /\ \A r \in Results : Len(r.result) <= 1

VARIABLES
  stage,            \* "query", "result", "summary", "done" or "invalid"
  query, worker,    \* what was signed, and for whom
  query_signature,
  query_result, result_signature,
  finished          \* QueryFinished

queryVars == <<stage, query, worker, query_signature, query_result, result_signature, finished>>

UUID_V4_SIZE == 1   \* 36 in the code
SHA3_256_SIZE == 2  \* 32 in the code

\* u32, u64, in two bytes
to_le_bytes(n) == <<n % Base, n \div Base>>

\* collision-free
sha3_256(data) == to_le_bytes(data)

\* PeerId::to_bytes: a multihash, which begins with its length
PeerBytes(key) == <<Len(key)>> \o key

\* a signature is what was signed, and by whom
sign(msg, key) == [key |-> key, msg |-> msg]
verify(key, msg, signature) == msg # <<>> /\ signature = sign(msg, key)

\* a field of variable length, behind its length
Prefixed(s) == to_le_bytes(Len(s)) \o s

\* mutant: no lengths
Unprefixed(q, w) ==
  IF Len(q.query_id) # UUID_V4_SIZE \/ q.query_engine >= Base \/ q.output_format >= Base
  THEN <<>>
  ELSE q.query_id \o PeerBytes(w) \o to_le_bytes(q.timestamp_ms)
       \o q.dataset \o q.query \o q.chunk_id
       \o (IF q.block_range = <<>> THEN <<>>
           ELSE to_le_bytes(q.block_range[1].begin) \o to_le_bytes(q.block_range[1].end))
       \o (IF q.query_engine = 0 /\ q.output_format = 0 THEN <<>>
           ELSE <<0, q.query_engine, q.output_format>>)

\* Query::msg_to_sign, <<>> for None
QueryMsg(q, w) ==
  IF Len(q.query_id) # UUID_V4_SIZE \/ q.query_engine >= Base \/ q.output_format >= Base
  THEN <<>>
  ELSE q.query_id \o PeerBytes(w) \o to_le_bytes(q.timestamp_ms)
       \o Prefixed(q.dataset) \o Prefixed(q.query) \o Prefixed(q.chunk_id)
       \o (IF q.block_range = <<>> THEN <<>>
           ELSE to_le_bytes(q.block_range[1].begin) \o to_le_bytes(q.block_range[1].end))
       \o (IF q.query_engine = 0 /\ q.output_format = 0 THEN <<>>
           ELSE (IF q.block_range = <<>> THEN <<0>> ELSE <<>>)
                \o <<q.query_engine, q.output_format>>)

msg_to_sign_query_ok(query_id, data_hash, last_block) ==
  IF Len(data_hash) # SHA3_256_SIZE \/ Len(query_id) # UUID_V4_SIZE THEN <<>>
  ELSE query_id \o data_hash \o to_le_bytes(last_block)

\* the text of an error is not signed
msg_to_sign_query_err(query_id, code) ==
  IF Len(query_id) # UUID_V4_SIZE THEN <<>> ELSE query_id \o <<code>>

\* QueryResult::msg_to_sign; an error without a kind has the code 0
ResultMsg(r) ==
  IF r.result = <<>> THEN <<>>
  ELSE IF r.result[1].ok
  THEN msg_to_sign_query_ok(r.query_id, sha3_256(r.result[1].data), r.result[1].last_block)
  ELSE IF r.result[1].code = 0 THEN <<>>
  ELSE msg_to_sign_query_err(r.query_id, r.result[1].code)

\* mutant: the hash of the summary is left empty
SummaryWithoutHash(r, worker_id, signature) ==
  [worker_id |-> worker_id, query_id |-> r.query_id, worker_signature |-> signature,
   result |-> IF r.result = <<>> \/ ~r.result[1].ok THEN r.result
              ELSE <<[ok |-> TRUE, data_hash |-> <<>>, last_block |-> r.result[1].last_block]>>]

\* QueryFinished::new
Summary(r, worker_id, signature) ==
  [worker_id |-> worker_id, query_id |-> r.query_id, worker_signature |-> signature,
   result |-> IF r.result = <<>> \/ ~r.result[1].ok THEN r.result
              ELSE <<[ok |-> TRUE, data_hash |-> sha3_256(r.result[1].data),
                      last_block |-> r.result[1].last_block]>>]

\* QueryFinished::verify_signature
SummaryVerifies(f) ==
  /\ f.result # <<>>
  /\ verify(f.worker_id,
            IF f.result[1].ok THEN msg_to_sign_query_ok(f.query_id, f.result[1].data_hash, f.result[1].last_block)
            ELSE IF f.result[1].code = 0 THEN <<>>
            ELSE msg_to_sign_query_err(f.query_id, f.result[1].code),
            f.worker_signature)

\* QueryExecuted::verify_client_signature, of a record with the query and the
\* client's id
verify_client_signature(q, client_id, signature, w) == verify(client_id, QueryMsg(q, w), signature)

-----------------------------------------------------------------------------
Nothing == <<>>

QueryInit ==
  /\ stage = "query"
  /\ query = Nothing /\ worker = Nothing /\ query_signature = Nothing
  /\ query_result = Nothing /\ result_signature = Nothing /\ finished = Nothing

SignQuery(q, w) ==
  /\ stage = "query"
  /\ query' = q /\ worker' = w
  /\ IF QueryMsg(q, w) = <<>>
     THEN stage' = "invalid" /\ UNCHANGED query_signature
     ELSE stage' = "result" /\ query_signature' = sign(QueryMsg(q, w), Client)
  /\ UNCHANGED <<query_result, result_signature, finished>>

SignResult(r) ==
  /\ stage = "result" /\ r.query_id = query.query_id
  /\ query_result' = r
  /\ IF ResultMsg(r) = <<>>
     THEN stage' = "invalid" /\ UNCHANGED result_signature
     ELSE stage' = "summary" /\ result_signature' = sign(ResultMsg(r), worker)
  /\ UNCHANGED <<query, worker, query_signature, finished>>

Summarize ==
  /\ stage = "summary"
  /\ stage' = "done"
  /\ finished' = Summary(query_result, worker, result_signature)
  /\ UNCHANGED <<query, worker, query_signature, query_result, result_signature>>

QueryNext ==
  \/ \E q \in Queries, w \in WorkerKeys : SignQuery(q, w)
  \/ \E r \in Results : SignResult(r)
  \/ Summarize

QuerySpec == QueryInit /\ [][QueryNext]_queryVars

-----------------------------------------------------------------------------
(***************************************************************************)
(* Properties                                                              *)
(***************************************************************************)

\* the fields of a query but for the ones the signature leaves out; compression
\* and chunk_version are left out too, and are no fields here
Signed(q) == [q EXCEPT !.request_id = Nothing]

\* "covers all the above fields + worker's peer ID" (messages.proto:43): a
\* query with another query_id, dataset, request_id, query, block_range,
\* chunk_id or timestamp_ms than the signed one does not verify.
SignatureCoversAbove ==
  stage = "result" =>
    \A q \in Queries : verify(Client, QueryMsg(q, worker), query_signature) =>
      /\ q.query_id = query.query_id /\ q.dataset = query.dataset /\ q.request_id = query.request_id
      /\ q.query = query.query /\ q.block_range = query.block_range
      /\ q.chunk_id = query.chunk_id /\ q.timestamp_ms = query.timestamp_ms

\* "No two queries should have the same encoding" (signatures.rs:52): the
\* signature of a query verifies with a query and a worker only if they are
\* the ones that were signed, up to request_id, although a range, an engine
\* and a format are optional and only told apart by the bytes that follow the
\* last length; and the worker's record of the query verifies as it does.
\* "signs `query_id`, data hash and `last_block`" (messages.proto:74): the
\* portal's summary verifies with the worker's signature at the logs collector,
\* which never sees the data; the summary of another result, an error in the
\* place of data included, or under another worker's name does not.
SignaturesBind ==
  /\ stage = "result" =>
       \A q \in Queries, w \in WorkerKeys :
         verify_client_signature(q, Client, query_signature, w) <=> Signed(q) = Signed(query) /\ w = worker
  /\ stage = "done" =>
       /\ SummaryVerifies(finished)
       /\ \A r \in Results, w \in WorkerKeys :
            SummaryVerifies(Summary(r, w, result_signature)) <=> r = query_result /\ w = worker
=============================================================================
