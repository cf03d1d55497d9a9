--------------------------- MODULE StreamSharedApi ---------------------------
(***************************************************************************)
(* StreamShared implements OpenStreamApi: a call that is being sent or     *)
(* waits for its answer is open, and a peer is connected while one of its  *)
(* connections has a live handler.                                         *)
(***************************************************************************)
EXTENDS StreamShared

Api == INSTANCE OpenStreamApi WITH
         calls <- [r \in Requests |-> IF Waiting(r) THEN "open" ELSE state[r]],
         connected <- {p \in Peers : \E c \in Conns :
                                       established[c] = p /\ receiver_of[c] # None}

\* Shared, the handlers and the swarm together implement the promise of
\* open_stream (OpenStreamApi): a call gives a stream only of a peer with a
\* live connection at that moment, returns once, and always returns.
ImplementsApi == Api!FairSpec
=============================================================================
