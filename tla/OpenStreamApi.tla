--------------------------- MODULE OpenStreamApi ---------------------------
(***************************************************************************)
(* What Control::open_stream (crates/transport/src/libp2p_stream) promises *)
(* its callers, without channels, dials and handlers: a call is rejected   *)
(* at once or stays open until it gets a stream, fails or is cancelled.    *)
(***************************************************************************)
EXTENDS FiniteSets

CONSTANTS Peers, Requests, None

VARIABLES
  calls,      \* the progress of each call
  target,     \* the peer each call names
  connected   \* the peers with a live connection

vars == <<calls, target, connected>>

Init ==
  /\ calls = [r \in Requests |-> "idle"]
  /\ target = [r \in Requests |-> None]
  /\ connected = {}

Call(r, p) ==
  /\ calls[r] = "idle"
  /\ target' = [target EXCEPT ![r] = p]
  /\ \E status \in {"open", "err"} : calls' = [calls EXCEPT ![r] = status]
  /\ UNCHANGED connected

\* a stream of a connected peer
Succeed(r) ==
  /\ calls[r] = "open" /\ target[r] \in connected
  /\ calls' = [calls EXCEPT ![r] = "ok"]
  /\ UNCHANGED <<target, connected>>

Cancel(r) ==
  /\ calls[r] = "open"
  /\ calls' = [calls EXCEPT ![r] = "cancelled"]
  /\ UNCHANGED <<target, connected>>

\* connections come and go, and with them any number of open calls fail
Change ==
  /\ connected' \in SUBSET Peers
  /\ \E R \in SUBSET {r \in Requests : calls[r] = "open"} :
       calls' = [r \in Requests |-> IF r \in R THEN "err" ELSE calls[r]]
  /\ UNCHANGED target

Next ==
  \/ \E r \in Requests : (\E p \in Peers : Call(r, p)) \/ Succeed(r) \/ Cancel(r)
  \/ Change

Spec == Init /\ [][Next]_vars

\* every call ends
Ends(r) == Next /\ calls[r] = "open" /\ calls'[r] # "open"

FairSpec == Spec /\ \A r \in Requests : WF_vars(Ends(r))
=============================================================================
