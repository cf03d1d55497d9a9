----------------------- MODULE RequestResponseProofs -----------------------
(***************************************************************************)
(* Proofs about RequestResponse, for any number of calls and handles, any  *)
(* limits and any capacity of the worker's queues: permits are conserved,  *)
(* a stream has one owner, and a call that succeeds was answered.          *)
(***************************************************************************)
EXTENDS RequestResponse, FiniteSetTheorems, TLAPS

-----------------------------------------------------------------------------
(***************************************************************************)
(* Queues kept in sequences (VecDeque, DelayQueue, channels)               *)
(***************************************************************************)

\* Pushing to the back of a queue adds the element and keeps the queue free
\* of duplicates if the element was not in it (push_back, DelayQueue::insert).
LEMMA AppendFacts ==
  ASSUME NEW S, NEW s \in Seq(S), NEW x \in S
  PROVE  /\ Append(s, x) \in Seq(S)
         /\ Range(Append(s, x)) = Range(s) \cup {x}
         /\ IsInjective(s) /\ x \notin Range(s) => IsInjective(Append(s, x))
<1>1. Append(s, x) \in Seq(S)
  OBVIOUS
<1>2. /\ Len(s) \in Nat /\ DOMAIN s = 1..Len(s)
      /\ DOMAIN Append(s, x) = 1..(Len(s) + 1)
      /\ \A i \in 1..Len(s) : Append(s, x)[i] = s[i]
      /\ Append(s, x)[Len(s) + 1] = x
  OBVIOUS
<1>3. Range(Append(s, x)) = Range(s) \cup {x}
  <2>1. Len(s) + 1 \in DOMAIN Append(s, x) /\ DOMAIN s \subseteq DOMAIN Append(s, x)
    BY <1>2
  <2>2. \A i \in DOMAIN Append(s, x) : i \in DOMAIN s \/ i = Len(s) + 1
    BY <1>2
  <2> QED
    BY <1>2, <2>1, <2>2 DEF Range
<1>4. ASSUME IsInjective(s), x \notin Range(s)
      PROVE  IsInjective(Append(s, x))
  BY <1>2, <1>4 DEF Range, IsInjective
<1> QED
  BY <1>1, <1>3, <1>4

\* Taking the front of a queue removes that element and no other (pop_front,
\* poll_expired).
LEMMA TailFacts ==
  ASSUME NEW S, NEW s \in Seq(S), s # <<>>
  PROVE  /\ Tail(s) \in Seq(S)
         /\ Head(s) \in S
         /\ Range(s) = {Head(s)} \cup Range(Tail(s))
         /\ IsInjective(s) => IsInjective(Tail(s)) /\ Head(s) \notin Range(Tail(s))
<1>1. Tail(s) \in Seq(S) /\ Head(s) \in S
  OBVIOUS
<1>2. /\ Len(s) \in Nat \ {0}
      /\ DOMAIN s = 1..Len(s)
      /\ DOMAIN Tail(s) = 1..(Len(s) - 1)
      /\ \A i \in 1..(Len(s) - 1) : Tail(s)[i] = s[i + 1]
      /\ Head(s) = s[1]
  OBVIOUS
<1>3. Range(s) = {Head(s)} \cup Range(Tail(s))
  <2>1. ASSUME NEW i \in 1..Len(s)
        PROVE  s[i] \in {Head(s)} \cup Range(Tail(s))
    <3>1. CASE i = 1
      BY <1>2, <3>1
    <3>2. CASE i # 1
      <4>1. i - 1 \in 1..(Len(s) - 1) /\ Tail(s)[i - 1] = s[i]
        BY <1>2, <3>2
      <4> QED
        BY <4>1, <1>2, Zenon DEF Range
    <3> QED
      BY <3>1, <3>2
  <2>2. ASSUME NEW i \in 1..(Len(s) - 1)
        PROVE  Tail(s)[i] \in Range(s)
    BY <1>2 DEF Range
  <2>3. Head(s) \in Range(s)
    BY <1>2 DEF Range
  <2> QED
    BY <2>1, <2>2, <2>3, <1>2 DEF Range
<1>4. ASSUME IsInjective(s)
      PROVE  IsInjective(Tail(s)) /\ Head(s) \notin Range(Tail(s))
  BY <1>2, <1>4 DEF IsInjective, Range
<1> QED
  BY <1>1, <1>3, <1>4

-----------------------------------------------------------------------------
\* the calls that hold a permit of h
HoldersOf(h) == {r \in Calls : handle[r] = h /\ Holds(r)}

\* TypeOK without the upper bound of permits and the lengths of the queues
Types ==
  /\ permits \in [Handles -> Nat]
  /\ handle \in [Calls -> Handles \cup {None}]
  /\ client \in [Calls -> {"idle", "permit", "opening", "writing", "reading", "ok", "err"}]
  /\ req_size \in [Calls -> Sizes] /\ resp_size \in [Calls -> Sizes]
  /\ up \in [Calls -> Direction] /\ down \in [Calls -> Direction]
  /\ arriving \subseteq Calls /\ reading \subseteq Calls
  /\ handling \subseteq Calls /\ responding \subseteq Calls
  /\ incoming \in Seq(Calls) /\ requests \in Seq(Calls) /\ events \in Seq(Calls)
  /\ sent \in [Calls -> {"none", "ok", "err"}]

QueuesBounded ==
  /\ Len(incoming) <= IncomingCapacity + 1
  /\ Len(requests) <= RequestsQueueSize
  /\ Len(events) <= EventsQueueSize

\* a call that was made knows its handle
HandleKnown == \A r \in Calls : client[r] # "idle" => handle[r] \in Handles

\* the worker holds r somewhere
Owned(r) ==
  \/ r \in arriving \/ r \in Range(incoming) \/ r \in reading \/ r \in Range(requests)
  \/ r \in Range(events) \/ r \in handling \/ r \in responding

\* the seven places are disjoint, and no queue holds a stream twice
OneOwner ==
  /\ IsInjective(incoming) /\ IsInjective(requests) /\ IsInjective(events)
  /\ \A r \in Calls :
       /\ r \in arriving => r \notin Range(incoming) \cup reading \cup Range(requests)
                                     \cup Range(events) \cup handling \cup responding
       /\ r \in Range(incoming) => r \notin reading \cup Range(requests) \cup Range(events)
                                            \cup handling \cup responding
       /\ r \in reading => r \notin Range(requests) \cup Range(events) \cup handling \cup responding
       /\ r \in Range(requests) => r \notin Range(events) \cup handling \cup responding
       /\ r \in Range(events) => r \notin handling \cup responding
       /\ r \in handling => r \notin responding

\* a direction that is open has an owner on the worker, a stream that is not
\* opened yet has neither an owner nor an answer, and an answered one has no
\* owner any more
Lifetime ==
  \A r \in Calls :
    /\ down[r].end = "open" => Owned(r)
    /\ client[r] \in {"idle", "permit", "opening"} =>
         ~Owned(r) /\ sent[r] = "none" /\ down[r].n = 0 /\ down[r].end = "none"
    /\ sent[r] # "none" => ~Owned(r)

\* only a response that is being sent puts bytes into the stream, one that was
\* sent is there in full, and what a successful call read does not change
Answered ==
  \A r \in Calls :
    /\ down[r].n > 0 => sent[r] # "none" \/ r \in responding
    /\ sent[r] = "ok" => down[r].n = resp_size[r]
    /\ client[r] = "ok" => /\ down[r].end = "eof" /\ down[r].n <= ClientMax
                           /\ EmptyIsError => down[r].n > 0

RequestInv ==
  /\ Types /\ QueuesBounded /\ HandleKnown /\ PermitsConserved
  /\ OneOwner /\ Lifetime /\ Answered

LEMMA ConfigFacts ==
  /\ IsFiniteSet(Calls) /\ Limit \in Nat /\ MaxSize \in Nat
  /\ IncomingCapacity \in Nat /\ RequestsQueueSize \in Nat /\ EventsQueueSize \in Nat
BY ConfigAssumption

\* The queues are bounded sequences without duplicates.
LEMMA QueueFacts ==
  ASSUME RequestInv
  PROVE  /\ incoming \in Seq(Calls) /\ IsInjective(incoming)
         /\ requests \in Seq(Calls) /\ IsInjective(requests)
         /\ events \in Seq(Calls) /\ IsInjective(events)
         /\ Len(incoming) \in Nat /\ Len(incoming) <= IncomingCapacity + 1
         /\ Len(requests) \in Nat /\ Len(requests) <= RequestsQueueSize
         /\ Len(events) \in Nat /\ Len(events) <= EventsQueueSize
<1>1. /\ incoming \in Seq(Calls) /\ requests \in Seq(Calls) /\ events \in Seq(Calls)
  BY DEF RequestInv, Types
<1>2. /\ IsInjective(incoming) /\ IsInjective(requests) /\ IsInjective(events)
  BY DEF RequestInv, OneOwner
<1> QED
  BY <1>1, <1>2 DEF RequestInv, QueuesBounded

\* StreamClientHandle::new and ServerBehaviour::new: all permits free, no call
\* and no stream.
LEMMA InitRequestInv == Init => RequestInv
<1> SUFFICES ASSUME Init PROVE RequestInv
  OBVIOUS
<1> USE ConfigFacts
<1>1. Types /\ QueuesBounded
  BY DEF Init, Types, QueuesBounded, Sizes, Direction
<1>2. HandleKnown
  BY DEF Init, HandleKnown
<1>3. PermitsConserved
  <2>1. \A h \in Handles : HoldersOf(h) = {}
    BY DEF Init, HoldersOf, Holds
  <2>2. \A h \in Handles : Cardinality(HoldersOf(h)) = 0
    BY <2>1, FS_EmptySet
  <2>3. \A h \in Handles : permits[h] + Cardinality(HoldersOf(h)) = Limit
    BY <2>2 DEF Init
  <2> QED
    BY <2>3 DEF PermitsConserved, HoldersOf
<1>4. Range(incoming) = {} /\ Range(requests) = {} /\ Range(events) = {}
  BY DEF Init, Range
<1>5. OneOwner
  BY <1>4 DEF Init, OneOwner, IsInjective
<1>6. Lifetime /\ Answered
  BY <1>4 DEF Init, Lifetime, Answered, Owned
<1> QED
  BY <1>1, <1>2, <1>3, <1>5, <1>6 DEF RequestInv

-----------------------------------------------------------------------------
(***************************************************************************)
(* Streams                                                                 *)
(***************************************************************************)

\* Dropping a stream ends an open direction, writes nothing, and leaves the
\* other streams alone.
LEMMA DroppedFacts ==
  ASSUME NEW dir \in [Calls -> Direction], NEW r \in Calls, NEW dir2 \in Dropped(dir, r)
  PROVE  /\ dir2 \in [Calls -> Direction]
         /\ \A q \in Calls \ {r} : dir2[q] = dir[q]
         /\ dir2[r].n = dir[r].n /\ dir2[r].end # "open"
         /\ dir[r].end # "open" => dir2[r] = dir[r]
<1>1. PICK end \in {"eof", "reset"} :
        dir2 = [dir EXCEPT ![r] = [dir[r] EXCEPT !.end = IF dir[r].end = "open" THEN end ELSE dir[r].end]]
  BY DEF Dropped, Ended
<1>2. dir[r] \in Direction
  OBVIOUS
<1>3. dir2[r] = [n |-> dir[r].n, end |-> IF dir[r].end = "open" THEN end ELSE dir[r].end]
  BY <1>1, <1>2 DEF Direction
<1>4. dir[r] = [n |-> dir[r].n, end |-> dir[r].end]
  BY <1>2 DEF Direction
<1> QED
  BY <1>1, <1>2, <1>3, <1>4 DEF Direction

\* Closing a direction ends it in order and writes nothing.
LEMMA ClosedFacts ==
  ASSUME NEW dir \in [Calls -> Direction], NEW r \in Calls, dir[r].end = "open"
  PROVE  /\ Ended(dir, r, "eof") \in [Calls -> Direction]
         /\ \A q \in Calls \ {r} : Ended(dir, r, "eof")[q] = dir[q]
         /\ Ended(dir, r, "eof")[r].n = dir[r].n /\ Ended(dir, r, "eof")[r].end = "eof"
BY DEF Ended, Direction

\* What is less than some size is less than the largest one.
LEMMA BelowMaxSize ==
  ASSUME NEW n \in Nat, NEW m \in 0..MaxSize, n < m
  PROVE  n < MaxSize
BY ConfigFacts

\* A write adds one byte to its stream.
LEMMA WrittenFacts ==
  ASSUME NEW dir \in [Calls -> Direction], NEW r \in Calls, dir[r].n < MaxSize
  PROVE  /\ Written(dir, r) \in [Calls -> Direction]
         /\ \A q \in Calls \ {r} : Written(dir, r)[q] = dir[q]
         /\ Written(dir, r)[r].n = dir[r].n + 1 /\ Written(dir, r)[r].end = dir[r].end
BY ConfigFacts DEF Written, Direction, Sizes

-----------------------------------------------------------------------------
(***************************************************************************)
(* Permits                                                                 *)
(***************************************************************************)

\* What PermitsConserved says of one handle, with its holders a finite set.
LEMMA HoldersFacts ==
  ASSUME RequestInv, NEW h \in Handles
  PROVE  /\ IsFiniteSet(HoldersOf(h))
         /\ Cardinality(HoldersOf(h)) \in Nat
         /\ permits[h] + Cardinality(HoldersOf(h)) = Limit
<1>1. HoldersOf(h) \in SUBSET Calls
  BY DEF HoldersOf
<1>2. IsFiniteSet(HoldersOf(h))
  BY <1>1, ConfigFacts, FS_Subset
<1> QED
  BY <1>2, FS_CardinalityType DEF RequestInv, PermitsConserved, HoldersOf

\* A step that changes neither who holds a permit nor the semaphores.
LEMMA PermitsKept ==
  ASSUME RequestInv, UNCHANGED permits,
         \A r \in Calls : Holds(r)' = Holds(r) /\ (Holds(r) => handle'[r] = handle[r])
  PROVE  PermitsConserved'
<1>1. \A h \in Handles : HoldersOf(h)' = HoldersOf(h)
  BY DEF HoldersOf
<1>2. \A h \in Handles : permits'[h] + Cardinality(HoldersOf(h)') = Limit
  BY <1>1, HoldersFacts
<1> QED
  BY <1>2 DEF PermitsConserved, HoldersOf

\* The semaphore gives a permit to a call that had none.
LEMMA AcquireFacts ==
  ASSUME RequestInv, NEW r \in Calls, Acquire(r)
  PROVE  permits' \in [Handles -> Nat] /\ PermitsConserved'
<1>0. PICK h \in Handles : h = handle[r]
  BY DEF Acquire, RequestInv, HandleKnown
<1>1. permits[h] \in Nat /\ permits[h] > 0
  BY <1>0 DEF Acquire, RequestInv, Types
<1>2. permits' = [permits EXCEPT ![h] = permits[h] - 1]
  BY <1>0 DEF Acquire
<1>3. permits' \in [Handles -> Nat]
  BY <1>1, <1>2 DEF RequestInv, Types
<1>4. r \notin HoldersOf(h) /\ HoldersOf(h)' = HoldersOf(h) \cup {r}
  BY <1>0 DEF Acquire, HoldersOf, Holds, RequestInv, Types
<1>5. \A k \in Handles \ {h} : HoldersOf(k)' = HoldersOf(k) /\ permits'[k] = permits[k]
  BY <1>0, <1>2 DEF Acquire, HoldersOf, Holds, RequestInv, Types
<1>6. permits'[h] = permits[h] - 1
  BY <1>1, <1>2 DEF RequestInv, Types
<1>7. Cardinality(HoldersOf(h)') = Cardinality(HoldersOf(h)) + 1
  BY <1>1, <1>4, HoldersFacts, FS_AddElement, Zenon
<1>8. \A k \in Handles : permits'[k] + Cardinality(HoldersOf(k)') = Limit
  <2> SUFFICES ASSUME NEW k \in Handles
               PROVE  permits'[k] + Cardinality(HoldersOf(k)') = Limit
    OBVIOUS
  <2>1. Cardinality(HoldersOf(k)) \in Nat /\ permits[k] + Cardinality(HoldersOf(k)) = Limit
    BY HoldersFacts
  <2>2. CASE k = h
    BY <1>1, <1>6, <1>7, <2>1, <2>2
  <2>3. CASE k # h
    BY <1>5, <2>1, <2>3
  <2> QED
    BY <2>2, <2>3
<1> QED
  BY <1>3, <1>8 DEF PermitsConserved, HoldersOf

\* A call that returns gives back the permit it holds, if it holds one.
LEMMA ReturnsFacts ==
  ASSUME RequestInv, NEW r \in Calls, NEW result \in {"ok", "err"}, client[r] # "idle",
         Returns(r, result), UNCHANGED handle
  PROVE  permits' \in [Handles -> Nat] /\ PermitsConserved'
<1>0. PICK h \in Handles : h = handle[r]
  BY DEF RequestInv, HandleKnown
<1>1. permits[h] \in Nat
  BY DEF RequestInv, Types
<1>2. client' = [client EXCEPT ![r] = result]
  BY DEF Returns
<1>3. CASE ~Holds(r)
  <2>1. UNCHANGED permits
    BY <1>3 DEF Returns
  <2>2. \A q \in Calls : Holds(q)' = Holds(q)
    BY <1>2, <1>3 DEF Holds, RequestInv, Types
  <2> QED
    BY <2>1, <2>2, PermitsKept DEF RequestInv, Types
<1>4. CASE Holds(r)
  <2>1. permits' = [permits EXCEPT ![h] = permits[h] + 1]
    BY <1>0, <1>4 DEF Returns
  <2>2. permits' \in [Handles -> Nat] /\ permits'[h] = permits[h] + 1
    BY <1>1, <2>1 DEF RequestInv, Types
  <2>3. r \in HoldersOf(h) /\ HoldersOf(h)' = HoldersOf(h) \ {r}
    BY <1>0, <1>2, <1>4 DEF HoldersOf, Holds, RequestInv, Types
  <2>4. \A k \in Handles \ {h} : HoldersOf(k)' = HoldersOf(k) /\ permits'[k] = permits[k]
    BY <1>0, <1>2, <2>1 DEF HoldersOf, Holds, RequestInv, Types
  <2>5. Cardinality(HoldersOf(h)') = Cardinality(HoldersOf(h)) - 1
    BY <1>1, <2>3, HoldersFacts, FS_RemoveElement, Zenon
  <2>6. \A k \in Handles : permits'[k] + Cardinality(HoldersOf(k)') = Limit
    <3> SUFFICES ASSUME NEW k \in Handles
                 PROVE  permits'[k] + Cardinality(HoldersOf(k)') = Limit
      OBVIOUS
    <3>1. Cardinality(HoldersOf(k)) \in Nat /\ permits[k] + Cardinality(HoldersOf(k)) = Limit
      BY HoldersFacts
    <3>2. CASE k = h
      BY <1>1, <2>2, <2>5, <3>1, <3>2
    <3>3. CASE k # h
      BY <2>4, <3>1, <3>3
    <3> QED
      BY <3>2, <3>3
  <2> QED
    BY <2>2, <2>6 DEF PermitsConserved, HoldersOf
<1> QED
  BY <1>3, <1>4

-----------------------------------------------------------------------------
(***************************************************************************)
(* Steps of the client                                                     *)
(***************************************************************************)

\* A step that leaves the worker, the answers and the bytes towards the client
\* alone keeps what is said of the worker, if the call it moves on either did
\* open its stream before or does not open it yet, and succeeds only with a
\* response it may accept.
LEMMA WorkerUntouched ==
  ASSUME RequestInv, NEW r \in Calls, NEW s \in {"permit", "opening", "writing", "reading", "ok", "err"},
         client' = [client EXCEPT ![r] = s],
         UNCHANGED <<down, serverVars, resp_size, sent>>,
         s \in {"permit", "opening"} => client[r] \in {"idle", "permit"},
         s = "ok" => /\ down[r].end = "eof" /\ down[r].n <= ClientMax
                     /\ EmptyIsError => down[r].n > 0
  PROVE  QueuesBounded' /\ OneOwner' /\ Lifetime' /\ Answered'
<1> USE DEF serverVars, RequestInv
<1>1. QueuesBounded' /\ OneOwner'
  BY DEF QueuesBounded, OneOwner
<1>2. \A q \in Calls : /\ (Owned(q)' <=> Owned(q))
                       /\ client'[q] = IF q = r THEN s ELSE client[q]
  BY DEF Owned, Types
<1>3. Lifetime'
  BY <1>2 DEF Lifetime
<1>4. Answered'
  BY <1>2 DEF Answered, EmptyIsError
<1> QED
  BY <1>1, <1>3, <1>4

\* The steps that end a call: its permit goes back, and what the client leaves
\* of its own direction is open no more.
LEMMA ReturnStep ==
  ASSUME RequestInv, NEW r \in Calls, NEW result \in {"ok", "err"}, client[r] # "idle",
         Returns(r, result), up' = up \/ up' \in Dropped(up, r),
         UNCHANGED <<handle, req_size, down, serverVars, resp_size, sent>>,
         result = "ok" => /\ down[r].end = "eof" /\ down[r].n <= ClientMax
                          /\ EmptyIsError => down[r].n > 0
  PROVE  RequestInv'
<1>1. client' = [client EXCEPT ![r] = result]
  BY DEF Returns
<1>2. permits' \in [Handles -> Nat] /\ PermitsConserved'
  BY ReturnsFacts
<1>3. up' \in [Calls -> Direction]
  BY DroppedFacts DEF RequestInv, Types
<1>4. Types'
  BY <1>1, <1>2, <1>3, Zenon DEF RequestInv, Types, serverVars
<1>5. HandleKnown'
  BY <1>1 DEF RequestInv, Types, HandleKnown
<1>6. QueuesBounded' /\ OneOwner' /\ Lifetime' /\ Answered'
  <2>1. UNCHANGED <<down, serverVars, resp_size, sent>>
    OBVIOUS
  <2> QED
    BY <1>1, <2>1, WorkerUntouched, Zenon
<1> QED
  BY <1>2, <1>4, <1>5, <1>6 DEF RequestInv

\* Every step of the client keeps the invariant.
LEMMA ClientKeeps ==
  ASSUME RequestInv, NEW r \in Calls, ClientStep(r)
  PROVE  RequestInv'
<1>1. ASSUME NEW h \in Handles, NEW n \in Sizes, Call(r, h, n)
      PROVE  RequestInv'
  <2>1. Types'
    BY <1>1 DEF Call, RequestInv, Types, serverVars
  <2>2. HandleKnown'
    BY <1>1 DEF Call, RequestInv, Types, HandleKnown
  <2>3. PermitsConserved'
    <3>1. \A q \in Calls : Holds(q)' = Holds(q) /\ (Holds(q) => handle'[q] = handle[q])
      BY <1>1 DEF Call, Holds, RequestInv, Types
    <3> QED
      BY <1>1, <3>1, PermitsKept DEF Call
  <2>4. QueuesBounded' /\ OneOwner' /\ Lifetime' /\ Answered'
    BY <1>1, WorkerUntouched, Zenon DEF Call
  <2> QED
    BY <2>1, <2>2, <2>3, <2>4 DEF RequestInv
<1>2. CASE Acquire(r)
  <2>1. permits' \in [Handles -> Nat] /\ PermitsConserved'
    BY <1>2, AcquireFacts
  <2>2. Types'
    BY <1>2, <2>1 DEF Acquire, RequestInv, Types, serverVars
  <2>3. HandleKnown'
    BY <1>2 DEF Acquire, RequestInv, Types, HandleKnown
  <2>4. QueuesBounded' /\ OneOwner' /\ Lifetime' /\ Answered'
    BY <1>2, WorkerUntouched, Zenon DEF Acquire
  <2> QED
    BY <2>1, <2>2, <2>3, <2>4 DEF RequestInv
<1>3. CASE Opened(r)
  <2>1. /\ client[r] = "opening" /\ client' = [client EXCEPT ![r] = "writing"]
        /\ arriving' = arriving \cup {r}
        /\ UNCHANGED <<permits, handle, req_size, incoming, reading, requests, events, handling,
                       responding, resp_size, sent>>
    BY <1>3 DEF Opened
  <2>2. /\ up' \in [Calls -> Direction] /\ down' \in [Calls -> Direction]
        /\ down'[r].n = down[r].n /\ down'[r].end = "open"
        /\ \A q \in Calls \ {r} : down'[q] = down[q]
    <3>1. up \in [Calls -> Direction] /\ down \in [Calls -> Direction]
      BY DEF RequestInv, Types
    <3> QED
      BY <1>3, <3>1 DEF Opened, Direction
  <2>3. Types'
    BY <2>1, <2>2, Zenon DEF RequestInv, Types
  <2>4. QueuesBounded' /\ HandleKnown'
    BY <2>1 DEF RequestInv, Types, QueuesBounded, HandleKnown
  <2>5. PermitsConserved'
    <3>1. \A q \in Calls : Holds(q)' = Holds(q)
      BY <2>1 DEF Holds, RequestInv, Types
    <3> QED
      BY <2>1, <3>1, PermitsKept
  <2>6. /\ ~Owned(r) /\ sent[r] = "none" /\ down[r].n = 0
        /\ \A q \in Calls : (Owned(q)' <=> q = r \/ Owned(q))
        /\ \A q \in Calls : client'[q] = IF q = r THEN "writing" ELSE client[q]
    BY <2>1 DEF RequestInv, Types, Lifetime, Owned
  <2>7. OneOwner'
    BY <2>1, <2>6 DEF RequestInv, OneOwner, Owned
  <2>8. Lifetime'
    BY <2>1, <2>2, <2>6 DEF RequestInv, Lifetime
  <2>9. Answered'
    BY <2>1, <2>2, <2>6 DEF RequestInv, Answered, EmptyIsError
  <2> QED
    BY <2>3, <2>4, <2>5, <2>7, <2>8, <2>9 DEF RequestInv
<1>4. CASE OpenFails(r)
  BY <1>4, ReturnStep DEF OpenFails
<1>5. CASE WriteRequest(r)
  <2>1. /\ client[r] = "writing" /\ up[r].end = "open"
        /\ UNCHANGED <<permits, handle, req_size, down, serverVars, resp_size, sent>>
    BY <1>5 DEF WriteRequest
  <2>2. PICK s \in {"writing", "reading"} : client' = [client EXCEPT ![r] = s]
    BY <1>5 DEF WriteRequest, RequestInv, Types
  <2>3. up' \in [Calls -> Direction]
    <3>1. up[r].n \in Nat /\ req_size[r] \in 0..MaxSize
      BY DEF RequestInv, Types, Direction, Sizes
    <3>2. CASE up[r].n < req_size[r] /\ up' = Written(up, r)
      <4>1. up[r].n < MaxSize
        BY <3>1, <3>2, BelowMaxSize
      <4> QED
        BY <3>2, <4>1, WrittenFacts, Zenon DEF RequestInv, Types
    <3>3. CASE up' = Ended(up, r, "eof")
      BY <2>1, <3>3, ClosedFacts, Zenon DEF RequestInv, Types
    <3> QED
      BY <1>5, <3>2, <3>3 DEF WriteRequest
  <2>4. Types'
    BY <2>1, <2>2, <2>3, Zenon DEF RequestInv, Types, serverVars
  <2>5. HandleKnown'
    BY <2>1, <2>2 DEF RequestInv, Types, HandleKnown
  <2>6. PermitsConserved'
    <3>1. \A q \in Calls : Holds(q)' = Holds(q)
      BY <2>1, <2>2 DEF Holds, RequestInv, Types
    <3> QED
      BY <2>1, <3>1, PermitsKept
  <2>7. QueuesBounded' /\ OneOwner' /\ Lifetime' /\ Answered'
    <3>1. UNCHANGED <<down, serverVars, resp_size, sent>>
      BY <2>1
    <3> QED
      BY <2>2, <3>1, WorkerUntouched, Zenon
  <2> QED
    BY <2>4, <2>5, <2>6, <2>7 DEF RequestInv
<1>6. CASE WriteFails(r)
  BY <1>6, ReturnStep DEF WriteFails
<1>7. CASE ReadResponse(r)
  <2>1. down[r].n \in Nat
    BY DEF RequestInv, Types, Direction, Sizes
  <2>2. PICK result \in {"ok", "err"} :
          /\ Returns(r, result)
          /\ result = "ok" => /\ down[r].end = "eof" /\ down[r].n <= ClientMax
                              /\ EmptyIsError => down[r].n > 0
    BY <1>7, <2>1 DEF ReadResponse
  <2> QED
    BY <1>7, <2>2, ReturnStep DEF ReadResponse
<1>8. CASE Abandon(r)
  BY <1>8, ReturnStep DEF Abandon
<1> QED
  BY <1>1, <1>2, <1>3, <1>4, <1>5, <1>6, <1>7, <1>8 DEF ClientStep

-----------------------------------------------------------------------------
(***************************************************************************)
(* Steps of the worker                                                     *)
(***************************************************************************)

\* The worker has no hand in the client's semaphores.
LEMMA ClientUntouched ==
  ASSUME RequestInv, UNCHANGED clientVars
  PROVE  HandleKnown' /\ PermitsConserved'
<1>1. UNCHANGED <<permits, handle, client>>
  BY DEF clientVars
<1>2. \A q \in Calls : Holds(q)' = Holds(q)
  BY <1>1 DEF Holds
<1> QED
  BY <1>1, <1>2, PermitsKept DEF RequestInv, HandleKnown

\* What follows for OneOwner, Lifetime and Answered when one stream r that the
\* worker owns is handed on or let go: the other streams are where they were,
\* r is in at most one place, and r is let go only with its direction ended.
LEMMA HandedOn ==
  ASSUME RequestInv, NEW r \in Calls, Owned(r), UNCHANGED client,
         IsInjective(incoming)', IsInjective(requests)', IsInjective(events)',
         \A q \in Calls \ {r} :
           /\ q \in arriving' <=> q \in arriving
           /\ q \in Range(incoming)' <=> q \in Range(incoming)
           /\ q \in reading' <=> q \in reading
           /\ q \in Range(requests)' <=> q \in Range(requests)
           /\ q \in Range(events)' <=> q \in Range(events)
           /\ q \in handling' <=> q \in handling
           /\ q \in responding' <=> q \in responding
           /\ down'[q] = down[q] /\ sent'[q] = sent[q] /\ resp_size'[q] = resp_size[q],
         r \in arriving' => r \notin Range(incoming)' \cup reading' \cup Range(requests)'
                                     \cup Range(events)' \cup handling' \cup responding',
         r \in Range(incoming)' => r \notin reading' \cup Range(requests)' \cup Range(events)'
                                            \cup handling' \cup responding',
         r \in reading' => r \notin Range(requests)' \cup Range(events)' \cup handling'
                                    \cup responding',
         r \in Range(requests)' => r \notin Range(events)' \cup handling' \cup responding',
         r \in Range(events)' => r \notin handling' \cup responding',
         r \in handling' => r \notin responding',
         down'[r].end = "open" => Owned(r)',
         down[r].end # "open" => down'[r] = down[r],
         sent'[r] # "none" => ~Owned(r)',
         down'[r].n > 0 => sent'[r] # "none" \/ r \in responding',
         sent'[r] = "ok" => down'[r].n = resp_size'[r]
  PROVE  OneOwner' /\ Lifetime' /\ Answered'
<1>1. OneOwner'
  BY DEF RequestInv, OneOwner
<1>2. /\ client[r] \notin {"idle", "permit", "opening"}
      /\ \A q \in Calls \ {r} : Owned(q)' <=> Owned(q)
  BY DEF RequestInv, Lifetime, Owned
<1>3. Lifetime'
  BY <1>2 DEF RequestInv, Lifetime
<1>4. client'[r] = "ok" => /\ down'[r].end = "eof" /\ down'[r].n <= ClientMax
                           /\ EmptyIsError => down'[r].n > 0
  BY DEF RequestInv, Answered
<1>5. Answered'
  BY <1>4 DEF RequestInv, Answered, EmptyIsError
<1> QED
  BY <1>1, <1>3, <1>5

\* The worker drops a stream.
LEMMA DownDropped ==
  ASSUME RequestInv, NEW r \in Calls, down' \in Dropped(down, r)
  PROVE  /\ down' \in [Calls -> Direction]
         /\ \A q \in Calls \ {r} : down'[q] = down[q]
         /\ down'[r].n = down[r].n /\ down'[r].end # "open"
         /\ down[r].end # "open" => down'[r] = down[r]
<1>1. down \in [Calls -> Direction]
  BY DEF RequestInv, Types
<1> QED
  BY <1>1, DroppedFacts

\* on_inbound_stream and spawn_read_task: a stream enters the accept buffer or
\* is dropped, and leaves it for a task of its own.
LEMMA AcceptKeeps ==
  ASSUME RequestInv, (\E r \in Calls : on_inbound_stream(r)) \/ spawn_read_task
  PROVE  RequestInv'
<1>1. ASSUME NEW r \in Calls, on_inbound_stream(r)
      PROVE  RequestInv'
  <2>1. /\ r \in arriving /\ arriving' = arriving \ {r}
        /\ UNCHANGED <<clientVars, up, reading, requests, events, handling, responding,
                       resp_size, sent>>
    BY <1>1 DEF on_inbound_stream
  <2>2. CASE /\ Len(incoming) <= IncomingCapacity
             /\ incoming' = Append(incoming, r) /\ UNCHANGED down
    <3>1. r \notin Range(incoming) /\ IsInjective(incoming)
      BY <2>1 DEF RequestInv, OneOwner
    <3>2. /\ incoming' \in Seq(Calls) /\ Range(incoming)' = Range(incoming) \cup {r}
          /\ IsInjective(incoming)' /\ Len(incoming') = Len(incoming) + 1
      BY <2>2, <3>1, AppendFacts, QueueFacts
    <3>3. Types'
      BY <2>1, <2>2, <3>2 DEF RequestInv, Types, clientVars
    <3>4. QueuesBounded'
      BY <2>1, <2>2, <3>2, QueueFacts, ConfigFacts DEF QueuesBounded
    <3>5. OneOwner' /\ Lifetime' /\ Answered'
      BY <2>1, <2>2, <3>2, HandedOn, Zenon DEF RequestInv, OneOwner, Lifetime, Answered, Owned, clientVars
    <3> QED
      BY <2>1, <3>3, <3>4, <3>5, ClientUntouched DEF RequestInv
  <2>3. CASE down' \in Dropped(down, r) /\ UNCHANGED incoming
    <3>1. /\ down' \in [Calls -> Direction]
          /\ \A q \in Calls \ {r} : down'[q] = down[q]
          /\ down'[r].n = down[r].n /\ down'[r].end # "open"
          /\ down[r].end # "open" => down'[r] = down[r]
      BY <2>3, DownDropped
    <3>2. Types' /\ QueuesBounded'
      BY <2>1, <2>3, <3>1 DEF RequestInv, Types, QueuesBounded, clientVars
    <3>3. OneOwner' /\ Lifetime' /\ Answered'
      BY <2>1, <2>3, <3>1, HandedOn, Zenon DEF RequestInv, OneOwner, Lifetime, Answered, Owned, clientVars
    <3> QED
      BY <2>1, <3>2, <3>3, ClientUntouched DEF RequestInv
  <2> QED
    BY <1>1, <2>2, <2>3 DEF on_inbound_stream
<1>2. CASE spawn_read_task
  <2>1. PICK r \in Calls : r = Head(incoming)
    BY <1>2, TailFacts, QueueFacts DEF spawn_read_task
  <2>2. /\ reading' = reading \cup {r} /\ incoming # <<>> /\ incoming' = Tail(incoming)
        /\ UNCHANGED <<clientVars, up, down, arriving, requests, events, handling, responding,
                       resp_size, sent>>
    BY <1>2, <2>1 DEF spawn_read_task
  <2>3. /\ incoming' \in Seq(Calls) /\ Range(incoming) = {r} \cup Range(incoming')
        /\ IsInjective(incoming') /\ r \notin Range(incoming')
        /\ Len(incoming') <= Len(incoming)
    BY <2>1, <2>2, TailFacts, QueueFacts
  <2>4. Types' /\ QueuesBounded'
    <3>1. Types'
      BY <2>2, <2>3 DEF RequestInv, Types, clientVars
    <3>2. QueuesBounded'
      BY <2>2, <2>3, QueueFacts, ConfigFacts DEF QueuesBounded
    <3> QED
      BY <3>1, <3>2
  <2>5. OneOwner' /\ Lifetime' /\ Answered'
    BY <2>2, <2>3, HandedOn, Zenon DEF RequestInv, OneOwner, Lifetime, Answered, Owned, clientVars
  <2> QED
    BY <2>2, <2>4, <2>5, ClientUntouched DEF RequestInv
<1> QED
  BY <1>1, <1>2

\* read_request and on_request: a request goes to the next queue, or its stream
\* is dropped if it fails or the queue is full.
LEMMA QueueKeeps ==
  ASSUME RequestInv, (\E r \in Calls : read_request(r)) \/ on_request \/ TakeEvent
  PROVE  RequestInv'
<1>1. ASSUME NEW r \in Calls, read_request(r)
      PROVE  RequestInv'
  <2>1. /\ r \in reading /\ reading' = reading \ {r}
        /\ UNCHANGED <<clientVars, up, arriving, incoming, events, handling, responding,
                       resp_size, sent>>
    BY <1>1, Zenon DEF read_request
  <2>2. CASE /\ Len(requests) < RequestsQueueSize
             /\ requests' = Append(requests, r) /\ UNCHANGED down
    <3>1. r \notin Range(requests) /\ IsInjective(requests)
      BY <2>1 DEF RequestInv, OneOwner
    <3>2. /\ requests' \in Seq(Calls) /\ Range(requests)' = Range(requests) \cup {r}
          /\ IsInjective(requests)' /\ Len(requests') = Len(requests) + 1
      BY <2>2, <3>1, AppendFacts, QueueFacts
    <3>3. Types'
      BY <2>1, <2>2, <3>2 DEF RequestInv, Types, clientVars
    <3>4. QueuesBounded'
      BY <2>1, <2>2, <3>2, QueueFacts, ConfigFacts DEF QueuesBounded
    <3>5. OneOwner' /\ Lifetime' /\ Answered'
      BY <2>1, <2>2, <3>2, HandedOn, Zenon DEF RequestInv, OneOwner, Lifetime, Answered, Owned, clientVars
    <3> QED
      BY <2>1, <3>3, <3>4, <3>5, ClientUntouched DEF RequestInv
  <2>3. CASE down' \in Dropped(down, r) /\ UNCHANGED requests
    <3>1. /\ down' \in [Calls -> Direction]
          /\ \A q \in Calls \ {r} : down'[q] = down[q]
          /\ down'[r].n = down[r].n /\ down'[r].end # "open"
          /\ down[r].end # "open" => down'[r] = down[r]
      BY <2>3, DownDropped
    <3>2. Types' /\ QueuesBounded'
      BY <2>1, <2>3, <3>1 DEF RequestInv, Types, QueuesBounded, clientVars
    <3>3. OneOwner' /\ Lifetime' /\ Answered'
      BY <2>1, <2>3, <3>1, HandedOn, Zenon DEF RequestInv, OneOwner, Lifetime, Answered, Owned, clientVars
    <3> QED
      BY <2>1, <3>2, <3>3, ClientUntouched DEF RequestInv
  <2> QED
    BY <1>1, <2>2, <2>3, Zenon DEF read_request
<1>2. CASE on_request
  <2>1. PICK r \in Calls : r = Head(requests)
    BY <1>2, TailFacts, QueueFacts DEF on_request
  <2>2. /\ requests # <<>> /\ requests' = Tail(requests)
        /\ UNCHANGED <<clientVars, up, arriving, incoming, reading, handling, responding,
                       resp_size, sent>>
    BY <1>2 DEF on_request
  <2>3. /\ requests' \in Seq(Calls) /\ Range(requests) = {r} \cup Range(requests')
        /\ IsInjective(requests') /\ r \notin Range(requests')
        /\ Len(requests') <= Len(requests)
    BY <2>1, <2>2, TailFacts, QueueFacts
  <2>4. CASE down' \in Dropped(down, r) /\ UNCHANGED events
    <3>1. /\ down' \in [Calls -> Direction]
          /\ \A q \in Calls \ {r} : down'[q] = down[q]
          /\ down'[r].n = down[r].n /\ down'[r].end # "open"
          /\ down[r].end # "open" => down'[r] = down[r]
      BY <2>4, DownDropped
    <3>2. Types' /\ QueuesBounded'
      <4>1. Types'
        BY <2>2, <2>3, <2>4, <3>1 DEF RequestInv, Types, clientVars
      <4>2. QueuesBounded'
        BY <2>2, <2>3, <2>4, QueueFacts, ConfigFacts DEF QueuesBounded
      <4> QED
        BY <4>1, <4>2
    <3>3. OneOwner' /\ Lifetime' /\ Answered'
      BY <2>2, <2>3, <2>4, <3>1, HandedOn, Zenon
         DEF RequestInv, OneOwner, Lifetime, Answered, Owned, clientVars
    <3> QED
      BY <2>2, <3>2, <3>3, ClientUntouched DEF RequestInv
  <2>5. CASE Len(events) # EventsQueueSize /\ events' = Append(events, r) /\ UNCHANGED down
    <3>1. r \notin Range(events) /\ IsInjective(events)
      BY <2>3 DEF RequestInv, OneOwner
    <3>2. /\ events' \in Seq(Calls) /\ Range(events)' = Range(events) \cup {r}
          /\ IsInjective(events)' /\ Len(events') = Len(events) + 1
      BY <2>5, <3>1, AppendFacts, QueueFacts
    <3>3. Types'
      BY <2>2, <2>3, <2>5, <3>2 DEF RequestInv, Types, clientVars
    <3>4. QueuesBounded'
      BY <2>2, <2>3, <2>5, <3>2, QueueFacts, ConfigFacts DEF QueuesBounded
    <3>5. OneOwner' /\ Lifetime' /\ Answered'
      BY <2>2, <2>3, <2>5, <3>2, HandedOn, Zenon
         DEF RequestInv, OneOwner, Lifetime, Answered, Owned, clientVars
    <3> QED
      BY <2>2, <3>3, <3>4, <3>5, ClientUntouched DEF RequestInv
  <2> QED
    BY <1>2, <2>1, <2>4, <2>5, Zenon DEF on_request
<1>3. CASE TakeEvent
  <2>1. PICK r \in Calls : r = Head(events)
    BY <1>3, TailFacts, QueueFacts DEF TakeEvent
  <2>2. /\ handling' = handling \cup {r} /\ events # <<>> /\ events' = Tail(events)
        /\ UNCHANGED <<clientVars, up, down, arriving, incoming, reading, requests, responding,
                       resp_size, sent>>
    BY <1>3, <2>1 DEF TakeEvent
  <2>3. /\ events' \in Seq(Calls) /\ Range(events) = {r} \cup Range(events')
        /\ IsInjective(events') /\ r \notin Range(events')
        /\ Len(events') <= Len(events)
    BY <2>1, <2>2, TailFacts, QueueFacts
  <2>4. Types' /\ QueuesBounded'
    <3>1. Types'
      BY <2>2, <2>3 DEF RequestInv, Types, clientVars
    <3>2. QueuesBounded'
      BY <2>2, <2>3, QueueFacts, ConfigFacts DEF QueuesBounded
    <3> QED
      BY <3>1, <3>2
  <2>5. OneOwner' /\ Lifetime' /\ Answered'
    BY <2>2, <2>3, HandedOn, Zenon DEF RequestInv, OneOwner, Lifetime, Answered, Owned, clientVars
  <2> QED
    BY <2>2, <2>4, <2>5, ClientUntouched DEF RequestInv
<1> QED
  BY <1>1, <1>2, <1>3

\* A stream the consumer holds or is answering is nowhere else and has no
\* answer yet.
LEMMA ConsumerFacts ==
  ASSUME RequestInv, NEW r \in Calls, r \in handling \/ r \in responding
  PROVE  /\ r \notin arriving /\ r \notin Range(incoming) /\ r \notin reading
         /\ r \notin Range(requests) /\ r \notin Range(events)
         /\ r \notin handling \/ r \notin responding
         /\ Owned(r) /\ sent[r] = "none"
         /\ r \in handling => ~(down[r].n > 0)
<1>1. Owned(r)
  BY DEF Owned
<1>2. sent[r] = "none"
  BY <1>1 DEF RequestInv, Lifetime
<1> QED
  BY <1>1, <1>2 DEF RequestInv, OneOwner, Answered

\* The streams that a step of the consumer leaves alone are where they were, so
\* the invariant depends on what it does to its own.
LEMMA ConsumerHandsOn ==
  ASSUME RequestInv, NEW r \in Calls, r \in handling \/ r \in responding,
         UNCHANGED <<client, arriving, incoming, reading, requests, events>>,
         r \notin handling' \/ r \notin responding',
         \A q \in Calls \ {r} :
           /\ q \in handling' <=> q \in handling
           /\ q \in responding' <=> q \in responding
           /\ down'[q] = down[q] /\ sent'[q] = sent[q] /\ resp_size'[q] = resp_size[q],
         down'[r].end = "open" => r \in handling' \/ r \in responding',
         down[r].end # "open" => down'[r] = down[r],
         sent'[r] # "none" => r \notin handling' /\ r \notin responding',
         down'[r].n > 0 => sent'[r] # "none" \/ r \in responding',
         sent'[r] = "ok" => down'[r].n = resp_size'[r]
  PROVE  OneOwner' /\ Lifetime' /\ Answered'
<1>1. /\ r \notin arriving /\ r \notin Range(incoming) /\ r \notin reading
      /\ r \notin Range(requests) /\ r \notin Range(events) /\ Owned(r)
  BY ConsumerFacts
<1>2. IsInjective(incoming)' /\ IsInjective(requests)' /\ IsInjective(events)'
  BY QueueFacts
<1>3. Owned(r)' <=> r \in handling' \/ r \in responding'
  BY <1>1 DEF Owned
<1> QED
  BY <1>1, <1>2, <1>3, HandedOn

\* DropEvent, ResponseSender::send and a connection that is lost: the stream is
\* let go with its direction ended, a response first in full if it is reported
\* as sent.
LEMMA AnswerKeeps ==
  ASSUME RequestInv, NEW r \in Calls,
         \/ DropEvent(r) \/ (\E n \in Sizes : Send(r, n))
         \/ WriteResponse(r) \/ SendFails(r) \/ Lost(r)
  PROVE  RequestInv'
<1>1. CASE DropEvent(r)
  <2>1. /\ r \in handling /\ handling' = handling \ {r} /\ down' \in Dropped(down, r)
        /\ UNCHANGED <<clientVars, up, arriving, incoming, reading, requests, events, responding,
                       resp_size, sent>>
    BY <1>1 DEF DropEvent
  <2>2. /\ down' \in [Calls -> Direction]
        /\ \A q \in Calls \ {r} : down'[q] = down[q]
        /\ down'[r].n = down[r].n /\ down'[r].end # "open"
        /\ down[r].end # "open" => down'[r] = down[r]
    BY <2>1, DownDropped
  <2>3. Types' /\ QueuesBounded'
    BY <2>1, <2>2 DEF RequestInv, Types, QueuesBounded, clientVars
  <2>4. OneOwner' /\ Lifetime' /\ Answered'
    BY <2>1, <2>2, ConsumerFacts, ConsumerHandsOn, Zenon DEF clientVars
  <2> QED
    BY <2>1, <2>3, <2>4, ClientUntouched DEF RequestInv
<1>2. ASSUME NEW n \in Sizes, Send(r, n)
      PROVE  RequestInv'
  <2>1. /\ r \in handling /\ handling' = handling \ {r}
        /\ resp_size' = [resp_size EXCEPT ![r] = n]
        /\ UNCHANGED <<clientVars, up, arriving, incoming, reading, requests, events>>
    BY <1>2 DEF Send
  <2>2. /\ r \notin responding /\ sent[r] = "none" /\ ~(down[r].n > 0)
        /\ \A q \in Calls \ {r} : resp_size'[q] = resp_size[q]
    BY <2>1, ConsumerFacts DEF RequestInv, Types
  <2>3. CASE /\ sent' = [sent EXCEPT ![r] = "err"] /\ down' \in Dropped(down, r)
             /\ UNCHANGED responding
    <3>1. /\ down' \in [Calls -> Direction]
          /\ \A q \in Calls \ {r} : down'[q] = down[q]
          /\ down'[r].n = down[r].n /\ down'[r].end # "open"
          /\ down[r].end # "open" => down'[r] = down[r]
      BY <2>3, DownDropped
    <3>2. Types' /\ QueuesBounded'
      BY <2>1, <2>3, <3>1, Zenon DEF RequestInv, Types, QueuesBounded, clientVars
    <3>3. OneOwner' /\ Lifetime' /\ Answered'
      <4>1. sent'[r] = "err" /\ \A q \in Calls \ {r} : sent'[q] = sent[q]
        BY <2>3 DEF RequestInv, Types
      <4> QED
        BY <2>1, <2>2, <2>3, <3>1, <4>1, ConsumerHandsOn, Zenon DEF clientVars
    <3> QED
      BY <2>1, <3>2, <3>3, ClientUntouched DEF RequestInv
  <2>4. CASE responding' = responding \cup {r} /\ UNCHANGED <<sent, down>>
    <3>1. Types' /\ QueuesBounded'
      BY <2>1, <2>4 DEF RequestInv, Types, QueuesBounded, clientVars
    <3>2. OneOwner' /\ Lifetime' /\ Answered'
      <4>1. down[r].end # "open" => down'[r] = down[r]
        BY <2>4
      <4> QED
        BY <2>1, <2>2, <2>4, <4>1, ConsumerHandsOn DEF clientVars
    <3> QED
      BY <2>1, <3>1, <3>2, ClientUntouched DEF RequestInv
  <2> QED
    BY <1>2, <2>3, <2>4 DEF Send
<1>3. CASE WriteResponse(r)
  <2>1. /\ r \in responding /\ down[r].end = "open"
        /\ UNCHANGED <<clientVars, up, arriving, incoming, reading, requests, events, handling,
                       resp_size>>
    BY <1>3, Zenon DEF WriteResponse
  <2>2. r \notin handling /\ sent[r] = "none"
    BY <2>1, ConsumerFacts, Zenon
  <2>5. down \in [Calls -> Direction] /\ resp_size[r] \in Sizes
    BY DEF RequestInv, Types
  <2>3. CASE /\ down[r].n < resp_size[r] /\ down' = Written(down, r)
             /\ UNCHANGED <<responding, sent>>
    <3>1. down[r].n < MaxSize
      <4>1. down[r].n \in Nat /\ resp_size[r] \in 0..MaxSize /\ down[r].n < resp_size[r]
        BY <2>3, <2>5 DEF Direction, Sizes
      <4> QED
        BY <4>1, BelowMaxSize, Zenon
    <3>2. /\ down' \in [Calls -> Direction]
          /\ \A q \in Calls \ {r} : down'[q] = down[q]
          /\ down'[r].n = down[r].n + 1 /\ down'[r].end = "open"
      BY <2>1, <2>3, <2>5, <3>1, WrittenFacts
    <3>3. Types' /\ QueuesBounded'
      BY <2>1, <2>3, <3>2 DEF RequestInv, Types, QueuesBounded, clientVars
    <3>4. OneOwner' /\ Lifetime' /\ Answered'
      BY <2>1, <2>2, <2>3, <3>2, ConsumerHandsOn DEF clientVars
    <3> QED
      BY <2>1, <3>3, <3>4, ClientUntouched, Zenon DEF RequestInv
  <2>4. CASE /\ down[r].n = resp_size[r] /\ down' = Ended(down, r, "eof")
             /\ responding' = responding \ {r} /\ sent' = [sent EXCEPT ![r] = "ok"]
    <3>1. /\ down' \in [Calls -> Direction]
          /\ \A q \in Calls \ {r} : down'[q] = down[q]
          /\ down'[r].n = down[r].n /\ down'[r].end = "eof"
      BY <2>1, <2>4, <2>5, ClosedFacts
    <3>2. Types' /\ QueuesBounded'
      BY <2>1, <2>4, <3>1 DEF RequestInv, Types, QueuesBounded, clientVars
    <3>3. OneOwner' /\ Lifetime' /\ Answered'
      <4>1. sent'[r] = "ok" /\ \A q \in Calls \ {r} : sent'[q] = sent[q]
        BY <2>4 DEF RequestInv, Types
      <4> QED
        BY <2>1, <2>2, <2>4, <3>1, <4>1, ConsumerHandsOn DEF clientVars
    <3> QED
      BY <2>1, <3>2, <3>3, ClientUntouched DEF RequestInv
  <2> QED
    BY <1>3, <2>3, <2>4, Zenon DEF WriteResponse
<1>4. CASE SendFails(r)
  <2>1. /\ r \in responding /\ responding' = responding \ {r}
        /\ sent' = [sent EXCEPT ![r] = "err"] /\ down' \in Dropped(down, r)
        /\ UNCHANGED <<clientVars, up, arriving, incoming, reading, requests, events, handling,
                       resp_size>>
    BY <1>4 DEF SendFails
  <2>2. /\ down' \in [Calls -> Direction]
        /\ \A q \in Calls \ {r} : down'[q] = down[q]
        /\ down'[r].n = down[r].n /\ down'[r].end # "open"
        /\ down[r].end # "open" => down'[r] = down[r]
    BY <2>1, DownDropped
  <2>3. Types' /\ QueuesBounded'
    BY <2>1, <2>2, Zenon DEF RequestInv, Types, QueuesBounded, clientVars
  <2>4. OneOwner' /\ Lifetime' /\ Answered'
    <3>1. sent'[r] = "err" /\ \A q \in Calls \ {r} : sent'[q] = sent[q]
      BY <2>1 DEF RequestInv, Types
    <3> QED
      BY <2>1, <2>2, <3>1, ConsumerFacts, ConsumerHandsOn, Zenon DEF clientVars
  <2> QED
    BY <2>1, <2>3, <2>4, ClientUntouched DEF RequestInv
<1>5. CASE Lost(r)
  <2>1. /\ down[r].end = "open" /\ arriving' = arriving \ {r}
        /\ UNCHANGED <<clientVars, incoming, reading, requests, events, handling, responding,
                       resp_size, sent>>
    BY <1>5 DEF Lost
  <2>2. /\ up' \in [Calls -> Direction] /\ down' \in [Calls -> Direction]
        /\ down'[r].n = down[r].n /\ down'[r].end = "reset"
        /\ \A q \in Calls \ {r} : down'[q] = down[q]
    <3>1. up \in [Calls -> Direction] /\ down \in [Calls -> Direction]
      BY DEF RequestInv, Types
    <3> QED
      BY <1>5, <3>1 DEF Lost, Direction
  <2>3. Owned(r)
    BY <2>1 DEF RequestInv, Lifetime
  <2>4. Types' /\ QueuesBounded'
    BY <2>1, <2>2 DEF RequestInv, Types, QueuesBounded, clientVars
  <2>5. OneOwner' /\ Lifetime' /\ Answered'
    <3>1. sent[r] = "none"
      BY <2>3, Zenon DEF RequestInv, Lifetime
    <3> QED
      BY <2>1, <2>2, <2>3, <3>1, HandedOn, Zenon DEF RequestInv, OneOwner, Answered, Owned, clientVars
  <2> QED
    BY <2>1, <2>4, <2>5, ClientUntouched DEF RequestInv
<1> QED
  BY <1>1, <1>2, <1>3, <1>4, <1>5

-----------------------------------------------------------------------------
(***************************************************************************)
(* Theorems                                                                *)
(***************************************************************************)

\* The inductive invariant holds in every behaviour.
LEMMA RequestInvariant == Spec => []RequestInv
<1>1. ASSUME RequestInv, [Next]_vars
      PROVE  RequestInv'
  <2>1. CASE Next
    <3>1. ASSUME NEW r \in Calls, ClientStep(r) \/ ServerStep(r) \/ Lost(r)
          PROVE  RequestInv'
      BY <1>1, <3>1, ClientKeeps, AcceptKeeps, QueueKeeps, AnswerKeeps DEF ServerStep
    <3>2. CASE spawn_read_task \/ on_request \/ TakeEvent
      BY <1>1, <3>2, AcceptKeeps, QueueKeeps
    <3> QED
      BY <2>1, <3>1, <3>2 DEF Next
  <2>2. CASE UNCHANGED vars
    <3>1. UNCHANGED <<clientVars, up, down, serverVars, resp_size, sent>>
      BY <2>2 DEF vars
    <3>2. HandleKnown' /\ PermitsConserved'
      BY <1>1, <3>1, ClientUntouched
    <3>3. Types' /\ QueuesBounded' /\ OneOwner'
      BY <1>1, <3>1 DEF RequestInv, Types, QueuesBounded, OneOwner, clientVars, serverVars
    <3>4. \A q \in Calls : Owned(q)' <=> Owned(q)
      BY <3>1 DEF Owned, serverVars
    <3>5. Lifetime' /\ Answered'
      BY <1>1, <3>1, <3>4
         DEF RequestInv, Lifetime, Answered, EmptyIsError, clientVars, serverVars
    <3> QED
      BY <3>2, <3>3, <3>5 DEF RequestInv
  <2> QED
    BY <1>1, <2>1, <2>2
<1> QED
  BY <1>1, InitRequestInv, PTL DEF Spec

\* The state of a handle, its calls, the streams and the worker's queues is
\* well formed: no queue exceeds its capacity, no handle has more permits than
\* its limit, and no size grows past what is to be sent.
THEOREM RequestTypeCorrect == Spec => []TypeOK
<1>1. RequestInv => TypeOK
  <2> SUFFICES ASSUME RequestInv PROVE TypeOK
    OBVIOUS
  <2>1. permits \in [Handles -> 0..Limit]
    <3>1. \A h \in Handles : permits[h] \in 0..Limit
      BY HoldersFacts, ConfigFacts DEF RequestInv, Types
    <3> QED
      BY <3>1 DEF RequestInv, Types
  <2> QED
    BY <2>1 DEF RequestInv, Types, QueuesBounded, TypeOK
<1> QED
  BY <1>1, RequestInvariant, PTL

\* Whatever times out, fails or is dropped, no StreamClientHandle loses or gains
\* a permit for a worker.
THEOREM PermitsNeverLost == Spec => []PermitsConserved
<1>1. RequestInv => PermitsConserved
  BY DEF RequestInv
<1> QED
  BY <1>1, RequestInvariant, PTL

\* From the accept buffer to ResponseSender::send a stream has one owner on the
\* worker, and a stream the client may still read from has one.
THEOREM StreamOwnedOnce == Spec => []OwnedOnce
<1>1. RequestInv => OwnedOnce
  <2> SUFFICES ASSUME RequestInv, NEW r \in Calls
               PROVE  LET owners == {i \in DOMAIN Owners : r \in Owners[i]}
                      IN /\ Cardinality(owners) <= 1
                         /\ down[r].end = "open" => owners # {}
    BY DEF OwnedOnce, RequestInv, OneOwner
  <2> DEFINE owners == {i \in DOMAIN Owners : r \in Owners[i]}
  <2>1. /\ DOMAIN Owners = 1..7
        /\ Owners[1] = arriving /\ Owners[2] = Range(incoming) /\ Owners[3] = reading
        /\ Owners[4] = Range(requests) /\ Owners[5] = Range(events) /\ Owners[6] = handling
        /\ Owners[7] = responding
    BY DEF Owners
  <2>2. \A i \in 1..7 : i = 1 \/ i = 2 \/ i = 3 \/ i = 4 \/ i = 5 \/ i = 6 \/ i = 7
    OBVIOUS
  <2>3. \A i, j \in owners : i = j
    BY <2>1, <2>2 DEF RequestInv, OneOwner
  <2>4. Owned(r) => owners # {}
    BY <2>1 DEF Owned
  <2> HIDE DEF owners
  <2>5. owners = {} \/ \E i : owners = {i}
    BY <2>3
  <2>6. Cardinality(owners) = 0 \/ Cardinality(owners) = 1
    <3>1. CASE owners = {}
      BY <3>1, FS_EmptySet
    <3>2. ASSUME NEW i, owners = {i}
          PROVE  Cardinality(owners) = 1
      BY <3>2, FS_Singleton, Zenon
    <3> QED
      BY <2>5, <3>1, <3>2, Zenon
  <2>7. Cardinality(owners) <= 1
    BY <2>6
  <2> QED
    BY <2>4, <2>7 DEF RequestInv, Lifetime, owners
<1> QED
  BY <1>1, RequestInvariant, PTL

\* A call of send_query or send_sql_query succeeds only if the worker started to
\* answer it, whatever queue its request could have been dropped from, and one of
\* request_logs or request_heartbeat succeeds unanswered on an empty response
\* only (a dropped stream can read as one); for every protocol, an answer that
\* the worker reports as sent is read in full and within max_response_size.
THEOREM SuccessWasAnswered ==
  Spec => []SuccessIsAnswered
<1>1. RequestInv => SuccessIsAnswered
  <2>1. RequestInv => \A r \in Calls : down[r].n = 0 \/ down[r].n > 0
    BY DEF RequestInv, Types, Direction, Sizes
  <2>. QED  BY <2>1 DEF RequestInv, Answered, SuccessIsAnswered
<1> QED
  BY <1>1, RequestInvariant, PTL
=============================================================================
