---------------------------- MODULE MessageProofs ----------------------------
(***************************************************************************)
(* Messages between nodes.  The validation of gossip (Pubsub), for any     *)
(* topics and sources, any min_interval and keep_last, and any max_burst   *)
(* of at least one: the messages accepted of a source stay in order and    *)
(* within the rate limit, and one that is dropped does not make later ones *)
(* old.  Signatures (QuerySignatures), for any queries, results and        *)
(* workers: each holds for what it was made for and for nothing else.      *)
(***************************************************************************)
EXTENDS Pubsub, QuerySignatures, TLAPS

\* The messages accepted at the times t[1], ..., t[l] fall into windows: `w'
\* gives for each of them the position of the message that opened its window.
\* A window holds at most MaxBurst messages, and opens MinInterval after the
\* one before it at the earliest.  The last one was opened at `last_time', and
\* `burst' has counted all messages in it.
Windows(t, l, w, last_time, burst) ==
  /\ w \in [1..l -> Nat]
  /\ \A n \in 1..l : 1 <= w[n] /\ w[n] <= n /\ n < w[n] + MaxBurst
  /\ \A m, n \in 1..l : m <= n =>
       w[m] = w[n] \/ (m < w[n] /\ t[w[m]] + MinInterval <= t[w[n]])
  /\ t[w[l]] = last_time
  /\ l < w[l] + burst

\* the clock does not go back between two messages
TimesAscend(t, l) == \A m, n \in 1..l : m <= n => t[m] <= t[n]

\* The message that opened a window is one of the accepted ones.
LEMMA WindowOpened ==
  ASSUME NEW l \in Nat, NEW t, NEW w, NEW last_time, NEW burst, Windows(t, l, w, last_time, burst),
         NEW k \in 1..l
  PROVE  /\ w[k] \in Nat /\ w[k] \in 1..l
         /\ 1 <= w[k] /\ w[k] <= k /\ k < w[k] + MaxBurst
<1>1. w[k] \in Nat /\ 1 <= w[k] /\ w[k] <= k /\ k < w[k] + MaxBurst
  BY DEF Windows
<1>2. PICK x \in Nat : x = w[k]
  BY <1>1
<1>3. 1 <= x /\ x <= k
  BY <1>1, <1>2
<1>4. x \in 1..l
  BY <1>3
<1>. QED  BY <1>1, <1>2, <1>4

\* A message 2 * MaxBurst - 1 after another one is in a later window.  If it is
\* in the next one, the earlier one opened its own; otherwise a whole window
\* lies between them.
LEMMA WindowsLimitRate ==
  ASSUME NEW l \in Nat, NEW t \in [1..l -> Nat],
         NEW w, NEW last_time, NEW burst, Windows(t, l, w, last_time, burst),
         TimesAscend(t, l),
         NEW m \in 1..l, NEW n \in 1..l, n = m + 2 * MaxBurst - 1
  PROVE  t[m] + MinInterval <= t[n]
<1>. MinInterval \in Nat /\ MaxBurst \in Nat /\ MaxBurst >= 1 /\ w \in [1..l -> Nat]
  BY GossipAssumption DEF Windows
<1>1. \A k \in 1..l : 1 <= w[k] /\ w[k] <= k /\ k < w[k] + MaxBurst
  BY WindowOpened
<1>2. \A j, k \in 1..l : j <= k =>
        w[j] = w[k] \/ (j < w[k] /\ t[w[j]] + MinInterval <= t[w[k]])
  BY DEF Windows
<1>3. m < w[n] /\ w[n] <= n
  BY <1>1
<1>4. PICK k \in 1..l : k = w[n] - 1
  BY <1>3
<1>5. m <= k /\ k <= n /\ w[k] # w[n] /\ w[m] # w[n] /\ m <= n
  <2>1. w[k] <= k /\ w[m] <= m /\ w[k] \in Nat /\ w[m] \in Nat /\ w[n] \in Nat
    BY <1>1
  <2>. QED  BY <1>3, <1>4, <2>1
<1>6. t[w[k]] + MinInterval <= t[w[n]] /\ t[w[m]] + MinInterval <= t[w[n]]
  BY <1>2, <1>5
<1>7. \A j \in 1..l : w[j] \in 1..l /\ w[j] \in Nat /\ t[j] \in Nat
  BY WindowOpened
<1>8. \A j \in 1..l : t[w[j]] <= t[j] /\ t[w[j]] \in Nat
  BY <1>1, <1>7 DEF TimesAscend
<1>9. CASE w[k] # w[m]
  <2>1. m < w[k]
    BY <1>2, <1>5, <1>9
  <2>2. t[m] <= t[w[k]]
    BY <1>7, <2>1 DEF TimesAscend
  <2>3. \A x, y, z, u \in Nat :
          x <= y /\ y + MinInterval <= z /\ z <= u => x + MinInterval <= u
    OBVIOUS
  <2>4. t[m] \in Nat /\ t[w[k]] \in Nat /\ t[w[n]] \in Nat /\ t[n] \in Nat
    BY <1>7, <1>8
  <2>. QED  BY <1>6, <1>8, <2>2, <2>3, <2>4, Zenon
<1>10. CASE w[k] = w[m]
  <2>1. /\ k < w[m] + MaxBurst /\ n < w[n] + MaxBurst /\ w[m] <= m
        /\ w[m] \in Nat /\ w[n] \in Nat /\ n = m + 2 * MaxBurst - 1
    BY <1>1, <1>10, Zenon
  <2>. PICK x \in Nat, y \in Nat : x = w[m] /\ y = w[n]
    BY <2>1
  <2>2. y = k + 1 /\ k < x + MaxBurst /\ n < y + MaxBurst /\ x <= m
    BY <1>4, <2>1
  <2>3. x = m
    BY <2>2
  <2>. QED  BY <1>6, <1>7, <1>8, <2>3
<1>. QED  BY <1>9, <1>10

\* Counting a message that is not accepted leaves the windows alone.
LEMMA CountedWindows ==
  ASSUME NEW l \in Nat, l >= 1, NEW t, NEW w, NEW last_time, NEW burst \in Nat, NEW count \in Nat,
         Windows(t, l, w, last_time, burst), burst <= count
  PROVE  Windows(t, l, w, last_time, count)
<1>1. l \in 1..l /\ w \in [1..l -> Nat] /\ l < w[l] + burst
  BY DEF Windows
<1>2. l < w[l] + count
  BY <1>1
<1>. QED  BY <1>2 DEF Windows

\* The first message opens the first window.
LEMMA FirstWindow ==
  ASSUME NEW t \in [1..1 -> Nat]
  PROVE  \E w : Windows(t, 1, w, t[1], 1)
<1>. PICK w \in [1..1 -> Nat] : w[1] = 1
  <2>. [k \in 1..1 |-> 1] \in [1..1 -> Nat]
    BY Zenon
  <2>. WITNESS [k \in 1..1 |-> 1] \in [1..1 -> Nat]
  <2>. QED  OBVIOUS
<1>. MaxBurst \in Nat /\ MaxBurst >= 1
  BY GossipAssumption
<1>1. \A n \in 1..1 : n = 1
  OBVIOUS
<1>2. Windows(t, 1, w, t[1], 1)
  BY <1>1 DEF Windows
<1>. QED  BY <1>2

\* One more message is told the window `x'.
LEMMA WindowAdded ==
  ASSUME NEW l \in Nat, NEW w \in [1..l -> Nat], NEW x \in Nat
  PROVE  \E w2 \in [1..(l + 1) -> Nat] : w2[l + 1] = x /\ \A k \in 1..l : w2[k] = w[k]
<1>1. \A k \in 1..(l + 1) : k = l + 1 \/ k \in 1..l
  OBVIOUS
<1>2. l + 1 \in 1..(l + 1) /\ \A k \in 1..l : k \in 1..(l + 1) /\ k # l + 1
  OBVIOUS
<1>3. \A k \in 1..(l + 1) : (IF k = l + 1 THEN x ELSE w[k]) \in Nat
  BY <1>1
<1>. DEFINE w2 == [k \in 1..(l + 1) |-> IF k = l + 1 THEN x ELSE w[k]]
<1>4. w2 \in [1..(l + 1) -> Nat]
  BY <1>3, Zenon
<1>5. w2[l + 1] = x /\ \A k \in 1..l : w2[k] = w[k]
  BY <1>2, Zenon
<1>. QED  BY <1>4, <1>5, Zenon

\* A message accepted soon enough joins the last window.
LEMMA JoinsWindow ==
  ASSUME NEW l \in Nat, l >= 1, NEW t \in [1..l -> Nat], NEW t2 \in [1..(l + 1) -> Nat],
         \A k \in 1..l : t2[k] = t[k],
         NEW w, NEW last_time, NEW burst \in Nat, Windows(t, l, w, last_time, burst),
         burst + 1 <= MaxBurst
  PROVE  \E w2 : Windows(t2, l + 1, w2, last_time, burst + 1)
<1>. MinInterval \in Nat /\ MaxBurst \in Nat /\ MaxBurst >= 1 /\ w \in [1..l -> Nat]
  BY GossipAssumption DEF Windows
<1>. l \in 1..l /\ l + 1 \in 1..(l + 1)
  OBVIOUS
<1>1. \A k \in 1..l : 1 <= w[k] /\ w[k] <= k /\ k < w[k] + MaxBurst
  BY WindowOpened
<1>2. \A k \in 1..l : w[k] \in 1..l /\ w[k] \in Nat
  BY WindowOpened
<1>3. \A k \in 1..l : t2[w[k]] = t[w[k]] /\ t[w[k]] \in Nat
  BY <1>2, Zenon
<1>4. \A j, k \in 1..l : j <= k =>
        w[j] = w[k] \/ (j < w[k] /\ t2[w[j]] + MinInterval <= t2[w[k]])
  BY <1>3, Zenon DEF Windows
<1>5. t2[w[l]] = last_time /\ l < w[l] + burst
  <2>1. t[w[l]] = last_time /\ l < w[l] + burst
    BY DEF Windows
  <2>. QED  BY <1>3, <2>1
<1>. PICK w2 \in [1..(l + 1) -> Nat] : w2[l + 1] = w[l] /\ \A k \in 1..l : w2[k] = w[k]
  BY <1>2, WindowAdded, Zenon
<1>6. \A k \in 1..(l + 1) : k \in 1..l \/ k = l + 1
  OBVIOUS
<1>7. \A k \in 1..(l + 1) : 1 <= w2[k] /\ w2[k] <= k /\ k < w2[k] + MaxBurst
  <2>1. PICK x \in Nat : x = w[l]
    BY <1>2
  <2>2. 1 <= x /\ x <= l /\ l < x + burst
    BY <1>1, <1>5, <2>1
  <2>3. 1 <= x /\ x <= l + 1 /\ l + 1 < x + MaxBurst
    BY <2>2
  <2>. QED  BY <1>1, <1>6, <2>1, <2>3, Zenon
<1>8. \A j, k \in 1..(l + 1) : j <= k =>
        w2[j] = w2[k] \/ (j < w2[k] /\ t2[w2[j]] + MinInterval <= t2[w2[k]])
  <2>. SUFFICES ASSUME NEW j \in 1..(l + 1), NEW k \in 1..(l + 1), j <= k
                PROVE  w2[j] = w2[k] \/ (j < w2[k] /\ t2[w2[j]] + MinInterval <= t2[w2[k]])
    OBVIOUS
  <2>1. CASE k \in 1..l
    <3>1. j \in 1..l
      BY <2>1
    <3>. QED  BY <1>4, <2>1, <3>1
  <2>2. CASE k = l + 1 /\ j \in 1..l
    BY <1>4, <2>2
  <2>. QED  BY <1>6, <2>1, <2>2
<1>9. t2[w2[l + 1]] = last_time /\ l + 1 < w2[l + 1] + (burst + 1)
  BY <1>5
<1>. QED  BY <1>7, <1>8, <1>9, Zenon DEF Windows

\* A message accepted later opens the next window.
LEMMA OpensWindow ==
  ASSUME NEW l \in Nat, l >= 1, NEW t \in [1..l -> Nat], NEW t2 \in [1..(l + 1) -> Nat],
         \A k \in 1..l : t2[k] = t[k],
         NEW w, NEW last_time \in Nat, NEW burst \in Nat, Windows(t, l, w, last_time, burst),
         last_time + MinInterval <= t2[l + 1]
  PROVE  \E w2 : Windows(t2, l + 1, w2, t2[l + 1], 1)
<1>. MinInterval \in Nat /\ MaxBurst \in Nat /\ MaxBurst >= 1 /\ w \in [1..l -> Nat]
  BY GossipAssumption DEF Windows
<1>. l \in 1..l /\ l + 1 \in 1..(l + 1)
  OBVIOUS
<1>1. \A k \in 1..l : 1 <= w[k] /\ w[k] <= k /\ k < w[k] + MaxBurst
  BY WindowOpened
<1>2. \A k \in 1..l : w[k] \in 1..l /\ w[k] \in Nat
  BY WindowOpened
<1>3. \A k \in 1..l : t2[w[k]] = t[w[k]] /\ t[w[k]] \in Nat
  BY <1>2, Zenon
<1>4. \A j, k \in 1..l : j <= k =>
        w[j] = w[k] \/ (j < w[k] /\ t2[w[j]] + MinInterval <= t2[w[k]])
  BY <1>3, Zenon DEF Windows
<1>5. t2[w[l]] = last_time
  <2>1. t[w[l]] = last_time
    BY DEF Windows
  <2>. QED  BY <1>3, <2>1
<1>. PICK w2 \in [1..(l + 1) -> Nat] : w2[l + 1] = l + 1 /\ \A k \in 1..l : w2[k] = w[k]
  <2>1. l + 1 \in Nat /\ w \in [1..l -> Nat]
    OBVIOUS
  <2>. QED  BY <2>1, WindowAdded, Zenon
<1>6. \A k \in 1..(l + 1) : k \in 1..l \/ k = l + 1
  OBVIOUS
<1>7. \A k \in 1..(l + 1) : 1 <= w2[k] /\ w2[k] <= k /\ k < w2[k] + MaxBurst
  <2>. PICK x \in Nat : x = l + 1
    OBVIOUS
  <2>1. 1 <= x /\ x <= l + 1 /\ l + 1 < x + MaxBurst
    OBVIOUS
  <2>. QED  BY <1>1, <1>6, <2>1, Zenon
<1>8. \A j, k \in 1..(l + 1) : j <= k =>
        w2[j] = w2[k] \/ (j < w2[k] /\ t2[w2[j]] + MinInterval <= t2[w2[k]])
  <2>. SUFFICES ASSUME NEW j \in 1..(l + 1), NEW k \in 1..(l + 1), j <= k
                PROVE  w2[j] = w2[k] \/ (j < w2[k] /\ t2[w2[j]] + MinInterval <= t2[w2[k]])
    OBVIOUS
  <2>1. CASE k \in 1..l
    <3>1. j \in 1..l
      BY <2>1
    <3>. QED  BY <1>4, <2>1, <3>1, Zenon
  <2>2. CASE k = l + 1 /\ j \in 1..l
    <3>1. t2[w[j]] <= last_time /\ t2[w[j]] \in Nat
      <4>1. t2[w[j]] \in Nat /\ t2[w[l]] \in Nat /\ j <= l
        <5>1. t2[w[j]] = t[w[j]] /\ t[w[j]] \in Nat
          BY <1>3, <2>2
        <5>2. t2[w[l]] = t[w[l]] /\ t[w[l]] \in Nat
          BY <1>3
        <5>3. j <= l
          BY <2>2
        <5>. QED  BY <5>1, <5>2, <5>3
      <4>2. w[j] = w[l] \/ t2[w[j]] + MinInterval <= t2[w[l]]
        BY <1>4, <2>2, <4>1
      <4>3. \A x, y \in Nat : x = y \/ x + MinInterval <= y => x <= y
        OBVIOUS
      <4>. QED  BY <1>5, <4>1, <4>2, <4>3
    <3>2. j < w2[k] /\ w2[j] = w[j] /\ t2[w2[k]] = t2[l + 1] /\ t2[l + 1] \in Nat
      BY <2>2
    <3>3. \A x, y, z \in Nat : x <= y /\ y + MinInterval <= z => x + MinInterval <= z
      OBVIOUS
    <3>. QED  BY <3>1, <3>2, <3>3, Zenon
  <2>. QED  BY <1>6, <2>1, <2>2
<1>9. t2[w2[l + 1]] = t2[l + 1] /\ l + 1 < w2[l + 1] + 1
  OBVIOUS
<1>. QED  BY <1>7, <1>8, <1>9, Zenon DEF Windows

-----------------------------------------------------------------------------
\* PeerState, and the entries of `accepted'
PeerState == [last_seq_no : Nat, last_time : Nat, burst : Nat]

Message == [seq_no : Nat, time : Nat]

Times(a) == [n \in 1..Len(a) |-> a[n].time]

\* a message is less than keep_last behind each one before it
InOrder(a) == \A m, n \in 1..Len(a) : m < n => a[n].seq_no + KeepLast > a[m].seq_no

\* what is known of a source with state `st', of which `a' was accepted by `t'
SourceInv(a, st, t) ==
  /\ a \in Seq(Message) /\ Len(a) >= 1
  /\ st \in PeerState /\ st.last_time <= t /\ st.burst <= MaxBurst + 1
  /\ \A n \in 1..Len(a) : a[n].seq_no <= st.last_seq_no /\ a[n].time <= t
  /\ InOrder(a) /\ TimesAscend(Times(a), Len(a))
  /\ \E w : Windows(Times(a), Len(a), w, st.last_time, st.burst)

\* a source is unknown and nothing of it was accepted, or SourceInv holds of it
GossipInv ==
  /\ now \in Nat
  /\ DOMAIN peer_states = Streams /\ DOMAIN accepted = Streams
  /\ \A s \in Streams :
       \/ peer_states[s] = {} /\ accepted[s] = <<>>
       \/ \E st : peer_states[s] = {st} /\ SourceInv(accepted[s], st, now)

\* what validate_msg makes of a state when it drops a message
Kept(st, st2) ==
  /\ st2 \in PeerState /\ st2.last_seq_no = st.last_seq_no /\ st2.last_time = st.last_time
  /\ st.burst <= st2.burst /\ st2.burst <= MaxBurst + 1

\* and when it accepts one
Advanced(st, st2, seq_no, t) ==
  /\ st2 \in PeerState /\ st2.burst <= MaxBurst
  /\ seq_no + KeepLast > st.last_seq_no
  /\ st.last_seq_no <= st2.last_seq_no /\ seq_no <= st2.last_seq_no
  /\ \/ st2.last_time = st.last_time /\ st2.burst = st.burst + 1
     \/ st.last_time + MinInterval <= t /\ st2.last_time = t /\ st2.burst = 1

\* what the min and max of validate_msg are
LEMMA MinMax ==
  ASSUME NEW x \in Nat, NEW y \in Nat
  PROVE  /\ Min({x, y}) = IF x <= y THEN x ELSE y
         /\ Max({x, y}) = IF x <= y THEN y ELSE x
  BY DEF Min, Max

\* The rate limit of validate_msg either counts the message into the source's
\* window, which has room for it or stays full, or opens a new window when
\* min_interval has passed.
LEMMA CountInFacts ==
  ASSUME now \in Nat, NEW st \in PeerState,
         st.last_time <= now, st.burst <= MaxBurst + 1,
         NEW c, c = CountIn(st)
  PROVE  /\ c \in PeerState /\ c.last_seq_no = st.last_seq_no /\ c.burst <= MaxBurst + 1
         /\ \/ /\ c.last_time = st.last_time /\ st.burst <= c.burst
               /\ c.burst <= MaxBurst => c.burst = st.burst + 1
            \/ st.last_time + MinInterval <= now /\ c.last_time = now /\ c.burst = 1
<1>. /\ MinInterval \in Nat /\ MaxBurst \in Nat /\ MaxBurst >= 1
     /\ st.last_time \in Nat /\ st.burst \in Nat
  BY GossipAssumption DEF PeerState
<1>1. CASE now - st.last_time < MinInterval
  <2>. PICK b \in Nat : b = IF st.burst + 1 <= MaxBurst + 1 THEN st.burst + 1 ELSE MaxBurst + 1
    OBVIOUS
  <2>1. Min({st.burst + 1, MaxBurst + 1}) = b
    BY MinMax
  <2>2. c = [st EXCEPT !.burst = b]
    BY <1>1, <2>1 DEF CountIn
  <2>3. /\ c \in PeerState /\ c.last_seq_no = st.last_seq_no
        /\ c.burst = b /\ c.last_time = st.last_time
    BY <2>2 DEF PeerState
  <2>. QED  BY <2>3
<1>2. CASE ~(now - st.last_time < MinInterval)
  <2>1. c = [st EXCEPT !.last_time = now, !.burst = 1]
    BY <1>2 DEF CountIn
  <2>2. c = [last_seq_no |-> st.last_seq_no, last_time |-> now, burst |-> 1]
    BY <2>1, Zenon DEF PeerState
  <2>3. c \in PeerState /\ c.last_seq_no = st.last_seq_no /\ c.burst = 1 /\ c.last_time = now
    BY <2>2 DEF PeerState
  <2>. QED  BY <1>2, <2>3
<1>. QED  BY <1>1, <1>2

\* validate_msg drops the message and moves nothing but the count, or accepts
\* it and takes its sequence number over.
LEMMA ValidateFacts ==
  ASSUME now \in Nat, NEW st \in PeerState, NEW seq_no \in Nat,
         st.last_time <= now, st.burst <= MaxBurst + 1,
         NEW r, r = validate_msg(st, seq_no)
  PROVE  \/ r.verdict # "accept" /\ Kept(st, r.state)
         \/ r.verdict = "accept" /\ Advanced(st, r.state, seq_no, now)
<1>. /\ MaxBurst \in Nat /\ MaxBurst >= 1 /\ KeepLast \in Nat
     /\ st.last_seq_no \in Nat /\ st.last_time \in Nat /\ st.burst \in Nat
  BY GossipAssumption DEF PeerState
<1>1. CASE seq_no = 0 \/ seq_no > now \/ seq_no + KeepLast <= st.last_seq_no
  <2>1. r.verdict # "accept" /\ r.state = st
    BY <1>1 DEF validate_msg
  <2>. QED  BY <2>1 DEF Kept
<1>2. CASE ~(seq_no = 0 \/ seq_no > now \/ seq_no + KeepLast <= st.last_seq_no)
  <2>. PICK c : c = CountIn(st)
    OBVIOUS
  <2>1. /\ c \in PeerState /\ c.last_seq_no = st.last_seq_no /\ c.burst <= MaxBurst + 1
        /\ c.burst \in Nat
        /\ \/ /\ c.last_time = st.last_time /\ st.burst <= c.burst
              /\ c.burst <= MaxBurst => c.burst = st.burst + 1
           \/ st.last_time + MinInterval <= now /\ c.last_time = now /\ c.burst = 1
    BY CountInFacts DEF PeerState
  <2>2. CASE c.burst > MaxBurst
    <3>1. r = [verdict |-> "ignore", state |-> c]
      BY <1>2, <2>2 DEF validate_msg
    <3>2. c.last_time = st.last_time /\ st.burst <= c.burst
      BY <2>1, <2>2
    <3>. QED  BY <2>1, <3>1, <3>2 DEF Kept
  <2>3. CASE ~(c.burst > MaxBurst)
    <3>. PICK q \in Nat : q = IF c.last_seq_no <= seq_no THEN seq_no ELSE c.last_seq_no
      BY <2>1
    <3>1. Max({c.last_seq_no, seq_no}) = q
      BY <2>1, MinMax, Zenon
    <3>2. r = [verdict |-> "accept", state |-> [c EXCEPT !.last_seq_no = q]]
      BY <1>2, <2>3, <3>1 DEF validate_msg
    <3>3. /\ r.verdict = "accept" /\ r.state \in PeerState
          /\ r.state.last_seq_no = q /\ r.state.last_time = c.last_time /\ r.state.burst = c.burst
      BY <2>1, <3>2 DEF PeerState
    <3>4. c.burst <= MaxBurst /\ seq_no + KeepLast > st.last_seq_no
      BY <1>2, <2>1, <2>3
    <3>. QED  BY <2>1, <3>3, <3>4 DEF Advanced
  <2>. QED  BY <2>2, <2>3
<1>. QED  BY <1>1, <1>2

\* A dropped message leaves the source as it was.
LEMMA KeptSource ==
  ASSUME NEW a, NEW st, NEW st2, NEW t, SourceInv(a, st, t), Kept(st, st2)
  PROVE  SourceInv(a, st2, t)
<1>1. PICK w : Windows(Times(a), Len(a), w, st.last_time, st.burst)
  BY DEF SourceInv
<1>2. /\ Len(a) \in Nat /\ Len(a) >= 1 /\ st.burst \in Nat /\ st2.burst \in Nat
      /\ st.burst <= st2.burst /\ st2.last_time = st.last_time
  BY DEF SourceInv, Kept, PeerState
<1>3. Windows(Times(a), Len(a), w, st2.last_time, st2.burst)
  BY <1>1, <1>2, CountedWindows
<1>. QED  BY <1>3 DEF SourceInv, Kept

\* So does time.
LEMMA LaterSource ==
  ASSUME NEW a, NEW st, NEW t \in Nat, NEW t2 \in Nat, SourceInv(a, st, t), t <= t2
  PROVE  SourceInv(a, st, t2)
<1>1. st.last_time <= t2
  BY DEF SourceInv, PeerState
<1>2. \A n \in 1..Len(a) : a[n].time <= t2
  <2>. SUFFICES ASSUME NEW n \in 1..Len(a)
                PROVE  a[n].time <= t2
    OBVIOUS
  <2>1. a[n] \in Message /\ a[n].time <= t
    BY DEF SourceInv
  <2>. QED  BY <2>1 DEF Message
<1>. QED  BY <1>1, <1>2 DEF SourceInv

\* The first message of a source sets up its state.
LEMMA FirstSource ==
  ASSUME NEW t \in Nat, NEW q \in Nat, NEW a, a = <<[seq_no |-> q, time |-> t]>>,
         NEW st, st = [last_seq_no |-> q, last_time |-> t, burst |-> 1]
  PROVE  SourceInv(a, st, t)
<1>. MaxBurst \in Nat /\ MaxBurst >= 1 /\ KeepLast \in Nat
  BY GossipAssumption
<1>1. /\ a \in Seq(Message) /\ Len(a) = 1 /\ a[1].seq_no = q /\ a[1].time = t
      /\ st \in PeerState /\ st.last_time = t /\ st.last_seq_no = q /\ st.burst = 1
  BY DEF Message, PeerState
<1>2. \A n \in 1..Len(a) : n = 1
  BY <1>1
<1>3. Times(a) \in [1..1 -> Nat] /\ Times(a)[1] = t
  BY <1>1, <1>2 DEF Times
<1>4. \E w : Windows(Times(a), Len(a), w, st.last_time, st.burst)
  BY <1>1, <1>3, FirstWindow
<1>5. InOrder(a) /\ TimesAscend(Times(a), Len(a))
  BY <1>1, <1>2, <1>3 DEF InOrder, TimesAscend
<1>. QED  BY <1>1, <1>2, <1>4, <1>5 DEF SourceInv

\* An accepted message joins the last window or opens the next one, and is less
\* than keep_last behind every message before it.
LEMMA AdvancedSource ==
  ASSUME NEW a, NEW st, NEW st2, NEW t \in Nat, NEW q \in Nat,
         SourceInv(a, st, t), Advanced(st, st2, q, t),
         NEW b, b = Append(a, [seq_no |-> q, time |-> t])
  PROVE  SourceInv(b, st2, t)
<1>. MinInterval \in Nat /\ MaxBurst \in Nat /\ MaxBurst >= 1 /\ KeepLast \in Nat
  BY GossipAssumption
<1>. PICK l \in Nat : l = Len(a)
  BY DEF SourceInv
<1>1. a \in Seq(Message) /\ l >= 1
  BY DEF SourceInv
<1>2. [seq_no |-> q, time |-> t] \in Message
  BY DEF Message
<1>3. /\ b \in Seq(Message) /\ Len(b) = l + 1
      /\ \A n \in 1..l : b[n] = a[n]
      /\ b[l + 1] = [seq_no |-> q, time |-> t]
  BY <1>1, <1>2
<1>4. \A n \in 1..(l + 1) : n \in 1..l \/ n = l + 1
  OBVIOUS
<1>5. b[l + 1].seq_no = q /\ b[l + 1].time = t
  BY <1>3
<1>6. \A n \in 1..l : a[n].seq_no \in Nat /\ a[n].time \in Nat
  <2>1. \A n \in 1..l : a[n] \in Message
    BY <1>1
  <2>. QED  BY <2>1 DEF Message
<1>7. /\ st.last_seq_no \in Nat /\ st2.last_seq_no \in Nat /\ st.last_time \in Nat
      /\ st.burst \in Nat /\ st2.burst \in Nat /\ st2.last_time \in Nat /\ st2.burst <= MaxBurst
      /\ st.last_seq_no <= st2.last_seq_no /\ q <= st2.last_seq_no
      /\ q + KeepLast > st.last_seq_no /\ st.last_time <= t
  BY DEF SourceInv, Advanced, PeerState
<1>8. \A n \in 1..l : a[n].seq_no <= st.last_seq_no /\ a[n].time <= t
  BY DEF SourceInv
<1>9. \A n \in 1..(l + 1) : b[n].seq_no <= st2.last_seq_no /\ b[n].time <= t
  <2>1. \A n \in 1..l : a[n].seq_no <= st2.last_seq_no
    BY <1>6, <1>7, <1>8
  <2>. QED  BY <1>3, <1>4, <1>5, <1>7, <1>8, <2>1
<1>10. InOrder(b)
  <2>. SUFFICES ASSUME NEW m \in 1..(l + 1), NEW n \in 1..(l + 1), m < n
                PROVE  b[n].seq_no + KeepLast > b[m].seq_no
    BY <1>3, Zenon DEF InOrder
  <2>1. m \in 1..l
    OBVIOUS
  <2>2. CASE n \in 1..l
    BY <1>3, <2>1, <2>2 DEF SourceInv, InOrder
  <2>3. CASE n = l + 1
    <3>1. a[m].seq_no \in Nat /\ a[m].seq_no <= st.last_seq_no
      BY <1>6, <1>8, <2>1
    <3>2. \A x, y \in Nat : x <= y /\ q + KeepLast > y => q + KeepLast > x
      OBVIOUS
    <3>3. q + KeepLast > a[m].seq_no
      BY <1>7, <3>1, <3>2
    <3>. QED  BY <1>3, <1>5, <2>1, <2>3, <3>3
  <2>. QED  BY <1>4, <2>2, <2>3
<1>11. /\ Times(a) \in [1..l -> Nat]
       /\ \A n \in 1..l : Times(a)[n] = a[n].time
  BY <1>6 DEF Times
<1>12. /\ Times(b) \in [1..(l + 1) -> Nat] /\ Times(b)[l + 1] = t
       /\ \A n \in 1..l : Times(b)[n] = Times(a)[n]
  <2>1. \A n \in 1..(l + 1) : b[n].time \in Nat
    BY <1>3, <1>4, <1>5, <1>6
  <2>2. Times(b) = [n \in 1..(l + 1) |-> b[n].time]
    BY <1>3 DEF Times
  <2>3. Times(b) \in [1..(l + 1) -> Nat]
    BY <2>1, <2>2
  <2>4. \A n \in 1..(l + 1) : Times(b)[n] = b[n].time
    BY <2>2
  <2>5. l + 1 \in 1..(l + 1) /\ \A n \in 1..l : n \in 1..(l + 1)
    OBVIOUS
  <2>. QED  BY <1>3, <1>5, <1>11, <2>3, <2>4, <2>5, Zenon
<1>13. TimesAscend(Times(b), l + 1)
  <2>. SUFFICES ASSUME NEW m \in 1..(l + 1), NEW n \in 1..(l + 1), m <= n
                PROVE  Times(b)[m] <= Times(b)[n]
    BY DEF TimesAscend
  <2>1. CASE n \in 1..l
    <3>1. m \in 1..l
      BY <2>1
    <3>. QED  BY <1>12, <2>1, <3>1 DEF SourceInv, TimesAscend
  <2>2. CASE n = l + 1 /\ m \in 1..l
    BY <1>8, <1>11, <1>12, <2>2
  <2>3. CASE n = l + 1 /\ m = l + 1
    BY <1>12, <2>3
  <2>. QED  BY <1>4, <2>1, <2>2, <2>3
<1>14. PICK w : Windows(Times(a), l, w, st.last_time, st.burst)
  BY DEF SourceInv
<1>15. \E w2 : Windows(Times(b), l + 1, w2, st2.last_time, st2.burst)
  <2>1. CASE st2.last_time = st.last_time /\ st2.burst = st.burst + 1
    <3>1. \E w2 : Windows(Times(b), l + 1, w2, st.last_time, st.burst + 1)
      BY <1>1, <1>7, <1>11, <1>12, <1>14, <2>1, JoinsWindow, Zenon
    <3>. QED  BY <2>1, <3>1
  <2>2. CASE st.last_time + MinInterval <= t /\ st2.last_time = t /\ st2.burst = 1
    <3>1. \E w2 : Windows(Times(b), l + 1, w2, Times(b)[l + 1], 1)
      BY <1>1, <1>7, <1>11, <1>12, <1>14, <2>2, OpensWindow, Zenon
    <3>. QED  BY <1>12, <2>2, <3>1
  <2>. QED  BY <2>1, <2>2 DEF Advanced
<1>16. st2 \in PeerState /\ st2.last_time <= t /\ st2.burst <= MaxBurst + 1
  BY <1>7 DEF Advanced
<1>. QED  BY <1>1, <1>3, <1>9, <1>10, <1>13, <1>15, <1>16 DEF SourceInv

-----------------------------------------------------------------------------
\* PubsubBehaviour::new knows no source.
LEMMA InitGossipInv ==
  ASSUME GossipInit
  PROVE  GossipInv
  BY DEF GossipInit, Streams, GossipInv

\* What on_inner_event leaves of the message's source, and that it leaves the
\* others alone.
LEMMA OnMessageFacts ==
  ASSUME GossipInv, NEW s \in Streams, NEW seq_no \in Nat,
         OnMessage(s, seq_no)
  PROVE  /\ DOMAIN peer_states' = Streams /\ DOMAIN accepted' = Streams
         /\ now' = now
         /\ \A u \in Streams : u # s =>
              peer_states'[u] = peer_states[u] /\ accepted'[u] = accepted[u]
         /\ \E st2 : /\ peer_states'[s] = {st2} /\ SourceInv(accepted'[s], st2, now)
                     /\ \A st \in peer_states[s] :
                          st2.last_seq_no = st.last_seq_no \/ accepted'[s] # accepted[s]
<1>. /\ now \in Nat
     /\ DOMAIN peer_states = Streams /\ DOMAIN accepted = Streams
  BY DEF GossipInv
<1>. PICK r : r = TopicValidate(s, seq_no)
  OBVIOUS
<1>. PICK e : e = [seq_no |-> seq_no, time |-> now]
  BY Zenon
<1>1. /\ peer_states' = [peer_states EXCEPT ![s] = {r.state}]
      /\ accepted' = IF r.verdict = "accept"
                     THEN [accepted EXCEPT ![s] = Append(@, e)] ELSE accepted
      /\ now' = now
  BY DEF OnMessage
<1>2. /\ DOMAIN peer_states' = Streams /\ DOMAIN accepted' = Streams
      /\ \A u \in Streams : u # s =>
           peer_states'[u] = peer_states[u] /\ accepted'[u] = accepted[u]
  BY <1>1
<1>3. /\ peer_states'[s] = {r.state}
      /\ r.verdict = "accept" => accepted'[s] = Append(accepted[s], e)
      /\ r.verdict # "accept" => accepted'[s] = accepted[s]
  BY <1>1
<1>4. CASE peer_states[s] = {} /\ accepted[s] = <<>>
  <2>1. r = [verdict |-> "accept",
             state |-> [last_seq_no |-> seq_no, last_time |-> now, burst |-> 1]]
    BY <1>4 DEF TopicValidate, NewPeerState
  <2>2. accepted'[s] = <<e>>
    BY <1>3, <1>4, <2>1
  <2>3. SourceInv(accepted'[s], r.state, now)
    BY <2>1, <2>2, FirstSource
  <2>. QED  BY <1>1, <1>2, <1>3, <1>4, <2>3
<1>5. CASE \E st : peer_states[s] = {st} /\ SourceInv(accepted[s], st, now)
  <2>1. PICK st : peer_states[s] = {st} /\ SourceInv(accepted[s], st, now)
    BY <1>5
  <2>2. r = validate_msg(st, seq_no)
    BY <2>1 DEF TopicValidate
  <2>3. st \in PeerState /\ st.last_time <= now /\ st.burst <= MaxBurst + 1
    BY <2>1 DEF SourceInv
  <2>4. \/ r.verdict # "accept" /\ Kept(st, r.state)
        \/ r.verdict = "accept" /\ Advanced(st, r.state, seq_no, now)
    BY <2>2, <2>3, ValidateFacts
  <2>5. CASE r.verdict # "accept" /\ Kept(st, r.state)
    <3>1. SourceInv(accepted'[s], r.state, now)
      BY <1>3, <2>1, <2>5, KeptSource, Zenon
    <3>2. r.state.last_seq_no = st.last_seq_no
      BY <2>5 DEF Kept
    <3>. QED  BY <1>1, <1>2, <1>3, <2>1, <3>1, <3>2
  <2>6. CASE r.verdict = "accept" /\ Advanced(st, r.state, seq_no, now)
    <3>1. SourceInv(accepted'[s], r.state, now)
      BY <1>3, <2>1, <2>6, AdvancedSource, Zenon
    <3>2. accepted[s] \in Seq(Message) /\ e \in Message
      BY <2>1 DEF SourceInv, Message
    <3>3. accepted'[s] # accepted[s]
      <4>1. Len(accepted'[s]) = Len(accepted[s]) + 1 /\ Len(accepted[s]) \in Nat
        BY <1>3, <2>6, <3>2
      <4>. QED  BY <4>1
    <3>. QED  BY <1>1, <1>2, <1>3, <2>1, <3>1, <3>3
  <2>. QED  BY <2>4, <2>5, <2>6
<1>. QED  BY <1>4, <1>5 DEF GossipInv

\* Every step, and stuttering, preserves the invariant, and moves last_seq_no
\* only for a message it accepts.
LEMMA NextGossipInv ==
  ASSUME GossipInv, [GossipNext]_gossipVars
  PROVE  GossipInv' /\ DroppedDoesNotAdvance
<1>. now \in Nat
  BY DEF GossipInv
<1>1. ASSUME UNCHANGED <<peer_states, accepted>>, now' = now \/ now' = now + 1
      PROVE  GossipInv' /\ DroppedDoesNotAdvance
  <2>1. now' \in Nat /\ now <= now'
    BY <1>1
  <2>2. \A s \in Streams :
          \/ peer_states'[s] = {} /\ accepted'[s] = <<>>
          \/ \E st : peer_states'[s] = {st} /\ SourceInv(accepted'[s], st, now')
    BY <1>1, <2>1, LaterSource DEF GossipInv
  <2>3. GossipInv'
    BY <1>1, <2>1, <2>2 DEF GossipInv
  <2>4. \A s \in Streams : \A st, st2 \in peer_states[s] : st = st2
    BY DEF GossipInv, Streams
  <2>5. DroppedDoesNotAdvance
    BY <1>1, <2>4 DEF DroppedDoesNotAdvance
  <2>. QED  BY <2>3, <2>5
<1>2. ASSUME NEW s \in Streams, NEW seq_no \in 0..MaxSeqNo, OnMessage(s, seq_no)
      PROVE  GossipInv' /\ DroppedDoesNotAdvance
  <2>. s \in Streams /\ seq_no \in Nat
    BY <1>2 DEF Streams
  <2>1. /\ DOMAIN peer_states' = Streams /\ DOMAIN accepted' = Streams
        /\ now' = now
        /\ \A u \in Streams : u # s =>
             peer_states'[u] = peer_states[u] /\ accepted'[u] = accepted[u]
        /\ \E st2 : /\ peer_states'[s] = {st2} /\ SourceInv(accepted'[s], st2, now)
                    /\ \A st \in peer_states[s] :
                         st2.last_seq_no = st.last_seq_no \/ accepted'[s] # accepted[s]
    BY <1>2, OnMessageFacts
  <2>2. GossipInv'
    BY <2>1 DEF GossipInv
  <2>3. \A u \in Streams : \A st, st2 \in peer_states[u] : st = st2
    BY DEF GossipInv
  <2>4. DroppedDoesNotAdvance
    <3>. SUFFICES ASSUME NEW u \in Streams, NEW st \in peer_states[u],
                         NEW st2 \in peer_states'[u], st2.last_seq_no # st.last_seq_no
                  PROVE  accepted'[u] # accepted[u]
      BY DEF DroppedDoesNotAdvance, Streams
    <3>1. CASE u = s
      BY <2>1, <3>1
    <3>2. CASE u # s
      BY <2>1, <2>3, <3>2
    <3>. QED  BY <3>1, <3>2
  <2>. QED  BY <2>2, <2>4
<1>3. CASE Tick
  BY <1>1, <1>3 DEF Tick
<1>4. ASSUME NEW t \in Topics, subscribe(t)
      PROVE  GossipInv' /\ DroppedDoesNotAdvance
  BY <1>1, <1>4 DEF subscribe
<1>5. CASE OnUnusableMessage
  BY <1>1, <1>5 DEF OnUnusableMessage
<1>6. CASE UNCHANGED gossipVars
  BY <1>1, <1>6 DEF gossipVars
<1>. QED  BY <1>2, <1>3, <1>4, <1>5, <1>6 DEF GossipNext

\* The windows give the rate limit, SourceInv the order.
LEMMA GossipInvImplies ==
  ASSUME GossipInv
  PROVE  RateLimited /\ AcceptedInOrder
<1>. MinInterval \in Nat /\ MaxBurst \in Nat /\ MaxBurst >= 1 /\ KeepLast \in Nat
  BY GossipAssumption
<1>1. ASSUME NEW s \in Streams, NEW st, SourceInv(accepted[s], st, now),
             NEW m \in DOMAIN accepted[s], NEW n \in DOMAIN accepted[s],
             n = m + 2 * MaxBurst - 1
      PROVE  accepted[s][n].time - accepted[s][m].time >= MinInterval
  <2>. PICK a : a = accepted[s]
    OBVIOUS
  <2>. PICK l \in Nat : l = Len(a)
    BY <1>1 DEF SourceInv
  <2>1. a \in Seq(Message) /\ m \in 1..l /\ n \in 1..l
    BY <1>1 DEF SourceInv
  <2>2. \A k \in 1..l : a[k].time \in Nat
    <3>1. \A k \in 1..l : a[k] \in Message
      BY <2>1
    <3>. QED  BY <3>1 DEF Message
  <2>3. Times(a) \in [1..l -> Nat] /\ \A k \in 1..l : Times(a)[k] = a[k].time
    BY <2>2 DEF Times
  <2>4. TimesAscend(Times(a), l) /\ \E w : Windows(Times(a), l, w, st.last_time, st.burst)
    BY <1>1 DEF SourceInv
  <2>5. Times(a)[m] + MinInterval <= Times(a)[n]
    BY <1>1, <2>1, <2>3, <2>4, WindowsLimitRate, Zenon
  <2>6. \A x, y \in Nat : x + MinInterval <= y => y - x >= MinInterval
    OBVIOUS
  <2>. QED  BY <2>1, <2>2, <2>3, <2>5, <2>6
<1>2. ASSUME NEW s \in Streams, NEW st, SourceInv(accepted[s], st, now),
             NEW n \in DOMAIN accepted[s], NEW m \in 1..(n - 1)
      PROVE  accepted[s][n].seq_no + KeepLast > accepted[s][m].seq_no
  <2>1. accepted[s] \in Seq(Message) /\ InOrder(accepted[s])
    BY <1>2 DEF SourceInv
  <2>2. Len(accepted[s]) \in Nat /\ DOMAIN accepted[s] = 1..Len(accepted[s])
    BY <2>1
  <2>3. m \in 1..Len(accepted[s]) /\ n \in 1..Len(accepted[s]) /\ m < n
    BY <2>2
  <2>. QED  BY <2>1, <2>3 DEF InOrder
<1>3. \A s \in Streams :
        accepted[s] = <<>> \/ \E st : SourceInv(accepted[s], st, now)
  BY DEF GossipInv
<1>4. DOMAIN <<>> = {}
  OBVIOUS
<1>5. RateLimited
  BY <1>1, <1>3, <1>4, Zenon DEF RateLimited, Streams
<1>6. AcceptedInOrder
  BY <1>2, <1>3, <1>4, Zenon DEF AcceptedInOrder, Streams
<1>. QED  BY <1>5, <1>6

-----------------------------------------------------------------------------
\* The rate limit that validate_msg enforces: of each source and topic, no
\* interval shorter than min_interval sees more than 2 * max_burst - 1 accepted
\* messages.
THEOREM GossipLimited == GossipSpec => []RateLimited
<1>1. GossipInit => GossipInv
  BY InitGossipInv
<1>2. GossipInv /\ [GossipNext]_gossipVars => GossipInv'
  BY NextGossipInv
<1>3. GossipInv => RateLimited
  BY GossipInvImplies
<1>. QED  BY <1>1, <1>2, <1>3, PTL DEF GossipSpec

\* The order that validate_msg enforces: of each source and topic, no message is
\* accepted keep_last or more behind one accepted before it, and one that is
\* rejected or ignored leaves the last_seq_no of its source alone.
THEOREM GossipAlwaysInOrder == GossipSpec => GossipInOrder
<1>1. GossipInit => GossipInv
  BY InitGossipInv
<1>2. GossipInv /\ [GossipNext]_gossipVars => GossipInv' /\ DroppedDoesNotAdvance
  BY NextGossipInv
<1>3. GossipInv => AcceptedInOrder
  BY GossipInvImplies
<1>. QED  BY <1>1, <1>2, <1>3, PTL DEF GossipSpec, GossipInOrder

-----------------------------------------------------------------------------
(***************************************************************************)
(* Signatures (QuerySignatures): what is signed can be read back, field by *)
(* field, so no two queries or results share an encoding                   *)
(***************************************************************************)

\* a message is a chain of fields of bytes
Bytes == Seq(Nat)

Chain(s, t) == s \o t

\* the bytes of a chain, and what makes two messages equal
LEMMA ChainEntries ==
  ASSUME NEW S, NEW s \in Seq(S), NEW t \in Seq(S)
  PROVE  \A j \in 1..(Len(s) + Len(t)) :
           (s \o t)[j] = IF j <= Len(s) THEN s[j] ELSE t[j - Len(s)]
OBVIOUS

LEMMA SameEntries ==
  ASSUME NEW S, NEW s \in Seq(S), NEW t \in Seq(S),
         Len(s) = Len(t), \A j \in 1..Len(s) : s[j] = t[j]
  PROVE  s = t
OBVIOUS

LEMMA ChainFacts ==
  ASSUME NEW s \in Bytes, NEW t \in Bytes
  PROVE  /\ \A j \in 1..(Len(s) + Len(t)) :
              (s \o t)[j] = IF j <= Len(s) THEN s[j] ELSE t[j - Len(s)]
         /\ Len(s) = Len(t) /\ (\A j \in 1..Len(s) : s[j] = t[j]) => s = t
<1>1. s \in Seq(Nat) /\ t \in Seq(Nat)
  BY Zenon DEF Bytes
<1>. QED  BY <1>1, ChainEntries, SameEntries, Zenon

LEMMA ChainOfBytes ==
  ASSUME NEW a \in Bytes, NEW x \in Bytes
  PROVE  Chain(a, x) \in Bytes /\ Len(Chain(a, x)) = Len(a) + Len(x) /\ Len(a) \in Nat
BY DEF Chain, Bytes

LEMMA ChainAssociative ==
  ASSUME NEW a \in Bytes, NEW b \in Bytes, NEW x \in Bytes
  PROVE  Chain(Chain(a, b), x) = Chain(a, Chain(b, x))
BY DEF Chain, Bytes

\* Two equal chains whose first fields have the same length agree on those
\* fields and on what follows.
LEMMA ChainEqual ==
  ASSUME NEW a \in Bytes, NEW b \in Bytes, NEW x \in Bytes, NEW y \in Bytes,
         Len(a) = Len(b), Chain(a, x) = Chain(b, y)
  PROVE  a = b /\ x = y
<1>. PICK l \in Nat : l = Len(a) /\ l = Len(b)
  BY ChainOfBytes
<1>1. Len(x) = Len(y)
  <2>1. Len(Chain(a, x)) = l + Len(x) /\ Len(x) \in Nat
    BY ChainOfBytes, Zenon
  <2>2. Len(Chain(b, y)) = l + Len(y) /\ Len(y) \in Nat
    BY ChainOfBytes
  <2>3. \A m, n \in Nat : l + m = l + n => m = n
    OBVIOUS
  <2>. QED  BY <2>1, <2>2, <2>3
<1>2. PICK m \in Nat : m = Len(x)
  BY ChainOfBytes
<1>3. ASSUME NEW s \in Bytes, NEW t \in Bytes, Len(s) = l, Len(t) = m
      PROVE  /\ \A j \in 1..l : Chain(s, t)[j] = s[j]
             /\ \A j \in 1..m : Chain(s, t)[l + j] = t[j]
  <2>1. \A j \in 1..(l + m) : (s \o t)[j] = IF j <= l THEN s[j] ELSE t[j - l]
    <3>1. \A j \in 1..(Len(s) + Len(t)) : (s \o t)[j] = IF j <= Len(s) THEN s[j] ELSE t[j - Len(s)]
      BY ChainFacts, Zenon
    <3>. QED  BY <1>3, <3>1, Zenon
  <2>2. \A j \in 1..l : j \in 1..(l + m) /\ j <= l
    BY <1>2
  <2>3. \A j \in 1..m : l + j \in 1..(l + m) /\ ~(l + j <= l) /\ (l + j) - l = j
    BY <1>2
  <2>. QED  BY <2>1, <2>2, <2>3, Zenon DEF Chain
<1>4. Len(y) = m
  BY <1>1, <1>2
<1>5. /\ \A j \in 1..l : Chain(a, x)[j] = a[j]
      /\ \A j \in 1..m : Chain(a, x)[l + j] = x[j]
  BY <1>2, <1>3, Zenon
<1>6. /\ \A j \in 1..l : Chain(b, y)[j] = b[j]
      /\ \A j \in 1..m : Chain(b, y)[l + j] = y[j]
  BY <1>3, <1>4, Zenon
<1>7. (\A j \in 1..l : a[j] = b[j]) /\ (\A j \in 1..m : x[j] = y[j])
  BY <1>5, <1>6, Zenon
<1>8. a = b
  BY <1>7, ChainFacts, Zenon
<1>9. x = y
  BY <1>2, <1>4, <1>7, ChainFacts, Zenon
<1>. QED  BY <1>8, <1>9

LEMMA LeBytes ==
  ASSUME NEW m \in Nat
  PROVE  /\ to_le_bytes(m) \in Bytes /\ Len(to_le_bytes(m)) = 2
         /\ \A n \in Nat : to_le_bytes(m) = to_le_bytes(n) => m = n
<1>1. \A n \in Nat : /\ n % Base \in Nat /\ n \div Base \in Nat
                     /\ n = (Base * (n \div Base)) + (n % Base)
  BY SignatureAssumption
<1>2. to_le_bytes(m) \in Bytes /\ Len(to_le_bytes(m)) = 2
  BY <1>1 DEF to_le_bytes, Bytes
<1>3. ASSUME NEW n \in Nat, to_le_bytes(m) = to_le_bytes(n)
      PROVE  m = n
  <2>1. m % Base = n % Base /\ m \div Base = n \div Base
    BY <1>3 DEF to_le_bytes
  <2>. QED  BY <1>1, <2>1
<1>. QED  BY <1>2, <1>3

\* A field behind its length, of `k' bytes that tell lengths apart, ends where
\* it ends.
LEMMA EqualBehindLength ==
  ASSUME NEW a \in Bytes, NEW b \in Bytes, NEW x \in Bytes, NEW y \in Bytes,
         NEW p \in Bytes, NEW q \in Bytes, Len(p) = Len(q), p = q => Len(a) = Len(b),
         Chain(Chain(p, a), x) = Chain(Chain(q, b), y)
  PROVE  a = b /\ x = y
<1>1. Chain(p, Chain(a, x)) = Chain(q, Chain(b, y))
  BY ChainAssociative
<1>2. Chain(a, x) \in Bytes /\ Chain(b, y) \in Bytes /\ Len(p) \in Nat /\ Len(a) \in Nat
  BY ChainOfBytes
<1>3. p = q /\ Chain(a, x) = Chain(b, y)
  BY <1>1, <1>2, ChainEqual
<1>. QED  BY <1>2, <1>3, ChainEqual

LEMMA FieldTypes ==
  ASSUME NEW a \in Bytes
  PROVE  Prefixed(a) \in Bytes /\ PeerBytes(a) \in Bytes
<1>1. Len(a) \in Nat /\ Prefixed(a) = Chain(to_le_bytes(Len(a)), a) /\ PeerBytes(a) = Chain(<<Len(a)>>, a)
  BY ChainOfBytes DEF Prefixed, PeerBytes, Chain
<1>2. to_le_bytes(Len(a)) \in Bytes
  BY <1>1, LeBytes
<1>3. \A n \in Nat : <<n>> \in Bytes
  BY DEF Bytes
<1>. QED  BY <1>1, <1>2, <1>3, ChainOfBytes

LEMMA EqualPrefixed ==
  ASSUME NEW a \in Bytes, NEW b \in Bytes, NEW x \in Bytes, NEW y \in Bytes,
         Chain(Prefixed(a), x) = Chain(Prefixed(b), y)
  PROVE  a = b /\ x = y
<1>1. /\ Len(a) \in Nat /\ Prefixed(a) = Chain(to_le_bytes(Len(a)), a)
      /\ Len(b) \in Nat /\ Prefixed(b) = Chain(to_le_bytes(Len(b)), b)
  BY ChainOfBytes DEF Prefixed, Chain
<1>2. PICK p \in Bytes : p = to_le_bytes(Len(a)) /\ Len(p) = 2
  BY <1>1, LeBytes
<1>3. PICK q \in Bytes : q = to_le_bytes(Len(b)) /\ Len(q) = 2
  BY <1>1, LeBytes
<1>4. p = q => Len(a) = Len(b)
  BY <1>1, <1>2, <1>3, LeBytes, Zenon
<1>5. Chain(Chain(p, a), x) = Chain(Chain(q, b), y)
  BY <1>1, <1>2, <1>3
<1>6. Len(p) = Len(q)
  BY <1>2, <1>3
<1>. QED  BY <1>4, <1>5, <1>6, EqualBehindLength

\* A peer id begins with its length.
LEMMA EqualPeers ==
  ASSUME NEW a \in Bytes, NEW b \in Bytes, NEW x \in Bytes, NEW y \in Bytes,
         Chain(PeerBytes(a), x) = Chain(PeerBytes(b), y)
  PROVE  a = b /\ x = y
<1>1. /\ Len(a) \in Nat /\ PeerBytes(a) = Chain(<<Len(a)>>, a)
      /\ Len(b) \in Nat /\ PeerBytes(b) = Chain(<<Len(b)>>, b)
  BY ChainOfBytes DEF PeerBytes, Chain
<1>. \A n \in Nat : <<n>> \in Bytes /\ Len(<<n>>) = 1
  BY DEF Bytes
<1>2. PICK p \in Bytes : p = <<Len(a)>> /\ Len(p) = 1
  BY <1>1, Zenon
<1>3. PICK q \in Bytes : q = <<Len(b)>> /\ Len(q) = 1
  BY <1>1, Zenon
<1>4. p = q => Len(a) = Len(b)
  BY <1>2, <1>3
<1>5. Chain(Chain(p, a), x) = Chain(Chain(q, b), y)
  BY <1>1, <1>2, <1>3
<1>6. Len(p) = Len(q)
  BY <1>2, <1>3
<1>. QED  BY <1>4, <1>5, <1>6, EqualBehindLength

\* the end of a message: a range of blocks, and an engine and a format, all of
\* them optional
RangeBytes(q) ==
  IF q.block_range = <<>> THEN <<>>
  ELSE to_le_bytes(q.block_range[1].begin) \o to_le_bytes(q.block_range[1].end)

EngineBytes(q) ==
  IF q.query_engine = 0 /\ q.output_format = 0 THEN <<>>
  ELSE (IF q.block_range = <<>> THEN <<0>> ELSE <<>>) \o <<q.query_engine, q.output_format>>

TheRange(q) == <<[begin |-> q.block_range[1].begin, end |-> q.block_range[1].end]>>

\* An optional field that is there.
LEMMA OptionalField ==
  ASSUME NEW S, NEW s \in Seq(S), s # <<>>, Len(s) <= 1
  PROVE  s[1] \in S /\ s = <<s[1]>>
<1>1. Len(s) \in Nat /\ Len(s) # 0
  OBVIOUS
<1>2. \A n \in Nat : n # 0 /\ n <= 1 => n = 1
  OBVIOUS
<1>3. Len(s) = 1
  BY <1>1, <1>2, Zenon
<1>4. s[1] \in S
  BY <1>3
<1>5. s = <<s[1]>>
  BY <1>3
<1>. QED  BY <1>4, <1>5

\* The fields of a query.
LEMMA QueryFields ==
  ASSUME NEW q \in Queries
  PROVE  /\ q.query_id \in Bytes /\ q.dataset \in Bytes /\ q.query \in Bytes /\ q.chunk_id \in Bytes
         /\ q.timestamp_ms \in Nat /\ q.query_engine \in Nat /\ q.output_format \in Nat
         /\ q.block_range # <<>> => /\ q.block_range[1].begin \in Nat /\ q.block_range[1].end \in Nat
                                    /\ q.block_range = TheRange(q)
<1>1. q \in QueryType /\ Len(q.block_range) <= 1
  BY SignatureAssumption
<1>2. /\ q.query_id \in Bytes /\ q.dataset \in Bytes /\ q.query \in Bytes /\ q.chunk_id \in Bytes
      /\ q.timestamp_ms \in Nat /\ q.query_engine \in Nat /\ q.output_format \in Nat
      /\ q.block_range \in Seq([begin : Nat, end : Nat])
  BY <1>1 DEF QueryType, Bytes
<1>3. ASSUME q.block_range # <<>>
      PROVE  /\ q.block_range[1].begin \in Nat /\ q.block_range[1].end \in Nat
             /\ q.block_range = TheRange(q)
  <2>1. q.block_range[1] \in [begin : Nat, end : Nat]
    BY <1>1, <1>2, <1>3, OptionalField, Zenon
  <2>2. q.block_range = <<q.block_range[1]>>
    BY <1>1, <1>2, <1>3, OptionalField
  <2>. QED  BY <2>1, <2>2 DEF TheRange
<1>. QED  BY <1>2, <1>3

\* How long the end of a message is tells which of the fields it has.
LEMMA EndOfMessage ==
  ASSUME NEW q \in Queries
  PROVE  /\ RangeBytes(q) \in Bytes /\ EngineBytes(q) \in Bytes
         /\ Len(RangeBytes(q)) = IF q.block_range = <<>> THEN 0 ELSE 4
         /\ Len(EngineBytes(q)) = IF q.query_engine = 0 /\ q.output_format = 0 THEN 0
                                  ELSE IF q.block_range = <<>> THEN 3 ELSE 2
<1>1. RangeBytes(q) \in Bytes /\ Len(RangeBytes(q)) = IF q.block_range = <<>> THEN 0 ELSE 4
  <2>1. CASE q.block_range = <<>>
    BY <2>1 DEF RangeBytes, Bytes
  <2>2. CASE q.block_range # <<>>
    <3>1. PICK b \in Bytes : b = to_le_bytes(q.block_range[1].begin) /\ Len(b) = 2
      BY <2>2, QueryFields, LeBytes
    <3>2. PICK e \in Bytes : e = to_le_bytes(q.block_range[1].end) /\ Len(e) = 2
      BY <2>2, QueryFields, LeBytes
    <3>3. RangeBytes(q) = Chain(b, e)
      BY <2>2, <3>1, <3>2 DEF RangeBytes, Chain
    <3>4. Chain(b, e) \in Bytes /\ Len(Chain(b, e)) = Len(b) + Len(e)
      BY ChainOfBytes
    <3>. QED  BY <2>2, <3>1, <3>2, <3>3, <3>4
  <2>. QED  BY <2>1, <2>2
<1>2. /\ EngineBytes(q) \in Bytes
      /\ Len(EngineBytes(q)) = IF q.query_engine = 0 /\ q.output_format = 0 THEN 0
                               ELSE IF q.block_range = <<>> THEN 3 ELSE 2
  <2>1. PICK e \in Nat, f \in Nat : e = q.query_engine /\ f = q.output_format
    BY QueryFields
  <2>2. CASE e = 0 /\ f = 0
    BY <2>1, <2>2 DEF EngineBytes, Bytes
  <2>3. CASE ~(e = 0 /\ f = 0) /\ q.block_range = <<>>
    <3>1. EngineBytes(q) = Chain(<<0>>, <<e, f>>)
      BY <2>1, <2>3 DEF EngineBytes, Chain
    <3>2. <<0>> \in Bytes /\ Len(<<0>>) = 1 /\ <<e, f>> \in Bytes /\ Len(<<e, f>>) = 2
      BY DEF Bytes
    <3>3. Chain(<<0>>, <<e, f>>) \in Bytes /\ Len(Chain(<<0>>, <<e, f>>)) = 1 + 2
      BY <3>2, ChainOfBytes, Zenon
    <3>4. EngineBytes(q) \in Bytes /\ Len(EngineBytes(q)) = 3
      BY <3>1, <3>3
    <3>. QED  BY <2>1, <2>3, <3>4, Zenon
  <2>4. CASE ~(e = 0 /\ f = 0) /\ q.block_range # <<>>
    <3>1. EngineBytes(q) = <<>> \o <<e, f>>
      BY <2>1, <2>4 DEF EngineBytes
    <3>2. <<>> \o <<e, f>> = <<e, f>>
      OBVIOUS
    <3>. QED  BY <2>1, <2>4, <3>1, <3>2 DEF Bytes
  <2>. QED  BY <2>2, <2>3, <2>4
<1>. QED  BY <1>1, <1>2

\* Two messages that end in the same bytes have the same optional fields.
LEMMA EqualEnds ==
  ASSUME NEW q \in Queries, NEW r \in Queries,
         Chain(RangeBytes(q), EngineBytes(q)) = Chain(RangeBytes(r), EngineBytes(r))
  PROVE  /\ q.block_range = r.block_range
         /\ q.query_engine = r.query_engine /\ q.output_format = r.output_format
<1>1. /\ Len(RangeBytes(q)) + Len(EngineBytes(q)) = Len(RangeBytes(r)) + Len(EngineBytes(r))
      /\ RangeBytes(q) \in Bytes /\ EngineBytes(q) \in Bytes
      /\ RangeBytes(r) \in Bytes /\ EngineBytes(r) \in Bytes
  <2>1. /\ RangeBytes(q) \in Bytes /\ EngineBytes(q) \in Bytes
        /\ RangeBytes(r) \in Bytes /\ EngineBytes(r) \in Bytes
    BY EndOfMessage
  <2>2. /\ Len(Chain(RangeBytes(q), EngineBytes(q))) = Len(RangeBytes(q)) + Len(EngineBytes(q))
        /\ Len(Chain(RangeBytes(r), EngineBytes(r))) = Len(RangeBytes(r)) + Len(EngineBytes(r))
    BY <2>1, ChainOfBytes
  <2>. QED  BY <2>1, <2>2
<1>2. /\ q.block_range = <<>> <=> r.block_range = <<>>
      /\ q.query_engine = 0 /\ q.output_format = 0 <=> r.query_engine = 0 /\ r.output_format = 0
  <2>1. PICK m \in Nat, n \in Nat, j \in Nat, k \in Nat :
          /\ m = Len(RangeBytes(q)) /\ n = Len(EngineBytes(q)) /\ j = Len(RangeBytes(r))
          /\ k = Len(EngineBytes(r)) /\ m + n = j + k
    <3>1. \A s \in Bytes : Len(s) \in Nat
      BY ChainOfBytes
    <3>. QED  BY <1>1, <3>1
  <2>2. /\ m = IF q.block_range = <<>> THEN 0 ELSE 4
        /\ n = IF q.query_engine = 0 /\ q.output_format = 0 THEN 0
               ELSE IF q.block_range = <<>> THEN 3 ELSE 2
    BY <2>1, EndOfMessage, Zenon
  <2>3. /\ j = IF r.block_range = <<>> THEN 0 ELSE 4
        /\ k = IF r.query_engine = 0 /\ r.output_format = 0 THEN 0
               ELSE IF r.block_range = <<>> THEN 3 ELSE 2
    BY <2>1, EndOfMessage, Zenon
  <2>. QED  BY <2>1, <2>2, <2>3
<1>3. Len(RangeBytes(q)) = Len(RangeBytes(r)) /\ Len(RangeBytes(q)) \in Nat
  BY <1>2, EndOfMessage
<1>4. RangeBytes(q) = RangeBytes(r) /\ EngineBytes(q) = EngineBytes(r)
  BY <1>1, <1>3, ChainEqual
<1>5. q.block_range = r.block_range
  <2>1. CASE q.block_range = <<>>
    BY <1>2, <2>1
  <2>2. CASE q.block_range # <<>>
    <3>1. PICK b \in Nat, e \in Nat : /\ b = q.block_range[1].begin /\ e = q.block_range[1].end
                                      /\ q.block_range = TheRange(q)
      BY <2>2, QueryFields
    <3>2. PICK c \in Nat, f \in Nat : /\ c = r.block_range[1].begin /\ f = r.block_range[1].end
                                      /\ r.block_range = TheRange(r)
      BY <1>2, <2>2, QueryFields
    <3>3. Chain(to_le_bytes(b), to_le_bytes(e)) = Chain(to_le_bytes(c), to_le_bytes(f))
      BY <1>2, <1>4, <2>2, <3>1, <3>2, Zenon DEF RangeBytes, Chain
    <3>4. /\ to_le_bytes(b) \in Bytes /\ Len(to_le_bytes(b)) = 2
          /\ to_le_bytes(c) \in Bytes /\ Len(to_le_bytes(c)) = 2
          /\ to_le_bytes(e) \in Bytes /\ to_le_bytes(f) \in Bytes
      BY LeBytes
    <3>5. to_le_bytes(b) = to_le_bytes(c) /\ to_le_bytes(e) = to_le_bytes(f)
      BY <3>3, <3>4, ChainEqual
    <3>6. b = c /\ e = f
      BY <3>5, LeBytes
    <3>. QED  BY <3>1, <3>2, <3>6 DEF TheRange
  <2>. QED  BY <2>1, <2>2
<1>6. q.query_engine = r.query_engine /\ q.output_format = r.output_format
  <2>1. PICK e \in Nat, f \in Nat : e = q.query_engine /\ f = q.output_format
    BY QueryFields
  <2>2. PICK c \in Nat, d \in Nat : c = r.query_engine /\ d = r.output_format
    BY QueryFields
  <2>3. CASE e = 0 /\ f = 0
    BY <1>2, <2>1, <2>3
  <2>4. CASE ~(e = 0 /\ f = 0) /\ q.block_range = <<>>
    <3>1. Chain(<<0>>, <<e, f>>) = Chain(<<0>>, <<c, d>>)
      BY <1>2, <1>4, <2>1, <2>2, <2>4 DEF EngineBytes, Chain
    <3>2. <<0>> \in Bytes /\ <<e, f>> \in Bytes /\ <<c, d>> \in Bytes
      BY DEF Bytes
    <3>3. <<e, f>> = <<c, d>>
      BY <3>1, <3>2, ChainEqual
    <3>. QED  BY <2>1, <2>2, <3>3
  <2>5. CASE ~(e = 0 /\ f = 0) /\ q.block_range # <<>>
    <3>1. <<>> \o <<e, f>> = <<>> \o <<c, d>>
      BY <1>2, <1>4, <2>1, <2>2, <2>5, Zenon DEF EngineBytes
    <3>2. <<>> \o <<e, f>> = <<e, f>> /\ <<>> \o <<c, d>> = <<c, d>>
      OBVIOUS
    <3>. QED  BY <2>1, <2>2, <3>1, <3>2
  <2>. QED  BY <2>3, <2>4, <2>5
<1>. QED  BY <1>5, <1>6

\* what follows the fields of a message, one by one
FromRange(t) == Chain(RangeBytes(t), EngineBytes(t))
FromChunk(t) == Chain(Prefixed(t.chunk_id), FromRange(t))
FromQuery(t) == Chain(Prefixed(t.query), FromChunk(t))
FromDataset(t) == Chain(Prefixed(t.dataset), FromQuery(t))
FromTime(t) == Chain(to_le_bytes(t.timestamp_ms), FromDataset(t))
FromWorker(t, w) == Chain(PeerBytes(w), FromTime(t))

LEMMA PartsOfMessage ==
  ASSUME NEW t \in Queries, NEW w \in WorkerKeys
  PROVE  /\ FromRange(t) \in Bytes /\ FromChunk(t) \in Bytes /\ FromQuery(t) \in Bytes
         /\ FromDataset(t) \in Bytes /\ FromTime(t) \in Bytes /\ FromWorker(t, w) \in Bytes
         /\ QueryMsg(t, w) # <<>> =>
              Len(t.query_id) = 1 /\ QueryMsg(t, w) = Chain(t.query_id, FromWorker(t, w))
<1>1. w \in Bytes
  BY SignatureAssumption DEF Bytes
<1>2. /\ t.query_id \in Bytes /\ t.dataset \in Bytes /\ t.query \in Bytes /\ t.chunk_id \in Bytes
      /\ t.timestamp_ms \in Nat
  BY QueryFields
<1>3. PICK b \in Bytes : b = PeerBytes(w)
  BY <1>1, FieldTypes
<1>4. PICK c \in Bytes : c = to_le_bytes(t.timestamp_ms)
  BY <1>2, LeBytes
<1>5. PICK d \in Bytes : d = Prefixed(t.dataset)
  BY <1>2, FieldTypes
<1>6. PICK e \in Bytes : e = Prefixed(t.query)
  BY <1>2, FieldTypes
<1>7. PICK f \in Bytes : f = Prefixed(t.chunk_id)
  BY <1>2, FieldTypes
<1>8. PICK g \in Bytes : g = RangeBytes(t)
  BY EndOfMessage
<1>9. PICK h \in Bytes : h = EngineBytes(t)
  BY EndOfMessage
<1>10. /\ FromRange(t) = Chain(g, h)
       /\ FromChunk(t) = Chain(f, FromRange(t))
       /\ FromQuery(t) = Chain(e, FromChunk(t))
       /\ FromDataset(t) = Chain(d, FromQuery(t))
       /\ FromTime(t) = Chain(c, FromDataset(t))
       /\ FromWorker(t, w) = Chain(b, FromTime(t))
  BY <1>3, <1>4, <1>5, <1>6, <1>7, <1>8, <1>9, Zenon
     DEF FromRange, FromChunk, FromQuery, FromDataset, FromTime, FromWorker
<1>11. /\ FromRange(t) \in Bytes /\ FromChunk(t) \in Bytes /\ FromQuery(t) \in Bytes
       /\ FromDataset(t) \in Bytes /\ FromTime(t) \in Bytes /\ FromWorker(t, w) \in Bytes
  BY <1>10, ChainOfBytes
<1>12. ASSUME QueryMsg(t, w) # <<>>
       PROVE  Len(t.query_id) = 1 /\ QueryMsg(t, w) = Chain(t.query_id, FromWorker(t, w))
  <2>1. /\ Len(t.query_id) = 1
        /\ QueryMsg(t, w) = t.query_id \o PeerBytes(w) \o to_le_bytes(t.timestamp_ms)
             \o Prefixed(t.dataset) \o Prefixed(t.query) \o Prefixed(t.chunk_id)
             \o RangeBytes(t) \o EngineBytes(t)
    BY <1>12, Zenon DEF QueryMsg, RangeBytes, EngineBytes, UUID_V4_SIZE
  <2>2. PICK a \in Bytes : a = t.query_id
    BY <1>2
  <2>3. QueryMsg(t, w) = Chain(Chain(Chain(Chain(Chain(Chain(Chain(a, b), c), d), e), f), g), h)
    BY <1>3, <1>4, <1>5, <1>6, <1>7, <1>8, <1>9, <2>1, <2>2, Zenon DEF Chain
  <2>4. \A k, l \in Bytes : Chain(k, l) \in Bytes
    BY ChainOfBytes
  <2>5. \A k, l, m \in Bytes : Chain(Chain(k, l), m) = Chain(k, Chain(l, m))
    BY ChainAssociative
  <2>6. PICK ab \in Bytes : ab = Chain(a, b)
    BY <2>4
  <2>7. PICK ac \in Bytes : ac = Chain(ab, c)
    BY <2>4
  <2>8. PICK ad \in Bytes : ad = Chain(ac, d)
    BY <2>4
  <2>9. PICK ae \in Bytes : ae = Chain(ad, e)
    BY <2>4
  <2>10. PICK af \in Bytes : af = Chain(ae, f)
    BY <2>4
  <2>11. QueryMsg(t, w) = Chain(Chain(af, g), h)
    BY <2>3, <2>6, <2>7, <2>8, <2>9, <2>10
  <2>12. Chain(Chain(af, g), h) = Chain(af, FromRange(t))
    BY <1>10, <2>5
  <2>13. Chain(af, FromRange(t)) = Chain(ae, FromChunk(t))
    BY <1>10, <1>11, <2>5, <2>10
  <2>14. Chain(ae, FromChunk(t)) = Chain(ad, FromQuery(t))
    BY <1>10, <1>11, <2>5, <2>9
  <2>15. Chain(ad, FromQuery(t)) = Chain(ac, FromDataset(t))
    BY <1>10, <1>11, <2>5, <2>8
  <2>16. Chain(ac, FromDataset(t)) = Chain(ab, FromTime(t))
    BY <1>10, <1>11, <2>5, <2>7
  <2>17. Chain(ab, FromTime(t)) = Chain(a, FromWorker(t, w))
    BY <1>10, <1>11, <2>5, <2>6
  <2>. QED  BY <2>1, <2>2, <2>11, <2>12, <2>13, <2>14, <2>15, <2>16, <2>17
<1>. QED  BY <1>11, <1>12

\* "No two queries should have the same encoding" (signatures.rs:52), but for
\* the request_id.
LEMMA EqualQueryMsgs ==
  ASSUME NEW q \in Queries, NEW r \in Queries, NEW u \in WorkerKeys, NEW w \in WorkerKeys,
         QueryMsg(q, u) # <<>>, QueryMsg(q, u) = QueryMsg(r, w)
  PROVE  /\ u = w
         /\ q.query_id = r.query_id /\ q.timestamp_ms = r.timestamp_ms /\ q.dataset = r.dataset
         /\ q.query = r.query /\ q.chunk_id = r.chunk_id /\ q.block_range = r.block_range
         /\ q.query_engine = r.query_engine /\ q.output_format = r.output_format
<1>1. u \in Bytes /\ w \in Bytes
  BY SignatureAssumption DEF Bytes
<1>2. /\ q.query_id \in Bytes /\ q.dataset \in Bytes /\ q.query \in Bytes /\ q.chunk_id \in Bytes
      /\ r.query_id \in Bytes /\ r.dataset \in Bytes /\ r.query \in Bytes /\ r.chunk_id \in Bytes
      /\ q.timestamp_ms \in Nat /\ r.timestamp_ms \in Nat
  BY QueryFields
<1>3. /\ FromRange(q) \in Bytes /\ FromChunk(q) \in Bytes /\ FromQuery(q) \in Bytes
      /\ FromDataset(q) \in Bytes /\ FromTime(q) \in Bytes /\ FromWorker(q, u) \in Bytes
      /\ FromRange(r) \in Bytes /\ FromChunk(r) \in Bytes /\ FromQuery(r) \in Bytes
      /\ FromDataset(r) \in Bytes /\ FromTime(r) \in Bytes /\ FromWorker(r, w) \in Bytes
  BY PartsOfMessage
<1>4. /\ Chain(q.query_id, FromWorker(q, u)) = Chain(r.query_id, FromWorker(r, w))
      /\ Len(q.query_id) = Len(r.query_id)
  BY PartsOfMessage
<1>5. q.query_id = r.query_id /\ FromWorker(q, u) = FromWorker(r, w)
  BY <1>2, <1>3, <1>4, ChainEqual, Zenon
<1>6. u = w /\ FromTime(q) = FromTime(r)
  BY <1>1, <1>3, <1>5, EqualPeers DEF FromWorker
<1>7. q.timestamp_ms = r.timestamp_ms /\ FromDataset(q) = FromDataset(r)
  <2>1. PICK m \in Nat, n \in Nat : m = q.timestamp_ms /\ n = r.timestamp_ms
    BY <1>2
  <2>2. /\ to_le_bytes(m) \in Bytes /\ to_le_bytes(n) \in Bytes
        /\ Len(to_le_bytes(m)) = Len(to_le_bytes(n))
    BY LeBytes
  <2>3. Chain(to_le_bytes(m), FromDataset(q)) = Chain(to_le_bytes(n), FromDataset(r))
    BY <1>6, <2>1 DEF FromTime
  <2>4. to_le_bytes(m) = to_le_bytes(n) /\ FromDataset(q) = FromDataset(r)
    BY <1>3, <2>2, <2>3, ChainEqual
  <2>. QED  BY <2>1, <2>4, LeBytes
<1>8. q.dataset = r.dataset /\ FromQuery(q) = FromQuery(r)
  <2>1. PICK a \in Bytes, b \in Bytes : a = q.dataset /\ b = r.dataset
    BY <1>2
  <2>2. PICK x \in Bytes, y \in Bytes : x = FromQuery(q) /\ y = FromQuery(r)
    BY <1>3
  <2>3. Chain(Prefixed(a), x) = Chain(Prefixed(b), y)
    BY <1>7, <2>1, <2>2 DEF FromDataset
  <2>. QED  BY <2>1, <2>2, <2>3, EqualPrefixed
<1>9. q.query = r.query /\ FromChunk(q) = FromChunk(r)
  <2>1. PICK a \in Bytes, b \in Bytes : a = q.query /\ b = r.query
    BY <1>2
  <2>2. PICK x \in Bytes, y \in Bytes : x = FromChunk(q) /\ y = FromChunk(r)
    BY <1>3
  <2>3. Chain(Prefixed(a), x) = Chain(Prefixed(b), y)
    BY <1>8, <2>1, <2>2 DEF FromQuery
  <2>. QED  BY <2>1, <2>2, <2>3, EqualPrefixed
<1>10. q.chunk_id = r.chunk_id /\ FromRange(q) = FromRange(r)
  <2>1. PICK a \in Bytes, b \in Bytes : a = q.chunk_id /\ b = r.chunk_id
    BY <1>2
  <2>2. PICK x \in Bytes, y \in Bytes : x = FromRange(q) /\ y = FromRange(r)
    BY <1>3
  <2>3. Chain(Prefixed(a), x) = Chain(Prefixed(b), y)
    BY <1>9, <2>1, <2>2 DEF FromChunk
  <2>. QED  BY <2>1, <2>2, <2>3, EqualPrefixed
<1>11. /\ q.block_range = r.block_range
       /\ q.query_engine = r.query_engine /\ q.output_format = r.output_format
  BY <1>10, EqualEnds DEF FromRange
<1>. QED  BY <1>5, <1>6, <1>7, <1>8, <1>9, <1>10, <1>11

\* request_id is all that Signed leaves out, and QueryMsg does not look at it.
LEMMA SignedFields ==
  ASSUME NEW q \in Queries, NEW r \in Queries, NEW w
  PROVE  /\ Signed(q) = Signed(r) <=>
              /\ q.query_id = r.query_id /\ q.timestamp_ms = r.timestamp_ms /\ q.dataset = r.dataset
              /\ q.query = r.query /\ q.chunk_id = r.chunk_id /\ q.block_range = r.block_range
              /\ q.query_engine = r.query_engine /\ q.output_format = r.output_format
         /\ Signed(q) = Signed(r) => QueryMsg(q, w) = QueryMsg(r, w)
<1>1. q \in QueryType /\ r \in QueryType
  BY SignatureAssumption
<1>2. \A t \in QueryType : Signed(t) =
        [query_id |-> t.query_id, request_id |-> Nothing, dataset |-> t.dataset,
         query |-> t.query, chunk_id |-> t.chunk_id, timestamp_ms |-> t.timestamp_ms,
         block_range |-> t.block_range, query_engine |-> t.query_engine,
         output_format |-> t.output_format]
  <2>. SUFFICES ASSUME NEW t \in QueryType
                PROVE  [t EXCEPT !.request_id = Nothing] =
                         [query_id |-> t.query_id, request_id |-> Nothing, dataset |-> t.dataset,
                          query |-> t.query, chunk_id |-> t.chunk_id, timestamp_ms |-> t.timestamp_ms,
                          block_range |-> t.block_range, query_engine |-> t.query_engine,
                          output_format |-> t.output_format]
    BY DEF Signed
  <2>1. t = [query_id |-> t.query_id, request_id |-> t.request_id, dataset |-> t.dataset,
             query |-> t.query, chunk_id |-> t.chunk_id, timestamp_ms |-> t.timestamp_ms,
             block_range |-> t.block_range, query_engine |-> t.query_engine,
             output_format |-> t.output_format]
    BY DEF QueryType
  <2>. QED  BY <2>1
<1>3. Signed(q) = Signed(r) <=>
        /\ q.query_id = r.query_id /\ q.timestamp_ms = r.timestamp_ms /\ q.dataset = r.dataset
        /\ q.query = r.query /\ q.chunk_id = r.chunk_id /\ q.block_range = r.block_range
        /\ q.query_engine = r.query_engine /\ q.output_format = r.output_format
  BY <1>1, <1>2
<1>4. ASSUME Signed(q) = Signed(r)
      PROVE  QueryMsg(q, w) = QueryMsg(r, w)
  BY <1>3, <1>4, Zenon DEF QueryMsg
<1>. QED  BY <1>3, <1>4

\* The messages of results: data and errors differ in length.
LEMMA EqualResultMsgs ==
  ASSUME NEW r \in Results, NEW t \in Results, ResultMsg(r) # <<>>, ResultMsg(r) = ResultMsg(t)
  PROVE  r = t
<1>1. ASSUME NEW u \in Results, ResultMsg(u) # <<>>
      PROVE  /\ u.query_id \in Bytes /\ Len(u.query_id) = 1
             /\ \/ \E data \in Nat, last \in Nat :
                     /\ u = [query_id |-> u.query_id,
                             result |-> <<[ok |-> TRUE, data |-> data, last_block |-> last]>>]
                     /\ ResultMsg(u) = Chain(Chain(u.query_id, to_le_bytes(data)), to_le_bytes(last))
                \/ \E code \in Nat :
                     /\ u = [query_id |-> u.query_id, result |-> <<[ok |-> FALSE, code |-> code]>>]
                     /\ ResultMsg(u) = Chain(u.query_id, <<code>>)
  <2>1. u \in ResultType /\ Len(u.result) <= 1 /\ u.result # <<>>
    BY <1>1, SignatureAssumption, Zenon DEF ResultMsg
  <2>2. /\ u.query_id \in Bytes
        /\ u = [query_id |-> u.query_id, result |-> u.result]
        /\ u.result \in Seq([ok : {TRUE}, data : Nat, last_block : Nat] \cup [ok : {FALSE}, code : Nat])
    BY <2>1 DEF ResultType, Bytes
  <2>3. u.result[1] \in [ok : {TRUE}, data : Nat, last_block : Nat] \cup [ok : {FALSE}, code : Nat]
    BY <2>1, <2>2, OptionalField, Zenon
  <2>4. PICK x : u.result = <<x>> /\ u.result[1] = x
    BY <2>1, <2>2, OptionalField
  <2>5. x \in [ok : {TRUE}, data : Nat, last_block : Nat] \/ x \in [ok : {FALSE}, code : Nat]
    BY <2>3, <2>4, Zenon
  <2>6. CASE x \in [ok : {TRUE}, data : Nat, last_block : Nat]
    <3>1. PICK data \in Nat, last \in Nat : x = [ok |-> TRUE, data |-> data, last_block |-> last]
      BY <2>6, Zenon
    <3>2. x.ok /\ x.data = data /\ x.last_block = last
      BY <3>1
    <3>3. ResultMsg(u) = msg_to_sign_query_ok(u.query_id, to_le_bytes(data), last)
      BY <2>1, <2>4, <3>2, Zenon DEF ResultMsg, sha3_256
    <3>4. Len(u.query_id) = 1 /\ ResultMsg(u) = u.query_id \o to_le_bytes(data) \o to_le_bytes(last)
      BY <1>1, <3>3, Zenon DEF msg_to_sign_query_ok, UUID_V4_SIZE
    <3>. QED  BY <2>2, <2>4, <3>1, <3>4 DEF Chain
  <2>7. CASE x \in [ok : {FALSE}, code : Nat]
    <3>1. PICK code \in Nat : x = [ok |-> FALSE, code |-> code]
      BY <2>7, Zenon
    <3>2. ~x.ok /\ x.code = code
      BY <3>1
    <3>3. ResultMsg(u) = msg_to_sign_query_err(u.query_id, code)
      BY <1>1, <2>1, <2>4, <3>2, Zenon DEF ResultMsg
    <3>4. Len(u.query_id) = 1 /\ ResultMsg(u) = u.query_id \o <<code>>
      BY <1>1, <3>3, Zenon DEF msg_to_sign_query_err, UUID_V4_SIZE
    <3>. QED  BY <2>2, <2>4, <3>1, <3>4 DEF Chain
  <2>. QED  BY <2>5, <2>6, <2>7, Zenon
<1>2. PICK a \in Bytes, b \in Bytes : a = r.query_id /\ Len(a) = 1 /\ b = t.query_id /\ Len(b) = 1
  BY <1>1
<1>3. \A n \in Nat : <<n>> \in Bytes /\ Len(<<n>>) = 1
  BY DEF Bytes
<1>4. \A n \in Nat : to_le_bytes(n) \in Bytes /\ Len(to_le_bytes(n)) = 2
  BY LeBytes
<1>5. ASSUME NEW n \in Nat, NEW l \in Nat, NEW u \in Bytes, Len(u) = 1
      PROVE  /\ Chain(u, to_le_bytes(n)) \in Bytes /\ Len(Chain(u, to_le_bytes(n))) = 3
             /\ Len(Chain(Chain(u, to_le_bytes(n)), to_le_bytes(l))) = 5
  <2>1. Chain(u, to_le_bytes(n)) \in Bytes /\ Len(Chain(u, to_le_bytes(n))) = 1 + 2
    BY <1>4, <1>5, ChainOfBytes, Zenon
  <2>2. PICK c \in Bytes, d \in Bytes : /\ c = Chain(u, to_le_bytes(n)) /\ Len(c) = 3
                                        /\ d = to_le_bytes(l) /\ Len(d) = 2
    BY <1>4, <2>1
  <2>3. Len(Chain(c, d)) = Len(c) + Len(d)
    BY ChainOfBytes
  <2>. QED  BY <2>1, <2>2, <2>3
<1>6. ASSUME NEW n \in Nat, NEW u \in Bytes, Len(u) = 1
      PROVE  Len(Chain(u, <<n>>)) = 2
  <2>1. Len(Chain(u, <<n>>)) = 1 + 1
    BY <1>3, <1>6, ChainOfBytes, Zenon
  <2>. QED  BY <2>1
<1>7. CASE \E data \in Nat, last \in Nat :
             /\ r = [query_id |-> a, result |-> <<[ok |-> TRUE, data |-> data, last_block |-> last]>>]
             /\ ResultMsg(r) = Chain(Chain(a, to_le_bytes(data)), to_le_bytes(last))
  <2>1. PICK data \in Nat, last \in Nat :
          /\ r = [query_id |-> a, result |-> <<[ok |-> TRUE, data |-> data, last_block |-> last]>>]
          /\ ResultMsg(r) = Chain(Chain(a, to_le_bytes(data)), to_le_bytes(last))
    BY <1>7, Zenon
  <2>2. Len(ResultMsg(t)) = 5
    BY <1>2, <1>5, <2>1
  <2>3. PICK data2 \in Nat, last2 \in Nat :
          /\ t = [query_id |-> b, result |-> <<[ok |-> TRUE, data |-> data2, last_block |-> last2]>>]
          /\ ResultMsg(t) = Chain(Chain(b, to_le_bytes(data2)), to_le_bytes(last2))
    <3>1. ~\E code \in Nat : ResultMsg(t) = Chain(b, <<code>>)
      <4>1. ASSUME NEW code \in Nat, ResultMsg(t) = Chain(b, <<code>>)
            PROVE  FALSE
        <5>1. Len(Chain(b, <<code>>)) = 2
          BY <1>2, <1>6
        <5>2. 5 = 2
          BY <2>2, <4>1, <5>1, Zenon
        <5>. QED  BY <5>2
      <4>. QED  BY <4>1, Zenon
    <3>. QED  BY <1>1, <1>2, <3>1, Zenon
  <2>4. Chain(a, to_le_bytes(data)) = Chain(b, to_le_bytes(data2)) /\ to_le_bytes(last) = to_le_bytes(last2)
    <3>1. /\ Chain(a, to_le_bytes(data)) \in Bytes /\ Chain(b, to_le_bytes(data2)) \in Bytes
          /\ Len(Chain(a, to_le_bytes(data))) = Len(Chain(b, to_le_bytes(data2)))
      BY <1>2, <1>5
    <3>2. Chain(Chain(a, to_le_bytes(data)), to_le_bytes(last))
          = Chain(Chain(b, to_le_bytes(data2)), to_le_bytes(last2))
      BY <2>1, <2>3, Zenon
    <3>. QED  BY <1>4, <3>1, <3>2, ChainEqual
  <2>5. a = b /\ to_le_bytes(data) = to_le_bytes(data2)
    BY <1>2, <1>4, <2>4, ChainEqual
  <2>6. data = data2 /\ last = last2
    BY <2>4, <2>5, LeBytes
  <2>. QED  BY <2>1, <2>3, <2>5, <2>6, Zenon
<1>8. CASE \E code \in Nat :
             /\ r = [query_id |-> a, result |-> <<[ok |-> FALSE, code |-> code]>>]
             /\ ResultMsg(r) = Chain(a, <<code>>)
  <2>1. PICK code \in Nat : /\ r = [query_id |-> a, result |-> <<[ok |-> FALSE, code |-> code]>>]
                            /\ ResultMsg(r) = Chain(a, <<code>>)
    BY <1>8, Zenon
  <2>2. Len(ResultMsg(t)) = 2
    BY <1>2, <1>6, <2>1
  <2>3. PICK code2 \in Nat : /\ t = [query_id |-> b, result |-> <<[ok |-> FALSE, code |-> code2]>>]
                             /\ ResultMsg(t) = Chain(b, <<code2>>)
    <3>1. ~\E data \in Nat, last \in Nat :
             ResultMsg(t) = Chain(Chain(b, to_le_bytes(data)), to_le_bytes(last))
      <4>1. ASSUME NEW data \in Nat, NEW last \in Nat,
                   ResultMsg(t) = Chain(Chain(b, to_le_bytes(data)), to_le_bytes(last))
            PROVE  FALSE
        <5>1. Len(Chain(Chain(b, to_le_bytes(data)), to_le_bytes(last))) = 5
          BY <1>2, <1>5
        <5>2. 2 = 5
          BY <2>2, <4>1, <5>1, Zenon
        <5>. QED  BY <5>2
      <4>. QED  BY <4>1
    <3>. QED  BY <1>1, <1>2, <3>1, Zenon
  <2>4. a = b /\ <<code>> = <<code2>>
    <3>1. Chain(a, <<code>>) = Chain(b, <<code2>>) /\ <<code>> \in Bytes /\ <<code2>> \in Bytes
      BY <1>3, <2>1, <2>3, Zenon
    <3>2. Len(a) = Len(b)
      BY <1>2
    <3>. QED  BY <3>1, <3>2, ChainEqual
  <2>5. code = code2
    BY <2>4
  <2>. QED  BY <2>1, <2>3, <2>4, <2>5
<1>. QED  BY <1>1, <1>2, <1>7, <1>8, Zenon

\* The summary of a result verifies with a signature just if the result does:
\* SummaryVerifies puts together what ResultMsg signed.
LEMMA SummaryOfResult ==
  ASSUME NEW r \in Results, NEW w, NEW signature
  PROVE  SummaryVerifies(Summary(r, w, signature)) <=>
           ResultMsg(r) # <<>> /\ signature = sign(ResultMsg(r), w)
<1>1. CASE r.result = <<>>
  BY <1>1, Zenon DEF Summary, SummaryVerifies, ResultMsg
<1>2. CASE r.result # <<>> /\ r.result[1].ok
  BY <1>2, Zenon DEF Summary, SummaryVerifies, ResultMsg, verify
<1>3. CASE r.result # <<>> /\ ~r.result[1].ok
  BY <1>3, Zenon DEF Summary, SummaryVerifies, ResultMsg, verify
<1>. QED  BY <1>1, <1>2, <1>3

-----------------------------------------------------------------------------
\* what has been signed so far, by whom
QueryInv ==
  /\ stage \in {"query", "result", "summary", "done", "invalid"}
  /\ stage \in {"result", "summary", "done"} =>
       /\ query \in Queries /\ worker \in WorkerKeys
       /\ QueryMsg(query, worker) # <<>> /\ query_signature = sign(QueryMsg(query, worker), Client)
  /\ stage \in {"summary", "done"} =>
       /\ query_result \in Results
       /\ ResultMsg(query_result) # <<>> /\ result_signature = sign(ResultMsg(query_result), worker)
  /\ stage = "done" => finished = Summary(query_result, worker, result_signature)

LEMMA NextQueryInv ==
  ASSUME QueryInv, [QueryNext]_queryVars
  PROVE  QueryInv'
<1>1. CASE UNCHANGED queryVars
  BY <1>1 DEF queryVars, QueryInv
<1>2. ASSUME NEW q \in Queries, NEW w \in WorkerKeys, SignQuery(q, w)
      PROVE  QueryInv'
  BY <1>2 DEF SignQuery, QueryInv
<1>3. ASSUME NEW r \in Results, SignResult(r)
      PROVE  QueryInv'
  BY <1>3, Zenon DEF SignResult, QueryInv
<1>4. CASE Summarize
  BY <1>4 DEF Summarize, QueryInv
<1>. QED  BY <1>1, <1>2, <1>3, <1>4 DEF QueryNext

LEMMA QueryInvImplies ==
  ASSUME QueryInv
  PROVE  SignaturesBind
<1>1. ASSUME stage = "result", NEW q \in Queries, NEW w \in WorkerKeys
      PROVE  verify_client_signature(q, Client, query_signature, w) <=>
               Signed(q) = Signed(query) /\ w = worker
  <2>1. /\ query \in Queries /\ worker \in WorkerKeys
        /\ QueryMsg(query, worker) # <<>> /\ query_signature = sign(QueryMsg(query, worker), Client)
    BY <1>1 DEF QueryInv
  <2>2. verify_client_signature(q, Client, query_signature, w) <=>
          QueryMsg(q, w) # <<>> /\ QueryMsg(query, worker) = QueryMsg(q, w)
    BY <2>1 DEF verify_client_signature, verify, sign
  <2>3. ASSUME QueryMsg(q, w) # <<>>, QueryMsg(query, worker) = QueryMsg(q, w)
        PROVE  Signed(q) = Signed(query) /\ w = worker
    BY <2>1, <2>3, EqualQueryMsgs, SignedFields
  <2>4. ASSUME Signed(q) = Signed(query), w = worker
        PROVE  QueryMsg(q, w) # <<>> /\ QueryMsg(query, worker) = QueryMsg(q, w)
    BY <2>1, <2>4, SignedFields
  <2>. QED  BY <2>2, <2>3, <2>4
<1>2. ASSUME stage = "done"
      PROVE  /\ SummaryVerifies(finished)
             /\ \A r \in Results, w \in WorkerKeys :
                  SummaryVerifies(Summary(r, w, result_signature)) <=> r = query_result /\ w = worker
  <2>1. /\ query_result \in Results /\ worker \in WorkerKeys
        /\ ResultMsg(query_result) # <<>> /\ result_signature = sign(ResultMsg(query_result), worker)
        /\ finished = Summary(query_result, worker, result_signature)
    BY <1>2 DEF QueryInv
  <2>2. SummaryVerifies(finished)
    BY <2>1, SummaryOfResult
  <2>3. ASSUME NEW r \in Results, NEW w \in WorkerKeys
        PROVE  SummaryVerifies(Summary(r, w, result_signature)) <=> r = query_result /\ w = worker
    <3>1. SummaryVerifies(Summary(r, w, result_signature)) <=>
            ResultMsg(r) # <<>> /\ ResultMsg(query_result) = ResultMsg(r) /\ worker = w
      BY <2>1, SummaryOfResult DEF sign
    <3>. QED  BY <2>1, <3>1, EqualResultMsgs
  <2>. QED  BY <2>2, <2>3
<1>. QED  BY <1>1, <1>2 DEF SignaturesBind

\* A signature holds for the query and the worker it was made for and no other,
\* and the worker's signature for the summary of the result it was made for, for
\* fields of every length and any number of queries, results and workers.
THEOREM SignaturesAlwaysBind == QuerySpec => []SignaturesBind
<1>1. QueryInit => QueryInv
  BY DEF QueryInit, QueryInv
<1>2. QueryInv /\ [QueryNext]_queryVars => QueryInv'
  BY NextQueryInv
<1>3. QueryInv => SignaturesBind
  BY QueryInvImplies
<1>. QED  BY <1>1, <1>2, <1>3, PTL DEF QuerySpec
=============================================================================
