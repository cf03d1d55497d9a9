---------------------------- MODULE ColumnLemmas ----------------------------
(***************************************************************************)
(* Facts about the columns of an assignment, for the proofs about the      *)
(* assignments of workers and portals: what a binary search returns, and   *)
(* that hashes, tops, slices and versions are read back as they were       *)
(* pushed, for columns of any length.                                      *)
(***************************************************************************)
EXTENDS AssignmentColumns, TLAPS
LOCAL WF == INSTANCE WellFoundedInduction

-----------------------------------------------------------------------------
(***************************************************************************)
(* Facts about sequences and numbers                                       *)
(***************************************************************************)

\* the empty column
LEMMA EmptyFacts ==
  ASSUME NEW S
  PROVE  /\ <<>> \in Seq(S) /\ Len(<<>>) = 0
         /\ \A s \in Seq(S) : s # <<>> => Len(s) \in Nat \ {0}
  OBVIOUS

\* a column as a function
LEMMA LenFacts ==
  ASSUME NEW S, NEW s \in Seq(S)
  PROVE  Len(s) \in Nat /\ s \in [1..Len(s) -> S] /\ DOMAIN s = 1..Len(s)
  OBVIOUS

\* columns are equal when they have the same entries
LEMMA SameEntries ==
  ASSUME NEW S, NEW s \in Seq(S), NEW t \in Seq(S),
         Len(s) = Len(t), \A i \in 1..Len(s) : s[i] = t[i]
  PROVE  s = t
  OBVIOUS

\* pushing an entry to a column
LEMMA AppendFacts ==
  ASSUME NEW S, NEW s \in Seq(S), NEW x \in S
  PROVE  /\ Append(s, x) \in Seq(S) /\ Append(s, x) # <<>>
         /\ Len(Append(s, x)) = Len(s) + 1
         /\ \A i \in 1..Len(s) : Append(s, x)[i] = s[i]
         /\ Append(s, x)[Len(s) + 1] = x
  OBVIOUS

\* extending a column by another (Vec::extend_from_slice)
LEMMA ConcatFacts ==
  ASSUME NEW S, NEW s \in Seq(S), NEW t \in Seq(S)
  PROVE  /\ s \o t \in Seq(S)
         /\ Len(s \o t) = Len(s) + Len(t)
         /\ \A i \in 1..Len(s) + Len(t) : (s \o t)[i] = IF i <= Len(s) THEN s[i] ELSE t[i - Len(s)]
  OBVIOUS

\* a slice of a column
LEMMA SubSeqFacts ==
  ASSUME NEW S, NEW s, NEW m \in Int, NEW n \in Int, \A i \in m..n : s[i] \in S
  PROVE  /\ SubSeq(s, m, n) \in Seq(S)
         /\ Len(SubSeq(s, m, n)) = IF m <= n THEN n - m + 1 ELSE 0
         /\ \A i \in 1..n - m + 1 : SubSeq(s, m, n)[i] = s[m + i - 1]
  OBVIOUS

\* s2 is s of length n with x after it
Longer(s2, s, n, x) == Len(s2) = n + 1 /\ s2[n + 1] = x /\ \A k \in 1..n : s2[k] = s[k]

\* Pushing an entry makes a column longer by it.
LEMMA AppendLonger ==
  ASSUME NEW S, NEW s \in Seq(S), NEW x \in S
  PROVE  Append(s, x) \in Seq(S) /\ Longer(Append(s, x), s, Len(s), x)
BY DEF Longer

\* the least-number principle, from the well-foundedness of < on Nat
LEMMA LeastElement ==
  ASSUME NEW T \in SUBSET Nat, T # {}
  PROVE  \E n \in T : \A m \in T : n <= m
<1>. DEFINE R == {p \in Nat \X Nat : p[1] < p[2]}
<1>1. WF!IsWellFoundedOn(R, Nat)
  BY WF!NatLessThanWellFounded DEF WF!OpToRel
<1>2. \A m, k \in Nat : m < k => <<m, k>> \in R
  OBVIOUS
<1>. HIDE DEF R
<1>3. PICK n \in T : \A m \in T : ~(<<m, n>> \in R)
  BY <1>1, WF!WFMin, Zenon
<1>4. \A m \in T : ~(m < n)
  BY <1>2, <1>3, Zenon
<1>5. \A m \in T : n <= m
  BY <1>4
<1>. QED  BY <1>5

-----------------------------------------------------------------------------
(***************************************************************************)
(* The binary searches: what the last window of a bisection says           *)
(***************************************************************************)

\* one probe of partition_point in low..high
Probe(holds, f, low, high) ==
  LET mid == low + (high - low) \div 2
  IN IF low >= high THEN low
     ELSE IF holds[mid + 1] THEN f[<<mid + 1, high>>] ELSE f[<<low, mid>>]

Bisects(holds, f) ==
  f = [w \in (0..Len(holds)) \X (0..Len(holds)) |-> Probe(holds, f, w[1], w[2])]

\* partition_point is a function that takes each probe's answer.
LEMMA BisectUnfold ==
  ASSUME NEW holds, NEW f, Bisects(holds, f)
  PROVE  \E g : Bisects(holds, g) /\ partition_point(holds) = g[<<0, Len(holds)>>]
<1>. PICK g : g = CHOOSE h : Bisects(holds, h)
  OBVIOUS
<1>1. Bisects(holds, g)
  OBVIOUS
<1>2. partition_point(holds) = g[<<0, Len(holds)>>]
  BY Zenon DEF partition_point, Bisects, Probe
<1>. QED  BY <1>1, <1>2, Zenon

\* between `low' and `high' there is a probe
LEMMA ProbeInside ==
  ASSUME NEW low \in Nat, NEW high \in Nat, low < high
  PROVE  \E mid \in Nat : mid = low + (high - low) \div 2 /\ low <= mid /\ mid < high
OBVIOUS

\* partition_point returns the number of leading elements that satisfy the
\* predicate, if no others do.
LEMMA PartitionPoint ==
  ASSUME NEW holds, NEW n \in Nat, Len(holds) = n, NEW p \in 0..n,
         \A i \in 1..n : holds[i] <=> i <= p
  PROVE  partition_point(holds) = p
<1>. DEFINE Clamp(low, high) == IF low >= high THEN low
                                ELSE IF p < low THEN low ELSE IF high < p THEN high ELSE p
            Windows == (0..n) \X (0..n)
            g == [w \in Windows |-> Clamp(w[1], w[2])]
<1>1. ASSUME NEW low \in 0..n, NEW high \in 0..n
      PROVE  Clamp(low, high) = Probe(holds, g, low, high)
  <2>1. CASE low >= high
    BY <2>1 DEF Probe
  <2>2. CASE low < high
    <3>1. PICK mid \in Nat : mid = low + (high - low) \div 2 /\ low <= mid /\ mid < high
      BY <2>2, ProbeInside
    <3>2. holds[mid + 1] <=> mid + 1 <= p
      BY <3>1
    <3>3. <<mid + 1, high>> \in Windows /\ <<low, mid>> \in Windows
      BY <3>1
    <3>4. g[<<mid + 1, high>>] = Clamp(mid + 1, high) /\ g[<<low, mid>>] = Clamp(low, mid)
      BY <3>3
    <3>5. Probe(holds, g, low, high) = IF holds[mid + 1] THEN g[<<mid + 1, high>>] ELSE g[<<low, mid>>]
      BY <2>2, <3>1 DEF Probe
    <3>6. Clamp(low, high) = IF mid + 1 <= p THEN Clamp(mid + 1, high) ELSE Clamp(low, mid)
      BY <2>2, <3>1
    <3>. HIDE DEF Clamp, g
    <3>. QED  BY <3>2, <3>4, <3>5, <3>6
  <2>. QED  BY <2>1, <2>2
<1>2. Bisects(holds, g)
  <2>1. \A w \in Windows : Clamp(w[1], w[2]) = Probe(holds, g, w[1], w[2])
    <3>. HIDE DEF Clamp, g
    <3>. QED  BY <1>1
  <2>. QED  BY <2>1, Zenon DEF Bisects
<1>3. PICK f : Bisects(holds, f) /\ partition_point(holds) = f[<<0, n>>]
  <2>. HIDE DEF g
  <2>. QED  BY <1>2, BisectUnfold
<1>. DEFINE Wrong(m) == \E low, high \in 0..n : /\ low <= p /\ p <= high /\ high - low = m
                                                /\ f[<<low, high>>] # p
<1>4. ASSUME NEW m \in Nat, Wrong(m), \A k \in Nat : k < m => ~Wrong(k)
      PROVE  FALSE
  <2>1. PICK low, high \in 0..n : /\ low <= p /\ p <= high /\ high - low = m
                                  /\ f[<<low, high>>] # p
    BY <1>4, Zenon
  <2>2. f[<<low, high>>] = Probe(holds, f, low, high)
    BY <1>3 DEF Bisects
  <2>3. low < high
    BY <2>1, <2>2 DEF Probe
  <2>4. PICK mid \in Nat : mid = low + (high - low) \div 2 /\ low <= mid /\ mid < high
    BY <2>3, ProbeInside
  <2>5. holds[mid + 1] <=> mid + 1 <= p
    BY <2>4
  <2>6. f[<<low, high>>] = IF holds[mid + 1] THEN f[<<mid + 1, high>>] ELSE f[<<low, mid>>]
    BY <2>2, <2>3, <2>4 DEF Probe
  <2>7. CASE mid + 1 <= p
    <3>1. high - (mid + 1) \in Nat /\ high - (mid + 1) < m /\ mid + 1 \in 0..n
      BY <2>1, <2>4
    <3>2. Wrong(high - (mid + 1))
      BY <2>1, <2>5, <2>6, <2>7, <3>1, Zenon
    <3>. QED  BY <1>4, <3>1, <3>2, Zenon
  <2>8. CASE ~(mid + 1 <= p)
    <3>1. mid - low \in Nat /\ mid - low < m /\ mid \in 0..n /\ p <= mid
      BY <2>1, <2>4, <2>8
    <3>2. Wrong(mid - low)
      BY <2>1, <2>5, <2>6, <2>8, <3>1, Zenon
    <3>. QED  BY <1>4, <3>1, <3>2, Zenon
  <2>. QED  BY <2>7, <2>8
<1>5. \A m \in Nat : ~Wrong(m)
  <2>. HIDE DEF Wrong
  <2>. DEFINE T == {m \in Nat : Wrong(m)}
  <2>1. CASE T = {}
    BY <2>1
  <2>2. CASE T # {}
    <3>1. PICK m \in T : \A k \in T : m <= k
      BY <2>2, LeastElement, Zenon
    <3>2. \A k \in Nat : k < m => ~Wrong(k)
      BY <3>1
    <3>. QED  BY <1>4, <3>1, <3>2
  <2>. QED  BY <2>1, <2>2
<1>. QED
  <2>1. ~Wrong(n)
    BY <1>5
  <2>2. 0 \in 0..n /\ n \in 0..n /\ 0 <= p /\ p <= n /\ n - 0 = n
    OBVIOUS
  <2>. QED  BY <1>3, <2>1, <2>2, Zenon

\* one probe of lookup_index_by_key in left..right
LookupProbe(keys, key, f, left, right) ==
  LET mid == (left + right) \div 2
  IN IF left > right THEN None
     ELSE IF keys[mid + 1] = key THEN mid
     ELSE IF keys[mid + 1] < key THEN f[<<mid + 1, right>>] ELSE f[<<left, mid - 1>>]

Looks(keys, key, f) ==
  f = [w \in (0..Len(keys)) \X (-1..Len(keys) - 1) |-> LookupProbe(keys, key, f, w[1], w[2])]

\* lookup_index_by_key is a function that takes each probe's answer.
LEMMA LookUnfold ==
  ASSUME NEW keys, NEW key, NEW f, Looks(keys, key, f)
  PROVE  \E g : Looks(keys, key, g) /\ lookup_index_by_key(keys, key) = g[<<0, Len(keys) - 1>>]
<1>. PICK g : g = CHOOSE h : Looks(keys, key, h)
  OBVIOUS
<1>1. Looks(keys, key, g)
  OBVIOUS
<1>2. lookup_index_by_key(keys, key) = g[<<0, Len(keys) - 1>>]
  BY Zenon DEF lookup_index_by_key, Looks, LookupProbe
<1>. QED  BY <1>1, <1>2, Zenon

\* The middle of a window is inside of it.
LEMMA MiddleInside ==
  ASSUME NEW left \in Nat, NEW right \in Nat, left <= right
  PROVE  \E mid \in Nat : mid = (left + right) \div 2 /\ left <= mid /\ mid <= right
OBVIOUS

\* lookup_index_by_key returns the index of the key in an ascending vector, and
\* None if the key is not in it.
LEMMA LookupIndex ==
  ASSUME NEW keys, NEW n \in Nat, Len(keys) = n, NEW key \in Int,
         \A i \in 1..n : keys[i] \in Int,
         \A i, j \in 1..n : i < j => keys[i] < keys[j],
         NEW q \in -1..n - 1,
         q # -1 => keys[q + 1] = key,
         q = -1 => \A i \in 1..n : keys[i] # key
  PROVE  lookup_index_by_key(keys, key) = q
<1>. DEFINE In(left, right) == IF left <= q /\ q <= right THEN q ELSE -1
            Windows == (0..n) \X (-1..n - 1)
            g == [w \in Windows |-> In(w[1], w[2])]
<1>0. ASSUME NEW left \in 0..n, NEW right \in -1..n - 1, left <= right
      PROVE  \E mid \in Nat :
               /\ mid = (left + right) \div 2 /\ left <= mid /\ mid <= right
               /\ <<mid + 1, right>> \in Windows /\ <<left, mid - 1>> \in Windows
               /\ keys[mid + 1] = key => In(left, right) = mid
               /\ keys[mid + 1] # key /\ keys[mid + 1] < key => In(left, right) = In(mid + 1, right)
               /\ keys[mid + 1] # key /\ ~(keys[mid + 1] < key) => In(left, right) = In(left, mid - 1)
  <2>1. PICK mid \in Nat : mid = (left + right) \div 2 /\ left <= mid /\ mid <= right
    BY <1>0, MiddleInside
  <2>2. mid + 1 \in 1..n /\ <<mid + 1, right>> \in Windows /\ <<left, mid - 1>> \in Windows
    <3>1. mid + 1 \in 1..n /\ mid + 1 \in 0..n /\ mid - 1 \in -1..n - 1
      BY <2>1
    <3>. QED  BY <3>1, Zenon
  <2>. PICK x \in Int : x = keys[mid + 1]
    BY <2>2
  <2>3. /\ q = -1 => x # key
        /\ q # -1 /\ mid < q => x < key
        /\ q # -1 /\ q < mid => key < x
    <3>1. q # -1 => q + 1 \in 1..n
      OBVIOUS
    <3>2. mid < q => mid + 1 < q + 1
      OBVIOUS
    <3>3. q < mid => q + 1 < mid + 1
      OBVIOUS
    <3>. QED  BY <2>2, <3>1, <3>2, <3>3, Zenon
  <2>4. /\ x = key => q = mid
        /\ x < key => q = -1 \/ mid < q
        /\ key < x => q = -1 \/ q < mid
    BY <2>3
  <2>6. x = key => In(left, right) = mid
    BY <2>1, <2>4
  <2>7. x < key => In(left, right) = In(mid + 1, right)
    BY <2>1, <2>4
  <2>8. x # key /\ ~(x < key) => In(left, right) = In(left, mid - 1)
    BY <2>1, <2>4
  <2>. HIDE DEF In, Windows
  <2>. QED  BY <2>1, <2>2, <2>6, <2>7, <2>8, Zenon
<1>1. ASSUME NEW left \in 0..n, NEW right \in -1..n - 1
      PROVE  In(left, right) = LookupProbe(keys, key, g, left, right)
  <2>1. CASE left > right
    BY <2>1 DEF LookupProbe, None
  <2>2. CASE left <= right
    <3>1. PICK mid \in Nat :
               /\ mid = (left + right) \div 2 /\ left <= mid /\ mid <= right
               /\ <<mid + 1, right>> \in Windows /\ <<left, mid - 1>> \in Windows
               /\ keys[mid + 1] = key => In(left, right) = mid
               /\ keys[mid + 1] # key /\ keys[mid + 1] < key => In(left, right) = In(mid + 1, right)
               /\ keys[mid + 1] # key /\ ~(keys[mid + 1] < key) => In(left, right) = In(left, mid - 1)
      <4>. HIDE DEF In, Windows
      <4>. QED  BY <1>0, <2>2, Zenon
    <3>2. g[<<mid + 1, right>>] = In(mid + 1, right) /\ g[<<left, mid - 1>>] = In(left, mid - 1)
      BY <3>1, Zenon
    <3>. HIDE DEF In, Windows, g
    <3>. QED  BY <2>2, <3>1, <3>2 DEF LookupProbe
  <2>. QED  BY <2>1, <2>2
<1>2. Looks(keys, key, g)
  <2>1. \A w \in Windows : In(w[1], w[2]) = LookupProbe(keys, key, g, w[1], w[2])
    <3>1. \A w \in Windows : w[1] \in 0..n /\ w[2] \in -1..n - 1
      BY Zenon
    <3>. HIDE DEF In, g
    <3>. QED  BY <1>1, <3>1, Zenon
  <2>. QED  BY <2>1, Zenon DEF Looks
<1>3. PICK f : Looks(keys, key, f) /\ lookup_index_by_key(keys, key) = f[<<0, n - 1>>]
  <2>. HIDE DEF g
  <2>. QED  BY <1>2, LookUnfold
<1>. DEFINE Wrong(m) == \E left \in 0..n, right \in -1..n - 1 :
                          right + 1 - left = m /\ f[<<left, right>>] # In(left, right)
<1>4. ASSUME NEW m \in Nat, Wrong(m), \A k \in Nat : k < m => ~Wrong(k)
      PROVE  FALSE
  <2>1. PICK left \in 0..n, right \in -1..n - 1 :
               right + 1 - left = m /\ f[<<left, right>>] # In(left, right)
    <3>. HIDE DEF In
    <3>. QED  BY <1>4, Zenon
  <2>2. f[<<left, right>>] = LookupProbe(keys, key, f, left, right)
    BY <1>3 DEF Looks
  <2>3. left <= right
    BY <2>1, <2>2 DEF LookupProbe, None
  <2>4. PICK mid \in Nat :
               /\ mid = (left + right) \div 2 /\ left <= mid /\ mid <= right
               /\ <<mid + 1, right>> \in Windows /\ <<left, mid - 1>> \in Windows
               /\ keys[mid + 1] = key => In(left, right) = mid
               /\ keys[mid + 1] # key /\ keys[mid + 1] < key => In(left, right) = In(mid + 1, right)
               /\ keys[mid + 1] # key /\ ~(keys[mid + 1] < key) => In(left, right) = In(left, mid - 1)
    <3>. HIDE DEF In, Windows
    <3>. QED  BY <1>0, <2>3, Zenon
  <2>5. ASSUME NEW l \in 0..n, NEW r \in -1..n - 1, r + 1 - l \in Nat, r + 1 - l < m
        PROVE  f[<<l, r>>] = In(l, r)
    <3>. HIDE DEF In
    <3>1. f[<<l, r>>] # In(l, r) => Wrong(r + 1 - l)
      BY Zenon
    <3>. QED  BY <1>4, <2>5, <3>1, Zenon
  <2>6. f[<<mid + 1, right>>] = In(mid + 1, right) /\ f[<<left, mid - 1>>] = In(left, mid - 1)
    <3>1. /\ mid + 1 \in 0..n /\ right + 1 - (mid + 1) \in Nat /\ right + 1 - (mid + 1) < m
          /\ mid - 1 \in -1..n - 1 /\ (mid - 1) + 1 - left \in Nat /\ (mid - 1) + 1 - left < m
      BY <2>1, <2>4
    <3>. HIDE DEF In
    <3>. QED  BY <2>5, <3>1, Zenon
  <2>. HIDE DEF In, Windows
  <2>. QED  BY <2>1, <2>2, <2>3, <2>4, <2>6 DEF LookupProbe
<1>5. \A m \in Nat : ~Wrong(m)
  <2>. HIDE DEF Wrong
  <2>. DEFINE T == {m \in Nat : Wrong(m)}
  <2>1. CASE T = {}
    BY <2>1
  <2>2. CASE T # {}
    <3>1. PICK m \in T : \A k \in T : m <= k
      BY <2>2, LeastElement, Zenon
    <3>2. \A k \in Nat : k < m => ~Wrong(k)
      BY <3>1
    <3>. QED  BY <1>4, <3>1, <3>2
  <2>. QED  BY <2>1, <2>2
<1>. QED
  <2>1. 0 \in 0..n /\ n - 1 \in -1..n - 1 /\ (n - 1) + 1 - 0 = n
    OBVIOUS
  <2>2. f[<<0, n - 1>>] = In(0, n - 1)
    <3>. HIDE DEF In
    <3>. QED  BY <1>5, <2>1, Zenon
  <2>3. In(0, n - 1) = q
    OBVIOUS
  <2>. QED  BY <1>3, <2>2, <2>3

\* What ascends from one element to the next ascends throughout.
LEMMA AscendsFar ==
  ASSUME NEW f, NEW n \in Nat, NEW e \in {0, 1},
         \A i \in 1..n : f[i] \in Int,
         \A i \in 1..n - 1 : f[i] + e <= f[i + 1]
  PROVE  \A i, j \in 1..n : i < j => f[i] + e <= f[j]
<1>. DEFINE Wrong(m) == \E i, j \in 1..n : i < j /\ j = m /\ ~(f[i] + e <= f[j])
            T == {m \in Nat : Wrong(m)}
<1>1. CASE T = {}
  <2>1. \A m \in Nat : ~Wrong(m)
    <3>. HIDE DEF Wrong
    <3>. QED  BY <1>1, Zenon
  <2>2. \A j \in 1..n : j \in Nat
    OBVIOUS
  <2>. QED  BY <2>1, <2>2, Zenon
<1>2. CASE T # {}
  <2>1. PICK m \in T : \A k \in T : m <= k
    <3>. HIDE DEF Wrong
    <3>. QED  BY <1>2, LeastElement, Zenon
  <2>2. PICK i, j \in 1..n : i < j /\ j = m /\ ~(f[i] + e <= f[j])
    BY <2>1
  <2>3. j - 1 \in 1..n - 1 /\ j - 1 \in 1..n /\ (j - 1) + 1 = j
    BY <2>2
  <2>4. f[j - 1] + e <= f[j] /\ f[j - 1] \in Int /\ f[i] \in Int /\ f[j] \in Int
    BY <2>3
  <2>5. i # j - 1
    BY <2>2, <2>4
  <2>6. i < j - 1 /\ ~(f[i] + e <= f[j - 1])
    BY <2>2, <2>4, <2>5
  <2>7. j - 1 \in T
    BY <2>3, <2>6
  <2>. HIDE DEF T
  <2>. QED  BY <2>1, <2>2, <2>3, <2>7
<1>. QED  BY <1>1, <1>2

\* n entries in the order of their ids
Keyed(entries, n) ==
  /\ n \in Nat /\ DOMAIN entries = 1..n
  /\ \A i \in 1..n : entries[i].id \in Int
  /\ \A i \in 1..n - 1 : entries[i].id < entries[i + 1].id

\* the index q of the one entry with the id, None if there is none
KeyAt(entries, n, id, q) ==
  /\ \A i \in 1..n : entries[i].id = id =>
       q = i - 1 /\ \A j \in 1..n : entries[j].id = id => j = i
  /\ (\A i \in 1..n : entries[i].id # id) => q = None

\* Entries in the order of their ids are found by their id.
LEMMA KeyFound ==
  ASSUME NEW entries, NEW n, Keyed(entries, n), NEW id \in Int
  PROVE  KeyAt(entries, n, id, lookup_index_by_key([i \in DOMAIN entries |-> entries[i].id], id))
<1>. PICK q : q = lookup_index_by_key([i \in DOMAIN entries |-> entries[i].id], id)
  BY Zenon
<1>1. n \in Nat /\ DOMAIN entries = 1..n
  BY Zenon DEF Keyed
<1>2. PICK f : f = [i \in 1..n |-> entries[i].id]
  BY Zenon
<1>3. Len(f) = n
  BY <1>1, <1>2
<1>4. \A i \in 1..n : f[i] = entries[i].id /\ f[i] \in Int
  BY <1>2, Zenon DEF Keyed
<1>5. \A i, j \in 1..n : i < j => f[i] < f[j]
  <2>1. \A i \in 1..n - 1 : i \in 1..n /\ i + 1 \in 1..n
    BY <1>1
  <2>2. \A i \in 1..n - 1 : f[i] < f[i + 1]
    BY <1>4, <2>1, Zenon DEF Keyed
  <2>3. \A i \in 1..n - 1 : f[i] + 1 <= f[i + 1]
    BY <1>4, <2>1, <2>2
  <2>4. 1 \in {0, 1} /\ \A i \in 1..n : f[i] \in Int
    BY <1>4, Zenon
  <2>5. \A i, j \in 1..n : i < j => f[i] + 1 <= f[j]
    BY <1>1, <2>3, <2>4, AscendsFar, Zenon
  <2>. QED  BY <1>4, <2>5
<1>6. q = lookup_index_by_key(f, id)
  BY <1>1, <1>2, Zenon
<1>7. ASSUME NEW p \in -1..n - 1, p # -1 => f[p + 1] = id, p = -1 => \A j \in 1..n : f[j] # id
      PROVE  q = p
  <2>1. \A j \in 1..n : f[j] \in Int
    BY <1>4, Zenon
  <2>. QED  BY <1>1, <1>3, <1>5, <1>6, <1>7, <2>1, LookupIndex, Zenon
<1>8. ASSUME NEW i \in 1..n, entries[i].id = id
      PROVE  q = i - 1 /\ \A j \in 1..n : entries[j].id = id => j = i
  <2>1. PICK p : p = i - 1
    BY Zenon
  <2>2. p \in -1..n - 1 /\ p # -1 /\ p + 1 = i /\ f[i] = id
    BY <1>1, <1>4, <1>8, <2>1
  <2>3. q = p
    BY <1>7, <2>2, Zenon
  <2>4. \A j \in 1..n : f[j] = f[i] => j = i
    BY <1>1, <1>4, <1>5
  <2>. QED  BY <1>4, <1>8, <2>1, <2>3, <2>4, Zenon
<1>9. ASSUME \A i \in 1..n : entries[i].id # id
      PROVE  q = None
  <2>1. PICK p : p = -1
    BY Zenon
  <2>2. p \in -1..n - 1
    BY <1>1, <2>1
  <2>3. q = p
    BY <1>4, <1>7, <1>9, <2>1, <2>2, Zenon
  <2>. QED  BY <2>1, <2>3, Zenon DEF None
<1>. QED  BY <1>8, <1>9, Zenon DEF KeyAt

-----------------------------------------------------------------------------
(***************************************************************************)
(* Hashes and runs of tops                                                 *)
(***************************************************************************)

Padded == [1..HASH_MAX_LEN -> Nat]

\* A hash is padded to its length (chunk_hash).
LEMMA HashPadded ==
  ASSUME NEW h \in Hashes
  PROVE  chunk_hash(h) \in Padded
<1>1. \A i \in 1..HASH_MAX_LEN : i <= Len(h) => h[i] \in Nat
  BY DEF Hashes, HASH_MAX_LEN
<1>. QED  BY <1>1 DEF chunk_hash, Padded

\* A hash is what is before the first NUL of its padded form.
LEMMA HashBack ==
  ASSUME NEW h \in Hashes
  PROVE  hash(chunk_hash(h)) = h
<1>. PICK l \in Nat : l = Len(h) /\ l <= HASH_MAX_LEN
  BY DEF Hashes, HASH_MAX_LEN
<1>. PICK b : b = chunk_hash(h)
  OBVIOUS
<1>1. \A i \in 1..HASH_MAX_LEN : b[i] = IF i <= l THEN h[i] ELSE 0
  BY DEF chunk_hash
<1>2. \A i \in 1..l : h[i] \in Nat /\ h[i] # 0
  BY DEF Hashes
<1>10. PICK S : S = {i \in 1..HASH_MAX_LEN : b[i] = 0} \cup {HASH_MAX_LEN + 1}
  BY Zenon
<1>3. l + 1 \in S /\ \A i \in S : i \in Nat /\ l + 1 <= i
  <2>1. CASE l = HASH_MAX_LEN
    BY <1>1, <1>2, <1>10, <2>1 DEF HASH_MAX_LEN
  <2>2. CASE l # HASH_MAX_LEN
    BY <1>1, <1>2, <1>10, <2>2 DEF HASH_MAX_LEN
  <2>. QED  BY <2>1, <2>2
<1>4. Min(S) = l + 1
  <2>1. Min(S) \in S /\ \A y \in S : Min(S) <= y
    BY <1>3, Zenon DEF Min
  <2>2. PICK m : m = Min(S)
    OBVIOUS
  <2>3. m \in S /\ m <= l + 1
    BY <1>3, <2>1, <2>2, Zenon
  <2>4. m = l + 1
    BY <1>3, <2>3
  <2>. QED  BY <2>2, <2>4
<1>5. hash(b) = SubSeq(b, 1, l)
  <2>1. hash(b) = SubSeq(b, 1, Min(S) - 1)
    BY <1>10, Zenon DEF hash
  <2>2. Min(S) - 1 = l
    BY <1>4
  <2>. QED  BY <2>1, <2>2, Zenon
<1>6. \A i \in 1..l : b[i] = h[i] /\ b[i] \in Nat
  BY <1>1, <1>2 DEF HASH_MAX_LEN
<1>. PICK t : t = SubSeq(b, 1, l)
  BY Zenon
<1>7. /\ t \in Seq(Nat) /\ Len(t) = IF 1 <= l THEN l - 1 + 1 ELSE 0
      /\ \A i \in 1..l - 1 + 1 : t[i] = b[1 + i - 1]
  BY <1>6, SubSeqFacts
<1>8. Len(t) = l /\ \A i \in 1..l : t[i] = h[i]
  BY <1>6, <1>7
<1>9. h \in Seq(Nat)
  BY DEF Hashes
<1>11. t = h
  BY <1>7, <1>8, <1>9, SameEntries
<1>. QED  BY <1>5, <1>11

TopRun == [first_chunk_index : Nat, top : Nat]

Firsts(tops, l) == \A j \in 1..l : tops[j].first_chunk_index \in Nat

\* the l runs of the tops of n rows
RunsOf(tops, l, r, n) ==
  /\ n > 0 => l > 0
  /\ l > 0 => tops[1].first_chunk_index = 0
  /\ \A j \in 1..l : tops[j].first_chunk_index < n
  /\ \A i, j \in 1..l : i < j => tops[i].first_chunk_index < tops[j].first_chunk_index
  /\ \A j \in 1..l, k \in 1..n :
       /\ tops[j].first_chunk_index < k
       /\ j < l => k <= tops[j + 1].first_chunk_index
       => tops[j].top = r[k].top

\* A row with the top of the last run belongs to it.
LEMMA SameTop ==
  ASSUME NEW tops, NEW l \in Nat, NEW r, NEW r2, NEW n \in Nat,
         Firsts(tops, l), RunsOf(tops, l, r, n),
         l > 0, tops[l].top = r2[n + 1].top, \A k \in 1..n : r2[k] = r[k]
  PROVE  RunsOf(tops, l, r2, n + 1)
<1>1. \A j \in 1..l : tops[j].first_chunk_index < n
  BY DEF RunsOf
<1>2. \A j \in 1..l : tops[j].first_chunk_index < n + 1
  BY <1>1 DEF Firsts
<1>3. ASSUME NEW j \in 1..l, NEW k \in 1..n + 1, tops[j].first_chunk_index < k,
             j < l => k <= tops[j + 1].first_chunk_index
      PROVE  tops[j].top = r2[k].top
  <2>1. CASE k = n + 1
    <3>1. j < l => j + 1 \in 1..l
      OBVIOUS
    <3>2. j = l
      BY <1>1, <1>3, <2>1, <3>1 DEF Firsts
    <3>. QED  BY <2>1, <3>2
  <2>2. CASE k # n + 1
    <3>1. k \in 1..n
      BY <2>2
    <3>. QED  BY <1>3, <3>1 DEF RunsOf
  <2>. QED  BY <2>1, <2>2
<1>. QED  BY <1>2, <1>3 DEF RunsOf

\* A row with another top begins a run.
LEMMA OtherTop ==
  ASSUME NEW tops, NEW l \in Nat, NEW u, NEW r, NEW r2, NEW n \in Nat,
         Firsts(tops, l), RunsOf(tops, l, r, n),
         \A j \in 1..l : u[j] = tops[j],
         u[l + 1].first_chunk_index = n, u[l + 1].top = r2[n + 1].top,
         \A k \in 1..n : r2[k] = r[k]
  PROVE  Firsts(u, l + 1) /\ RunsOf(u, l + 1, r2, n + 1)
<1>1. \A j \in 1..l + 1 : j = l + 1 \/ j \in 1..l
  OBVIOUS
<1>2. \A j \in 1..l : u[j].first_chunk_index < n /\ u[j].first_chunk_index \in Nat
  BY DEF RunsOf, Firsts
<1>3. Firsts(u, l + 1)
  BY <1>1, <1>2 DEF Firsts
<1>4. u[1].first_chunk_index = 0
  <2>1. CASE l = 0
    <3>1. n = 0
      BY <2>1 DEF RunsOf
    <3>. QED  BY <2>1, <3>1
  <2>2. CASE l > 0
    BY <2>2 DEF RunsOf
  <2>. QED  BY <2>1, <2>2
<1>5. \A j \in 1..l + 1 : u[j].first_chunk_index < n + 1
  BY <1>1, <1>2
<1>6. ASSUME NEW i \in 1..l + 1, NEW j \in 1..l + 1, i < j
      PROVE  u[i].first_chunk_index < u[j].first_chunk_index
  <2>1. i \in 1..l
    BY <1>6
  <2>2. CASE j = l + 1
    BY <1>2, <2>1, <2>2
  <2>3. CASE j \in 1..l
    <3>1. tops[i].first_chunk_index < tops[j].first_chunk_index
      BY <1>6, <2>1, <2>3 DEF RunsOf
    <3>. QED  BY <2>1, <2>3, <3>1
  <2>. QED  BY <1>1, <2>2, <2>3
<1>7. ASSUME NEW j \in 1..l + 1, NEW k \in 1..n + 1, u[j].first_chunk_index < k,
             j < l + 1 => k <= u[j + 1].first_chunk_index
      PROVE  u[j].top = r2[k].top
  <2>1. CASE j = l + 1
    <3>1. k = n + 1
      BY <1>7, <2>1
    <3>. QED  BY <2>1, <3>1
  <2>2. CASE j \in 1..l
    <3>1. k <= n /\ (j < l => k <= tops[j + 1].first_chunk_index)
      <4>1. CASE j = l
        BY <1>7, <4>1
      <4>2. CASE j # l
        <5>1. j + 1 \in 1..l /\ j < l + 1
          BY <2>2, <4>2
        <5>. QED  BY <1>2, <1>7, <5>1
      <4>. QED  BY <4>1, <4>2
    <3>2. k \in 1..n /\ tops[j].first_chunk_index < k
      BY <1>7, <2>2, <3>1
    <3>3. tops[j].top = r[k].top
      BY <2>2, <3>1, <3>2 DEF RunsOf
    <3>. QED  BY <2>2, <3>2, <3>3
  <2>. QED  BY <1>1, <2>1, <2>2
<1>8. l + 1 > 0
  OBVIOUS
<1>. QED  BY <1>3, <1>4, <1>5, <1>6, <1>7, <1>8 DEF RunsOf

\* the tops of a dataset with the rows r
TopsOf(tops, r) == RunsOf(tops, Len(tops), r, Len(r))

\* Pushing a row's top (PushTop, builder.rs) keeps the runs those of the rows.
LEMMA PushTopOf ==
  ASSUME NEW tops \in Seq(TopRun), NEW R, NEW r \in Seq(R), NEW row \in R, row.top \in Nat,
         TopsOf(tops, r)
  PROVE  TopsOf(PushTop(tops, Len(r), row.top), Append(r, row))
<1>1. PICK n \in Nat : n = Len(r)
  OBVIOUS
<1>2. PICK l \in Nat : l = Len(tops)
  OBVIOUS
<1>3. PICK r2 : r2 = Append(r, row)
  BY Zenon
<1>4. Len(r2) = n + 1 /\ r2[n + 1] = row /\ \A k \in 1..n : r2[k] = r[k]
  BY <1>1, <1>3
<1>5. Firsts(tops, l)
  <2>1. \A j \in 1..l : tops[j] \in TopRun
    BY <1>2
  <2>. QED  BY <2>1 DEF Firsts, TopRun
<1>6. RunsOf(tops, l, r, n)
  BY <1>1, <1>2, Zenon DEF TopsOf
<1>7. CASE tops # <<>> /\ tops[Len(tops)].top = row.top
  <2>1. PushTop(tops, n, row.top) = tops
    BY <1>7, Zenon DEF PushTop
  <2>2. l > 0 /\ tops[l].top = row.top
    BY <1>2, <1>7, EmptyFacts 
  <2>3. RunsOf(tops, l, r2, n + 1)
    BY <1>4, <1>5, <1>6, <2>2, SameTop, Zenon
  <2>. QED  BY <1>1, <1>2, <1>3, <1>4, <2>1, <2>3, Zenon DEF TopsOf
<1>8. CASE tops = <<>> \/ tops[Len(tops)].top # row.top
  <2>1. PICK e : e = [first_chunk_index |-> n, top |-> row.top]
    BY Zenon
  <2>2. PICK u : u = Append(tops, e)
    BY Zenon
  <2>3. e \in TopRun /\ e.first_chunk_index = n /\ e.top = row.top
    BY <2>1 DEF TopRun
  <2>4. PushTop(tops, n, row.top) = u
    BY <1>8, <2>1, <2>2, Zenon DEF PushTop
  <2>5. Len(u) = l + 1 /\ u[l + 1] = e /\ \A j \in 1..l : u[j] = tops[j]
    BY <1>2, <2>2, <2>3
  <2>6. RunsOf(u, l + 1, r2, n + 1)
    <3>1. u[l + 1].first_chunk_index = n /\ u[l + 1].top = r2[n + 1].top
      BY <1>4, <2>3, <2>5, Zenon
    <3>. QED  BY <1>4, <1>5, <1>6, <2>5, <3>1, OtherTop, Zenon
  <2>. QED  BY <1>1, <1>3, <1>4, <2>4, <2>5, <2>6, Zenon DEF TopsOf
<1>. QED  BY <1>7, <1>8, Zenon

\* Runs are pushed with the index of their first chunk.
LEMMA PushTopType ==
  ASSUME NEW tops \in Seq(TopRun), NEW index \in Nat, NEW top \in Nat
  PROVE  PushTop(tops, index, top) \in Seq(TopRun)
<1>1. PICK e : e = [first_chunk_index |-> index, top |-> top]
  BY Zenon
<1>2. e \in TopRun
  BY <1>1 DEF TopRun
<1>3. Append(tops, e) \in Seq(TopRun)
  BY <1>2, AppendFacts, Zenon
<1>. QED  BY <1>1, <1>3, Zenon DEF PushTop

\* A predicate on 1..n that holds up to a point and not after it.
LEMMA LastHolding ==
  ASSUME NEW n \in Nat, NEW f, \A i \in 1..n : f[i] \in Int, NEW x \in Int,
         \A i, j \in 1..n : i < j => f[i] <= f[j]
  PROVE  \E p \in 0..n : \A i \in 1..n : (f[i] <= x) <=> (i <= p)
<1>1. PICK T : T = {i \in 1..n : ~(f[i] <= x)}
  BY Zenon
<1>2. CASE T = {}
  <2>1. \A i \in 1..n : (f[i] <= x) <=> (i <= n)
    BY <1>1, <1>2
  <2>2. n \in 0..n
    OBVIOUS
  <2>. QED  BY <2>1, <2>2, Zenon
<1>3. CASE T # {}
  <2>1. T \in SUBSET Nat
    BY <1>1
  <2>2. PICK m \in T : \A k \in T : m <= k
    BY <1>3, <2>1, LeastElement, Zenon
  <2>3. m \in 1..n /\ ~(f[m] <= x)
    BY <1>1
  <2>4. \A i \in 1..n : (f[i] <= x) <=> (i <= m - 1)
    <3>. SUFFICES ASSUME NEW i \in 1..n
                  PROVE  (f[i] <= x) <=> (i <= m - 1)
      OBVIOUS
    <3>1. CASE i < m
      <4>1. i \notin T
        BY <2>2, <2>3, <3>1
      <4>. QED  BY <1>1, <2>3, <3>1, <4>1
    <3>2. CASE i = m
      BY <2>3, <3>2
    <3>3. CASE m < i
      BY <2>3, <3>3
    <3>. QED  BY <2>3, <3>1, <3>2, <3>3
  <2>5. m - 1 \in 0..n
    BY <2>3
  <2>. QED  BY <2>4, <2>5, Zenon
<1>. QED  BY <1>2, <1>3

\* The top a reader finds for a row is that row's top.
LEMMA TopAtOf ==
  ASSUME NEW tops \in Seq(TopRun), NEW r, NEW n \in Nat, Len(r) = n, TopsOf(tops, r), NEW k \in 1..n
  PROVE  top_at(tops, k - 1) = r[k].top
<1>1. PICK l \in Nat : l = Len(tops) /\ DOMAIN tops = 1..l
  OBVIOUS
<1>2. RunsOf(tops, l, r, n)
  BY <1>1, Zenon DEF TopsOf
<1>3. Firsts(tops, l)
  <2>1. \A j \in 1..l : tops[j] \in TopRun
    BY <1>1
  <2>. QED  BY <2>1 DEF Firsts, TopRun
<1>4. PICK f : f = [j \in 1..l |-> tops[j].first_chunk_index]
  BY Zenon
<1>5. \A j \in 1..l : f[j] = tops[j].first_chunk_index /\ f[j] \in Nat
  BY <1>3, <1>4 DEF Firsts
<1>6. \A i, j \in 1..l : i < j => f[i] <= f[j]
  BY <1>2, <1>5 DEF RunsOf
<1>7. PICK p \in 0..l : \A j \in 1..l : (f[j] <= k - 1) <=> (j <= p)
  <2>1. k - 1 \in Int /\ \A j \in 1..l : f[j] \in Int
    BY <1>5
  <2>. QED  BY <1>6, <2>1, LastHolding, Zenon
<1>8. PICK h : h = [i \in DOMAIN tops |-> tops[i].first_chunk_index <= k - 1]
  BY Zenon
<1>9. Len(h) = l /\ \A j \in 1..l : h[j] <=> j <= p
  <2>1. h = [j \in 1..l |-> tops[j].first_chunk_index <= k - 1]
    BY <1>1, <1>8, Zenon
  <2>2. Len(h) = l
    BY <2>1
  <2>3. \A j \in 1..l : h[j] <=> (tops[j].first_chunk_index <= k - 1)
    BY <2>1, Zenon
  <2>. QED  BY <1>5, <1>7, <2>2, <2>3, Zenon
<1>10. partition_point(h) = p
  BY <1>9, PartitionPoint, Zenon
<1>11. p # 0
  <2>1. l > 0 /\ tops[1].first_chunk_index = 0
    BY <1>2 DEF RunsOf
  <2>2. 1 \in 1..l /\ f[1] <= k - 1
    BY <1>5, <2>1
  <2>. QED  BY <1>7, <2>2
<1>12. p \in 1..l
  BY <1>11
<1>13. tops[p].first_chunk_index < k
  BY <1>5, <1>7, <1>12
<1>14. p < l => k <= tops[p + 1].first_chunk_index
  <2>1. p < l => p + 1 \in 1..l /\ ~(p + 1 <= p)
    OBVIOUS
  <2>. QED  BY <1>5, <1>7, <2>1
<1>15. tops[p].top = r[k].top
  BY <1>2, <1>12, <1>13, <1>14 DEF RunsOf
<1>16. top_at(tops, k - 1) = IF p = 0 THEN None ELSE tops[p].top
  BY <1>8, <1>10, Zenon DEF top_at
<1>. QED  BY <1>11, <1>15, <1>16, Zenon

-----------------------------------------------------------------------------
(***************************************************************************)
(* Slices and versions                                                     *)
(***************************************************************************)

\* where the slice of row k begins in its column
Start(ends, k) == IF k = 1 THEN 0 ELSE ends[k - 1]

SliceOf(ends, column, l, w, k) ==
  /\ ends[k] \in Nat /\ ends[k] <= l
  /\ Start(ends, k) \in Nat /\ Start(ends, k) + Len(w) = ends[k]
  /\ \A i \in 1..Len(w) : column[Start(ends, k) + i] = w[i]

\* a column of length l is cut into the n lists ws
SlicesOf(ends, column, l, ws, n) ==
  /\ l = Start(ends, n + 1)
  /\ \A k \in 1..n : SliceOf(ends, column, l, ws[k], k)

\* A slice is not disturbed by what is appended after it.
LEMMA SliceKept ==
  ASSUME NEW ends, NEW column, NEW l \in Nat, NEW w, Len(w) \in Nat, NEW k \in Nat, k > 0,
         SliceOf(ends, column, l, w, k),
         NEW ends2, NEW column2, NEW l2 \in Nat, l <= l2,
         \A i \in 1..k : ends2[i] = ends[i], \A i \in 1..l : column2[i] = column[i]
  PROVE  SliceOf(ends2, column2, l2, w, k)
<1>1. Start(ends2, k) = Start(ends, k) /\ ends2[k] = ends[k]
  <2>1. k # 1 => k - 1 \in 1..k
    OBVIOUS
  <2>2. k \in 1..k
    OBVIOUS
  <2>. QED  BY <2>1, <2>2 DEF Start
<1>2. PICK s : s = Start(ends, k)
  BY Zenon
<1>3. PICK m : m = Len(w)
  BY Zenon
<1>4. s \in Nat /\ ends[k] \in Nat /\ s + m = ends[k] /\ ends[k] <= l /\ m \in Nat
  BY <1>2, <1>3, Zenon DEF SliceOf
<1>5. \A i \in 1..m : column2[s + i] = column[s + i]
  BY <1>4
<1>6. \A i \in 1..m : column[s + i] = w[i]
  BY <1>2, <1>3, Zenon DEF SliceOf
<1>7. ends2[k] <= l2
  BY <1>1, <1>4
<1>8. \A i \in 1..Len(w) : column2[Start(ends2, k) + i] = w[i]
  BY <1>1, <1>2, <1>3, <1>5, <1>6, Zenon
<1>. QED  BY <1>1, <1>2, <1>3, <1>4, <1>7, <1>8, Zenon DEF SliceOf

\* Pushing a list and the end of its slice.
LEMMA PushSlice ==
  ASSUME NEW S, NEW ends \in Seq(Nat), NEW column \in Seq(S), NEW ws, NEW ws2, NEW w \in Seq(S),
         \A k \in 1..Len(ends) : ws[k] \in Seq(S), Longer(ws2, ws, Len(ends), w),
         SlicesOf(ends, column, Len(column), ws, Len(ends))
  PROVE  LET column2 == column \o w
             ends2 == Append(ends, Len(column2))
         IN SlicesOf(ends2, column2, Len(column2), ws2, Len(ends) + 1)
<1>1. PICK n \in Nat : n = Len(ends)
  BY Zenon, LenFacts
<1>2. PICK l \in Nat : l = Len(column)
  BY Zenon, LenFacts
<1>4. PICK m \in Nat : m = Len(w)
  BY Zenon, LenFacts
<1>5. PICK column2 : column2 = column \o w
  BY Zenon
<1>6. Len(column2) = l + m /\ \A i \in 1..l + m : column2[i] = IF i <= l THEN column[i] ELSE w[i - l]
  <2>1. /\ Len(column \o w) = Len(column) + Len(w)
        /\ \A i \in 1..Len(column) + Len(w) :
             (column \o w)[i] = IF i <= Len(column) THEN column[i] ELSE w[i - Len(column)]
    BY ConcatFacts, Zenon
  <2>. QED  BY <1>2, <1>4, <1>5, <2>1, Zenon
<1>7. l <= l + m /\ l + m \in Nat /\ \A i \in 1..l : column2[i] = column[i]
  BY <1>6
<1>8. PICK ends2 : ends2 = Append(ends, l + m)
  BY Zenon
<1>9. ends2[n + 1] = l + m /\ \A i \in 1..n : ends2[i] = ends[i]
  BY <1>1, <1>7, <1>8
<1>11. ws2[n + 1] = w /\ \A k \in 1..n : ws2[k] = ws[k]
  BY <1>1, Zenon DEF Longer
<1>12. l = Start(ends, n + 1) /\ \A k \in 1..n : SliceOf(ends, column, l, ws[k], k)
  BY <1>1, <1>2, Zenon DEF SlicesOf
<1>13. ASSUME NEW k \in 1..n
       PROVE  SliceOf(ends2, column2, l + m, ws2[k], k)
  <2>1. PICK v \in Seq(S) : v = ws[k]
    BY <1>1, Zenon
  <2>2. Len(v) \in Nat
    BY LenFacts, Zenon
  <2>3. k \in Nat /\ k > 0 /\ \A i \in 1..k : ends2[i] = ends[i]
    BY <1>9
  <2>4. SliceOf(ends, column, l, v, k)
    BY <1>12, <2>1, Zenon
  <2>5. SliceOf(ends2, column2, l + m, v, k)
    BY <1>7, <2>2, <2>3, <2>4, SliceKept, Zenon
  <2>. QED  BY <1>11, <2>1, <2>5, Zenon
<1>14. SliceOf(ends2, column2, l + m, w, n + 1)
  <2>1. Start(ends2, n + 1) = l
    <3>1. CASE n = 0
      BY <1>12, <3>1 DEF Start
    <3>2. CASE n # 0
      <4>1. n + 1 # 1 /\ (n + 1) - 1 = n /\ n \in 1..n
        BY <3>2
      <4>. QED  BY <1>9, <1>12, <4>1 DEF Start
    <3>. QED  BY <3>1, <3>2
  <2>2. \A i \in 1..m : column2[l + i] = w[i]
    <3>1. \A i \in 1..m : l + i \in 1..l + m /\ ~(l + i <= l) /\ (l + i) - l = i
      OBVIOUS
    <3>. QED  BY <1>6, <3>1, Zenon
  <2>3. l + m <= l + m
    BY <1>7
  <2>. QED  BY <1>4, <1>7, <1>9, <2>1, <2>2, <2>3, Zenon DEF SliceOf
<1>15. \A k \in 1..n + 1 : SliceOf(ends2, column2, l + m, ws2[k], k)
  <2>1. \A k \in 1..n + 1 : k \in 1..n \/ k = n + 1
    OBVIOUS
  <2>. QED  BY <1>11, <1>13, <1>14, <2>1, Zenon
<1>16. Start(ends2, (n + 1) + 1) = l + m
  <2>1. (n + 1) + 1 # 1 /\ ((n + 1) + 1) - 1 = n + 1
    OBVIOUS
  <2>. QED  BY <1>9, <2>1, Zenon DEF Start
<1>17. SlicesOf(ends2, column2, l + m, ws2, n + 1)
  BY <1>15, <1>16, Zenon DEF SlicesOf
<1>. QED  BY <1>1, <1>5, <1>6, <1>8, <1>17, Zenon

\* the last block of the rows r
LastOf(r) == IF r = <<>> THEN None ELSE r[Len(r)].last

\* the worker references of the rows r
WorkersOf(r) == [k \in 1..Len(r) |-> r[k].workers]

\* Pushing the worker references of a row (push_chunk, builder.rs).
LEMMA PushWorkers ==
  ASSUME NEW R, \A x \in R : x.workers \in Seq(Nat), NEW r \in Seq(R), NEW row \in R,
         NEW ends \in Seq(Nat), NEW column \in Seq(Nat), Len(ends) = Len(r),
         SlicesOf(ends, column, Len(column), WorkersOf(r), Len(r)),
         NEW column2, column2 = column \o row.workers
  PROVE  SlicesOf(Append(ends, Len(column2)), column2, Len(column2), WorkersOf(Append(r, row)),
                  Len(r) + 1)
<1>1. PICK n \in Nat : n = Len(r)
  BY LenFacts, Zenon
<1>2. \A k \in 1..n : WorkersOf(r)[k] = r[k].workers /\ r[k] \in R
  BY <1>1 DEF WorkersOf
<1>3. PICK r2 : r2 = Append(r, row)
  BY Zenon
<1>4. Len(r2) = n + 1 /\ r2[n + 1] = row /\ \A k \in 1..n : r2[k] = r[k]
  BY <1>1, <1>3, AppendFacts
<1>5. \A k \in 1..n + 1 : WorkersOf(r2)[k] = r2[k].workers
  BY <1>4, Zenon DEF WorkersOf
<1>6. Longer(WorkersOf(r2), WorkersOf(r), n, row.workers)
  <2>1. Len(WorkersOf(r2)) = n + 1
    BY <1>4 DEF WorkersOf
  <2>2. n + 1 \in 1..n + 1 /\ \A k \in 1..n : k \in 1..n + 1
    OBVIOUS
  <2>. QED  BY <1>2, <1>4, <1>5, <2>1, <2>2, Zenon DEF Longer
<1>7. \A k \in 1..n : WorkersOf(r)[k] \in Seq(Nat)
  BY <1>2, Zenon
<1>8. PICK w \in Seq(Nat) : w = row.workers
  BY Zenon
<1>9. PICK ws, ws2 : ws = WorkersOf(r) /\ ws2 = WorkersOf(r2)
  BY Zenon
<1>10. SlicesOf(Append(ends, Len(column \o w)), column \o w, Len(column \o w), ws2, Len(ends) + 1)
  BY <1>1, <1>6, <1>7, <1>8, <1>9, PushSlice, Zenon
<1>. QED  BY <1>3, <1>8, <1>9, <1>10, Zenon

\* slice k of a column of length l has the length m and begins after s
Spans(offsets, l, k, s, m) ==
  offsets[k] = s /\ offsets[k + 1] = s + m /\ Min({offsets[k + 1], l}) = s + m

\* Where a reader finds the ends of a slice (Offsets), none of it cut off.
LEMMA OffsetsAt ==
  ASSUME NEW ends \in Seq(Nat), NEW column, NEW l \in Nat, NEW w, Len(w) \in Nat,
         NEW k \in 1..Len(ends), SliceOf(ends, column, l, w, k)
  PROVE  Spans(Offsets(ends), l, k, Start(ends, k), Len(w))
<1>. PICK s, o, m : s = Start(ends, k) /\ o = Offsets(ends) /\ m = Len(w)
  BY Zenon
<1>1. PICK n \in Nat : n = Len(ends)
  BY LenFacts, Zenon
<1>2. s \in Nat /\ ends[k] \in Nat /\ s + m = ends[k] /\ ends[k] <= l
  BY Zenon DEF SliceOf
<1>3. o[k] = s /\ o[k + 1] = s + m
  <2>1. <<0>> \in Seq(Nat) /\ Len(<<0>>) = 1 /\ <<0>>[1] = 0
    OBVIOUS
  <2>2. \A i \in 1..1 + n : o[i] = IF i <= 1 THEN <<0>>[i] ELSE ends[i - 1]
    <3>1. \A i \in 1..Len(<<0>>) + Len(ends) :
            o[i] = IF i <= Len(<<0>>) THEN <<0>>[i] ELSE ends[i - Len(<<0>>)]
      BY <2>1, ConcatFacts, Zenon DEF Offsets
    <3>. QED  BY <1>1, <2>1, <3>1
  <2>3. o[k + 1] = ends[k]
    BY <1>1, <2>2
  <2>4. o[k] = s
    BY <1>1, <2>1, <2>2 DEF Start
  <2>. QED  BY <1>2, <2>3, <2>4
<1>4. Min({s + m, l}) = s + m
  <2>1. PICK x : x = s + m
    BY Zenon
  <2>2. x \in Nat /\ x <= l
    BY <1>2, <2>1
  <2>3. PICK y : y = Min({x, l})
    BY Zenon
  <2>4. y \in {x, l} /\ \A z \in {x, l} : y <= z
    <3>1. x \in {x, l} /\ \A z \in {x, l} : x <= z
      BY <2>2
    <3>. QED  BY <2>3, <3>1, Zenon DEF Min
  <2>5. y = x
    BY <2>2, <2>4
  <2>. QED  BY <2>1, <2>3, <2>5, Zenon
<1>. QED  BY <1>3, <1>4, Zenon DEF Spans

\* What a reader slices out of the column is the list that was pushed.
LEMMA SliceBack ==
  ASSUME NEW S, NEW ends \in Seq(Nat), NEW column \in Seq(S), NEW w \in Seq(S), NEW n \in Nat,
         Len(ends) = n, NEW k \in 1..n, SliceOf(ends, column, Len(column), w, k)
  PROVE  Slice(Offsets(ends), column, k - 1) = w
<1>1. PICK l \in Nat : l = Len(column)
  BY Zenon, LenFacts
<1>2. PICK m \in Nat : m = Len(w)
  BY Zenon, LenFacts
<1>3. PICK o : o = Offsets(ends)
  BY Zenon
<1>4. PICK s : s = Start(ends, k)
  BY Zenon
<1>5. /\ s \in Nat /\ ends[k] \in Nat /\ s + m = ends[k] /\ ends[k] <= l
      /\ \A i \in 1..m : column[s + i] = w[i]
  BY <1>1, <1>2, <1>4, Zenon DEF SliceOf
<1>6. o[k] = s /\ o[k + 1] = s + m /\ Min({o[k + 1], l}) = s + m
  <2>1. Len(column) \in Nat /\ Len(w) \in Nat /\ k \in 1..Len(ends)
    BY LenFacts, Zenon
  <2>2. Spans(Offsets(ends), Len(column), k, Start(ends, k), Len(w))
    BY <2>1, OffsetsAt, Zenon
  <2>. QED  BY <1>1, <1>2, <1>3, <1>4, <2>2, Zenon DEF Spans
<1>8. Slice(o, column, k - 1) = SubSeq(column, s + 1, s + m)
  <2>1. (k - 1) + 1 = k /\ (k - 1) + 2 = k + 1
    OBVIOUS
  <2>. QED  BY <1>1, <1>6, <2>1, Zenon DEF Slice
<1>9. PICK t : t = SubSeq(column, s + 1, s + m)
  BY Zenon
<1>10. t \in Seq(S) /\ Len(t) = m /\ \A i \in 1..m : t[i] = column[s + i]
  <2>1. s + 1 \in Int /\ s + m \in Int /\ \A i \in s + 1..s + m : i \in 1..l
    BY <1>5
  <2>2. \A i \in s + 1..s + m : column[i] \in S
    BY <1>1, <2>1
  <2>3. PICK a, b : a = s + 1 /\ b = s + m
    BY Zenon
  <2>4. a \in Int /\ b \in Int /\ \A i \in a..b : column[i] \in S
    BY <2>1, <2>2, <2>3, Zenon
  <2>5. t = SubSeq(column, a, b)
    BY <1>9, <2>3, Zenon
  <2>6. /\ t \in Seq(S)
        /\ Len(t) = IF a <= b THEN b - a + 1 ELSE 0
        /\ \A i \in 1..b - a + 1 : t[i] = column[a + i - 1]
    BY <2>4, <2>5, SubSeqFacts
  <2>7. b - a + 1 = m /\ Len(t) = m
    BY <1>5, <2>3, <2>6
  <2>8. \A i \in 1..m : a + i - 1 = s + i
    BY <1>5, <2>3
  <2>9. \A i \in 1..m : t[i] = column[a + i - 1]
    BY <2>6, <2>7, Zenon
  <2>. QED  BY <2>6, <2>7, <2>8, <2>9, Zenon
<1>11. t = w
  <2>1. Len(t) = Len(w) /\ \A i \in 1..Len(t) : t[i] = w[i]
    BY <1>2, <1>5, <1>10, Zenon
  <2>. QED  BY <1>10, <2>1, SameEntries, Zenon
<1>. QED  BY <1>3, <1>8, <1>9, <1>11, Zenon

\* a slice that ends inside its column
Inside(offsets, column, index, w) ==
  /\ offsets[index + 2] <= Len(column)
  /\ SubSeq(column, offsets[index + 1] + 1, offsets[index + 2]) = w

\* The slice ends inside the column, so that clamping does not change it.
LEMMA SliceInside ==
  ASSUME NEW S, NEW ends \in Seq(Nat), NEW column \in Seq(S), NEW w \in Seq(S), NEW n \in Nat,
         Len(ends) = n, NEW k \in 1..n, SliceOf(ends, column, Len(column), w, k)
  PROVE  Inside(Offsets(ends), column, k - 1, w)
<1>. PICK o, l, e : o = Offsets(ends) /\ l = Len(column) /\ e = o[k + 1]
  BY Zenon
<1>1. (k - 1) + 1 = k /\ (k - 1) + 2 = k + 1
  OBVIOUS
<1>2. l \in Nat /\ Len(w) \in Nat /\ k \in 1..Len(ends)
  BY LenFacts, Zenon
<1>3. Spans(o, l, k, Start(ends, k), Len(w))
  BY <1>2, OffsetsAt, Zenon
<1>4. Min({e, l}) = e /\ e = Start(ends, k) + Len(w)
  BY <1>3, Zenon DEF Spans
<1>5. e = ends[k] /\ ends[k] <= l
  BY <1>4, Zenon DEF SliceOf
<1>6. SubSeq(column, o[k] + 1, Min({e, l})) = w
  BY <1>1, SliceBack, Zenon DEF Slice
<1>. QED  BY <1>1, <1>4, <1>5, <1>6, Zenon DEF Inside

\* Leaving out a column of zeros loses nothing.
LEMMA VersionBack ==
  ASSUME NEW versions \in Seq(Nat), NEW k \in 1..Len(versions)
  PROVE  VersionAt(EmitVersions(versions), k - 1) = versions[k]
<1>1. k \in DOMAIN versions /\ (k - 1) + 1 = k /\ versions # <<>>
  BY EmptyFacts
<1>2. CASE \E i \in DOMAIN versions : versions[i] # 0
  BY <1>1, <1>2, Zenon DEF VersionAt, EmitVersions
<1>3. CASE ~\E i \in DOMAIN versions : versions[i] # 0
  BY <1>1, <1>3, Zenon DEF VersionAt, EmitVersions
<1>. QED  BY <1>2, <1>3, Zenon

=============================================================================
