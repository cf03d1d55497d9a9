------------------------ MODULE WorkerAssignmentProofs ----------------------
(***************************************************************************)
(* Proofs about WorkerAssignment, for any calls of the builder, any number *)
(* of datasets, chunks, tables and workers, any size of a byte and any     *)
(* limit of the offsets: a worker reads back exactly the chunks its        *)
(* builder took, finds those that name it, and builds their urls from the  *)
(* prefixes of their own dataset.                                          *)
(***************************************************************************)
EXTENDS WorkerAssignment, ColumnLemmas

-----------------------------------------------------------------------------
(***************************************************************************)
(* Bitmaps over a roster                                                   *)
(***************************************************************************)

\* A number is cut into a byte and a bit (index / 8, index % 8).
LEMMA ByteAndBit ==
  ASSUME NEW b \in Nat \ {0}, NEW i \in Nat
  PROVE  i \div b \in Nat /\ i % b \in 0..b - 1 /\ (i \div b) * b + (i % b) = i
<1>. DEFINE T == {j \in Nat : ~\E q \in Nat, r \in 0..b - 1 : j = q * b + r}
<1>1. T = {}
  <2>. SUFFICES ASSUME T # {} PROVE FALSE
    BY Zenon
  <2>1. PICK j \in T : \A m \in T : j <= m
    <3>1. T \in SUBSET Nat
      OBVIOUS
    <3>. HIDE DEF T
    <3>. QED  BY <3>1, LeastElement, Zenon
  <2>2. CASE j < b
    <3>1. j = 0 * b + j /\ j \in 0..b - 1 /\ 0 \in Nat
      BY <2>2
    <3>. QED  BY <3>1, Zenon
  <2>3. CASE j >= b
    <3>1. j \in Nat /\ j - b \in Nat
      BY <2>3
    <3>2. PICK q \in Nat, r \in 0..b - 1 : j - b = q * b + r
      <4>1. j - b \notin T
        <5>. HIDE DEF T
        <5>. QED  BY <2>1, <3>1
      <4>. QED  BY <3>1, <4>1, Zenon
    <3>3. j = (q + 1) * b + r /\ q + 1 \in Nat
      BY <3>2
    <3>. QED  BY <3>3, Zenon
  <2>. QED  BY <2>2, <2>3
<1>2. PICK q \in Nat, r \in 0..b - 1 : i = q * b + r
  BY <1>1, Zenon
<1>3. i \div b = q /\ i % b = r
  BY <1>2
<1>. QED  BY <1>2, <1>3

\* Every index of a roster has its byte in the bitmap (div_ceil).
LEMMA ByteInBitmap ==
  ASSUME NEW b \in Nat \ {0}, NEW n \in Nat, NEW i \in 0..n - 1
  PROVE  i \div b < (n + b - 1) \div b
  OBVIOUS

\* the tables a reader finds for a bitmap
TablesIn(roster, bits) ==
  {roster[i + 1] : i \in {j \in 0..Len(roster) - 1 :
     bits = <<>> \/ (j \div BITS < Len(bits) /\ j % BITS \in bits[j \div BITS + 1])}}

\* n bytes with the bits of `present'
Bytes(bits, n, present) ==
  /\ n \in Nat /\ bits \in Seq(SUBSET Nat) /\ Len(bits) = n
  /\ \A b \in 1..n : bits[b] = {bit \in 0..BITS - 1 : (b - 1) * BITS + bit \in present}

\* A bitmap is one byte for every BITS tables.
LEMMA BitmapBytes ==
  ASSUME WorkerCalls, NEW roster \in Seq(Int), NEW present
  PROVE  Bytes(Bitmap(roster, present), (Len(roster) + BITS - 1) \div BITS, present)
<1>. PICK n : n = (Len(roster) + BITS - 1) \div BITS
  BY Zenon
<1>1. BITS \in Nat \ {0} /\ Len(roster) \in Nat
  BY LenFacts, Zenon DEF WorkerCalls
<1>2. n \in Nat
  BY <1>1
<1>3. PICK f : f = Bitmap(roster, present)
  BY Zenon
<1>4. f = [b \in 1..n |-> {bit \in 0..BITS - 1 : (b - 1) * BITS + bit \in present}]
  BY <1>3, Zenon DEF Bitmap
<1>5. \A b \in 1..n : {bit \in 0..BITS - 1 : (b - 1) * BITS + bit \in present} \in SUBSET Nat
  <2>1. 0..BITS - 1 \subseteq Nat
    BY <1>1
  <2>. QED  BY <2>1, Zenon
<1>6. f \in [1..n -> SUBSET Nat]
  BY <1>4, <1>5, Zenon
<1>7. f \in Seq(SUBSET Nat) /\ Len(f) = n
  BY <1>2, <1>6
<1>. QED  BY <1>2, <1>3, <1>4, <1>7, Zenon DEF Bytes

\* What is set in a bitmap is read from it.
LEMMA BitmapBack ==
  ASSUME WorkerCalls, NEW roster \in Seq(Int), NEW present, present \subseteq 0..Len(roster) - 1
  PROVE  TablesIn(roster, Bitmap(roster, present)) = {roster[i + 1] : i \in present}
<1>1. PICK m \in Nat : m = Len(roster)
  BY LenFacts, Zenon
<1>2. PICK n : n = (Len(roster) + BITS - 1) \div BITS
  BY Zenon
<1>3. PICK bits : bits = Bitmap(roster, present)
  BY Zenon
<1>4. /\ n \in Nat /\ bits \in Seq(SUBSET Nat) /\ Len(bits) = n
      /\ \A b \in 1..n : bits[b] = {bit \in 0..BITS - 1 : (b - 1) * BITS + bit \in present}
  BY <1>2, <1>3, BitmapBytes, Zenon DEF Bytes
<1>5. BITS \in Nat \ {0}
  BY Zenon DEF WorkerCalls
<1>6. ASSUME NEW j \in 0..m - 1
      PROVE  (bits = <<>> \/ (j \div BITS < Len(bits) /\ j % BITS \in bits[j \div BITS + 1]))
               <=> j \in present
  <2>1. PICK q \in Nat, r \in 0..BITS - 1 : q = j \div BITS /\ r = j % BITS /\ q * BITS + r = j
    <3>1. j \in Nat
      OBVIOUS
    <3>. QED  BY <1>5, <3>1, ByteAndBit, Zenon
  <2>2. q < n
    BY <1>1, <1>2, <1>5, <2>1, ByteInBitmap, Zenon
  <2>3. q + 1 \in 1..n /\ (q + 1) - 1 = q /\ Len(bits) # 0
    BY <1>4, <2>2
  <2>4. bits[q + 1] = {bit \in 0..BITS - 1 : q * BITS + bit \in present}
    BY <1>4, <2>3, Zenon
  <2>5. r \in bits[q + 1] <=> j \in present
    BY <2>1, <2>4, Zenon
  <2>6. bits # <<>>
    BY <2>3
  <2>. QED  BY <1>4, <2>1, <2>2, <2>5, <2>6, Zenon
<1>7. {j \in 0..m - 1 : bits = <<>> \/ (j \div BITS < Len(bits) /\ j % BITS \in bits[j \div BITS + 1])}
        = present
  BY <1>1, <1>6, Zenon
<1>. QED  BY <1>1, <1>3, <1>7, Zenon DEF TablesIn

\* Whatever is set, a bitmap is a list of sets of bits.
LEMMA BitmapType ==
  ASSUME WorkerCalls, NEW roster \in Seq(Int), NEW present
  PROVE  Bitmap(roster, present) \in Seq(SUBSET Nat)
BY BitmapBytes, Zenon DEF Bytes

\* Without a bitmap all tables of the roster are there.
LEMMA AllTables ==
  ASSUME NEW roster \in Seq(Int)
  PROVE  TablesIn(roster, <<>>) = Range(roster)
<1>1. PICK m \in Nat : m = Len(roster) /\ DOMAIN roster = 1..m
  BY LenFacts, Zenon
<1>2. TablesIn(roster, <<>>) = {roster[i + 1] : i \in 0..m - 1}
  BY <1>1, Zenon DEF TablesIn
<1>3. /\ \A i \in 0..m - 1 : i + 1 \in 1..m
      /\ \A k \in 1..m : k - 1 \in 0..m - 1 /\ (k - 1) + 1 = k
  OBVIOUS
<1>. QED  BY <1>1, <1>2, <1>3, Zenon DEF Range

\* the cursor after table k, from the cursors before it
CursorStep(roster, tables, f, k) ==
  IF k = 0 THEN 0
  ELSE LET from == f[k - 1]
           at == Min({i \in from..Len(roster) : i = Len(roster) \/ roster[i + 1] >= tables[k]})
       IN IF from # None /\ at < Len(roster) /\ roster[at + 1] = tables[k] THEN at + 1 ELSE None

\* f is the cursor after each of the first n tables
Cursors(roster, tables, f, n) == f = [k \in 0..n |-> CursorStep(roster, tables, f, k)]

\* The cursors exist, for a list of any length.
LEMMA CursorsExist ==
  ASSUME NEW roster, NEW tables, NEW n \in Nat
  PROVE  \E f : Cursors(roster, tables, f, n)
<1>. DEFINE T == {m \in Nat : ~\E f : Cursors(roster, tables, f, m)}
<1>. SUFFICES ASSUME T # {} PROVE FALSE
  BY Zenon
<1>1. PICK m \in T : \A k \in T : m <= k
  <2>1. T \in SUBSET Nat
    OBVIOUS
  <2>. HIDE DEF T
  <2>. QED  BY <2>1, LeastElement, Zenon
<1>2. CASE m = 0
  <2>1. PICK f : f = [k \in 0..0 |-> 0]
    BY Zenon
  <2>2. \A k \in 0..0 : k = 0
    OBVIOUS
  <2>3. f = [k \in 0..0 |-> CursorStep(roster, tables, f, k)]
    BY <2>1, <2>2, Zenon DEF CursorStep
  <2>. QED  BY <1>2, <2>3, Zenon DEF Cursors
<1>3. CASE m # 0
  <2>1. m \in Nat /\ m - 1 \in Nat
    BY <1>3
  <2>2. PICK f : Cursors(roster, tables, f, m - 1)
    <3>1. m - 1 \notin T
      <4>. HIDE DEF T
      <4>. QED  BY <1>1, <2>1
    <3>. QED  BY <2>1, <3>1, Zenon
  <2>3. PICK g : g = [k \in 0..m |-> IF k = m THEN CursorStep(roster, tables, f, m) ELSE f[k]]
    BY Zenon
  <2>4. \A k \in 0..m : k # m => k \in 0..m - 1
    BY <2>1
  <2>5. \A k \in 0..m : k # 0 => k - 1 \in 0..m /\ k - 1 # m
    BY <2>1
  <2>6. \A k \in 0..m : k # 0 => g[k - 1] = f[k - 1]
    BY <2>3, <2>5, Zenon
  <2>7. \A k \in 0..m : CursorStep(roster, tables, g, k) = CursorStep(roster, tables, f, k)
    BY <2>6, Zenon DEF CursorStep
  <2>8. \A k \in 0..m : k # m => f[k] = CursorStep(roster, tables, f, k)
    BY <2>2, <2>4, Zenon DEF Cursors
  <2>9. g = [k \in 0..m |-> CursorStep(roster, tables, g, k)]
    BY <2>3, <2>7, <2>8, Zenon
  <2>. QED  BY <2>9, Zenon DEF Cursors
<1>. QED  BY <1>2, <1>3, Zenon

\* Each cursor follows from the one before it.
LEMMA CursorUnfold ==
  ASSUME NEW roster, NEW tables, Len(tables) \in Nat
  PROVE  Cursors(roster, tables, Cursor(roster, tables), Len(tables))
<1>1. PICK f : Cursors(roster, tables, f, Len(tables))
  BY CursorsExist, Zenon
<1>2. Cursor(roster, tables) = CHOOSE g : Cursors(roster, tables, g, Len(tables))
  BY Zenon DEF Cursor, Cursors, CursorStep
<1>. QED  BY <1>1, <1>2, Zenon

\* where a cursor that is not None stands
CursorAt(roster, tables, f, k) ==
  f[k] # None =>
    /\ f[k] \in 0..Len(roster)
    /\ k # 0 => f[k - 1] # None /\ f[k] \in 1..Len(roster) /\ roster[f[k]] = tables[k]

\* The least of a set of numbers with a bound is in it.
LEMMA MinInside ==
  ASSUME NEW S, NEW from \in Nat, NEW n \in Nat, S \subseteq from..n, n \in S
  PROVE  Min(S) \in S
<1>1. S \in SUBSET Nat /\ S # {}
  OBVIOUS
<1>2. \E x \in S : \A y \in S : x <= y
  BY <1>1, LeastElement, Zenon
<1>. QED  BY <1>2, Zenon DEF Min

\* The cursor of a table stands behind that table in the roster.
LEMMA CursorsPlaced ==
  ASSUME NEW roster \in Seq(Int), NEW tables \in Seq(Int), NEW f,
         Cursors(roster, tables, f, Len(tables))
  PROVE  \A k \in 0..Len(tables) : CursorAt(roster, tables, f, k)
<1>1. PICK m \in Nat, l \in Nat : m = Len(roster) /\ l = Len(tables)
  BY LenFacts, Zenon
<1>. DEFINE T == {k \in 0..l : ~CursorAt(roster, tables, f, k)}
<1>. SUFFICES ASSUME T # {} PROVE FALSE
  BY <1>1, Zenon
<1>2. PICK k \in T : \A j \in T : k <= j
  <2>1. T \in SUBSET Nat
    OBVIOUS
  <2>. HIDE DEF T
  <2>. QED  BY <2>1, LeastElement, Zenon
<1>3. k \in 0..l /\ ~CursorAt(roster, tables, f, k)
  OBVIOUS
<1>4. f[k] = CursorStep(roster, tables, f, k)
  BY <1>1, <1>3, Zenon DEF Cursors
<1>5. CASE k = 0
  <2>1. f[k] = 0 /\ 0 \in 0..m
    BY <1>4, <1>5 DEF CursorStep
  <2>. QED  BY <1>1, <1>3, <1>5, <2>1, Zenon DEF CursorAt
<1>6. CASE k # 0
  <2>1. k - 1 \in 0..l
    BY <1>3, <1>6
  <2>2. CursorAt(roster, tables, f, k - 1)
    <3>1. k - 1 \notin T
      <4>. HIDE DEF T
      <4>. QED  BY <1>2, <1>3
    <3>. QED  BY <2>1, <3>1, Zenon
  <2>3. PICK from : from = f[k - 1]
    BY Zenon
  <2>4. PICK S : S = {i \in from..m : i = m \/ roster[i + 1] >= tables[k]}
    BY Zenon
  <2>5. PICK at : at = Min(S)
    BY Zenon
  <2>6. f[k] = IF from # None /\ at < m /\ roster[at + 1] = tables[k] THEN at + 1 ELSE None
    BY <1>1, <1>4, <1>6, <2>3, <2>4, <2>5, Zenon DEF CursorStep
  <2>7. CASE from # None /\ at < m /\ roster[at + 1] = tables[k]
    <3>1. from \in 0..m
      BY <1>1, <2>2, <2>3, <2>7, Zenon DEF CursorAt
    <3>2. at \in S
      <4>1. from \in Nat /\ S \subseteq from..m /\ m \in S
        BY <2>4, <3>1
      <4>. QED  BY <2>5, <4>1, MinInside, Zenon
    <3>3. at \in from..m
      BY <2>4, <3>2, Zenon
    <3>4. at + 1 \in 1..m /\ at + 1 \in 0..m
      BY <2>7, <3>1, <3>3
    <3>. QED  BY <1>1, <1>3, <2>3, <2>6, <2>7, <3>4, Zenon DEF CursorAt
  <2>8. CASE ~(from # None /\ at < m /\ roster[at + 1] = tables[k])
    BY <1>3, <2>6, <2>8, Zenon DEF CursorAt
  <2>. QED  BY <2>7, <2>8, Zenon
<1>. QED  BY <1>5, <1>6, Zenon

\* If the last cursor is not None, no table was missing from the roster.
LEMMA AllPlaced ==
  ASSUME NEW roster \in Seq(Int), NEW tables \in Seq(Int), NEW f,
         Cursors(roster, tables, f, Len(tables)), f[Len(tables)] # None
  PROVE  \A k \in 0..Len(tables) : f[k] # None
<1>1. PICK l \in Nat : l = Len(tables)
  BY LenFacts, Zenon
<1>. DEFINE T == {j \in 0..l : f[l - j] = None}
<1>2. T = {}
  <2>. SUFFICES ASSUME T # {} PROVE FALSE
    OBVIOUS
  <2>1. PICK j \in T : \A i \in T : j <= i
    <3>1. T \in SUBSET Nat
      OBVIOUS
    <3>. HIDE DEF T
    <3>. QED  BY <3>1, LeastElement, Zenon
  <2>2. j \in 0..l /\ f[l - j] = None
    OBVIOUS
  <2>3. j # 0
    <3>1. l - 0 = l
      OBVIOUS
    <3>. QED  BY <1>1, <2>2, <3>1, Zenon
  <2>4. PICK k : k = l - j + 1
    BY Zenon
  <2>5. k \in 0..l /\ k # 0 /\ k - 1 = l - j /\ l - (j - 1) = k /\ j - 1 \in 0..l
    BY <2>2, <2>3, <2>4
  <2>6. f[k] # None
    <3>1. j - 1 \notin T
      <4>. HIDE DEF T
      <4>. QED  BY <2>1, <2>2
    <3>. QED  BY <2>5, <3>1, Zenon
  <2>7. CursorAt(roster, tables, f, k)
    BY <1>1, <2>5, CursorsPlaced, Zenon
  <2>. QED  BY <2>2, <2>5, <2>6, <2>7, Zenon DEF CursorAt
<1>3. \A k \in 0..l : l - k \in 0..l /\ l - (l - k) = k
  OBVIOUS
<1>4. \A k \in 0..l : f[k] # None
  <2>1. \A j \in 0..l : f[l - j] # None
    BY <1>2, Zenon
  <2>. QED  BY <1>3, <2>1, Zenon
<1>. QED  BY <1>1, <1>4, Zenon

\* what tables_present stages for a list of tables
StagedBits(roster, tables) ==
  LET cursor == Cursor(roster, tables)
  IN Bitmap(roster, {cursor[k] - 1 : k \in {l \in 1..Len(tables) : cursor[l] # None}})

\* A list that tables_present accepts is read back from the bitmap it stages.
LEMMA TablesBack ==
  ASSUME WorkerCalls, NEW roster \in Seq(Int), NEW tables \in Seq(Int),
         Cursor(roster, tables)[Len(tables)] # None
  PROVE  TablesIn(roster, StagedBits(roster, tables)) = Range(tables)
<1>1. PICK f : f = Cursor(roster, tables)
  BY Zenon
<1>2. PICK l \in Nat : l = Len(tables) /\ DOMAIN tables = 1..l
  BY LenFacts, Zenon
<1>3. Cursors(roster, tables, f, l)
  BY <1>1, <1>2, CursorUnfold, Zenon
<1>4. \A k \in 1..l : k \in 0..l /\ k # 0
  OBVIOUS
<1>5. \A k \in 1..l : f[k] # None /\ f[k] \in 1..Len(roster) /\ roster[f[k]] = tables[k]
  <2>1. \A k \in 0..l : f[k] # None
    BY <1>1, <1>2, <1>3, AllPlaced, Zenon
  <2>2. \A k \in 0..l : CursorAt(roster, tables, f, k)
    BY <1>2, <1>3, CursorsPlaced, Zenon
  <2>. QED  BY <1>4, <2>1, <2>2, Zenon DEF CursorAt
<1>6. PICK present : present = {f[k] - 1 : k \in 1..l}
  BY Zenon
<1>7. StagedBits(roster, tables) = Bitmap(roster, present)
  <2>1. {k \in 1..l : f[k] # None} = 1..l
    BY <1>5, Zenon
  <2>. QED  BY <1>1, <1>2, <1>6, <2>1, Zenon DEF StagedBits
<1>8. \A k \in 1..l : f[k] - 1 \in 0..Len(roster) - 1 /\ (f[k] - 1) + 1 = f[k]
  <2>1. Len(roster) \in Nat
    BY LenFacts, Zenon
  <2>. QED  BY <1>5, <2>1
<1>9. TablesIn(roster, Bitmap(roster, present)) = {roster[i + 1] : i \in present}
  <2>1. present \subseteq 0..Len(roster) - 1
    BY <1>6, <1>8, Zenon
  <2>. QED  BY <2>1, BitmapBack, Zenon
<1>10. {roster[i + 1] : i \in present} = {tables[k] : k \in 1..l}
  <2>1. \A k \in 1..l : f[k] - 1 \in present /\ roster[(f[k] - 1) + 1] = tables[k]
    BY <1>5, <1>6, <1>8, Zenon
  <2>2. \A i \in present : \E k \in 1..l : i = f[k] - 1
    BY <1>6, Zenon
  <2>3. \A i \in present : \E k \in 1..l : roster[i + 1] = tables[k]
    BY <2>1, <2>2, Zenon
  <2>4. \A k \in 1..l : \E i \in present : tables[k] = roster[i + 1]
    BY <2>1, Zenon
  <2>5. PICK A, B : A = {roster[i + 1] : i \in present} /\ B = {tables[k] : k \in 1..l}
    BY Zenon
  <2>6. \A x : x \in A <=> \E i \in present : x = roster[i + 1]
    BY <2>5, Zenon
  <2>7. \A x : x \in B <=> \E k \in 1..l : x = tables[k]
    BY <2>5, Zenon
  <2>8. \A x \in A : x \in B
    BY <2>3, <2>6, <2>7, Zenon
  <2>9. ASSUME NEW x \in B PROVE x \in A
    <3>1. PICK k \in 1..l : x = tables[k]
      BY <2>7, Zenon
    <3>2. PICK i \in present : tables[k] = roster[i + 1]
      BY <2>4, Zenon
    <3>3. x = roster[i + 1]
      BY <3>1, <3>2, Zenon
    <3>. QED  BY <2>6, <3>3, Zenon
  <2>10. A = B
    BY <2>8, <2>9, Zenon
  <2>. QED  BY <2>5, <2>10, Zenon
<1>. QED  BY <1>2, <1>7, <1>9, <1>10, Zenon DEF Range

-----------------------------------------------------------------------------
(***************************************************************************)
(* The columns of an open dataset                                          *)
(***************************************************************************)

RowType == [
  top : Nat, first : Nat, last : Nat, hash : Hashes, size : Nat, write_schema_id : Nat,
  version : Nat, tables : SUBSET Int, workers : Seq(Nat)]

ColumnsType == [
  first_blocks : Seq(Nat), block_deltas : Seq(Int), hashes : Seq(Padded), tops : Seq(TopRun),
  sizes : Seq(Nat), write_schema_ids : Seq(Nat), versions : Seq(Nat),
  tables_present : Seq(SUBSET Nat), tables_present_ends : Seq(Nat), any_tables_trimmed : BOOLEAN,
  worker_ends : Seq(Nat), worker_indexes : Seq(Nat)]

\* row k of the columns that are not compressed
RowAt(c, k, row) ==
  /\ c.first_blocks[k] = row.first /\ c.block_deltas[k] = row.last - row.first
  /\ c.hashes[k] = chunk_hash(row.hash) /\ c.sizes[k] = row.size
  /\ c.write_schema_ids[k] = row.write_schema_id /\ c.versions[k] = row.version

Long(c, n) ==
  /\ Len(c.first_blocks) = n /\ Len(c.block_deltas) = n /\ Len(c.hashes) = n /\ Len(c.sizes) = n
  /\ Len(c.write_schema_ids) = n /\ Len(c.versions) = n /\ Len(c.tables_present_ends) = n

\* the columns of the rows r but for the bitmaps
ColumnsOf(c, r) ==
  /\ Long(c, Len(r)) /\ Len(c.worker_ends) = Len(r)
  /\ \A k \in 1..Len(r) : RowAt(c, k, r[k])
  /\ TopsOf(c.tops, r)
  /\ SlicesOf(c.worker_ends, c.worker_indexes, Len(c.worker_indexes), WorkersOf(r), Len(r))

\* the bitmap w says which tables the row has
BitsOf(schemas, row, w) ==
  /\ w \in Seq(SUBSET Nat) /\ row.write_schema_id \in DOMAIN schemas
  /\ TablesIn(schemas[row.write_schema_id], w) = row.tables

\* the bitmaps of the rows r
BitmapsOf(ends, column, r, schemas) ==
  \E ws : /\ SlicesOf(ends, column, Len(column), ws, Len(r))
          /\ \A k \in 1..Len(r) : BitsOf(schemas, r[k], ws[k])

\* The columns are those of the rows, as long as the worker references and the
\* bitmaps fit.
StagedRows(c, r, last, schemas) ==
  /\ c \in ColumnsType /\ r \in Seq(RowType) /\ last = LastOf(r)
  /\ c.any_tables_trimmed \/ c.tables_present = <<>>
  /\ Len(c.worker_indexes) <= U32Max =>
       /\ ColumnsOf(c, r)
       /\ Len(c.tables_present) <= U32Max =>
            BitmapsOf(c.tables_present_ends, c.tables_present, r, schemas)
  /\ ~(Len(c.worker_indexes) <= U32Max) => Len(c.worker_ends) < Len(c.first_blocks)

\* The empty columns are those of no rows.
LEMMA NothingStaged ==
  ASSUME WorkerCalls, NEW schemas
  PROVE  StagedRows(NoColumns, <<>>, None, schemas)
<1>1. NoColumns \in ColumnsType
  BY DEF NoColumns, ColumnsType
<1>2. <<>> \in Seq(RowType) /\ Len(<<>>) = 0
  OBVIOUS
<1>3. /\ Long(NoColumns, 0) /\ Len(NoColumns.worker_ends) = 0
      /\ NoColumns.worker_indexes = <<>> /\ NoColumns.tops = <<>> /\ NoColumns.tables_present = <<>>
  BY DEF NoColumns, Long
<1>4. TopsOf(<<>>, <<>>)
  BY DEF TopsOf, RunsOf
<1>5. \A ends, ws : SlicesOf(ends, <<>>, 0, ws, 0)
  BY DEF SlicesOf, Start
<1>6. ColumnsOf(NoColumns, <<>>)
  <2>1. \A k \in 1..0 : RowAt(NoColumns, k, <<>>[k])
    OBVIOUS
  <2>. QED  BY <1>2, <1>3, <1>4, <1>5, <2>1, Zenon DEF ColumnsOf
<1>7. BitmapsOf(NoColumns.tables_present_ends, NoColumns.tables_present, <<>>, schemas)
  <2>1. \A k \in 1..0 : BitsOf(schemas, <<>>[k], <<>>[k])
    OBVIOUS
  <2>. QED  BY <1>2, <1>3, <1>5, <2>1, Zenon DEF BitmapsOf
<1>8. 0 <= U32Max
  BY DEF WorkerCalls
<1>. QED  BY <1>1, <1>2, <1>3, <1>6, <1>7, <1>8, Zenon DEF StagedRows, LastOf

\* what a caller passes for an open chunk
ChunkType == [
  write_schema_id : Nat \cup {None}, version : Nat, tables_present : Nat \cup {None},
  tables : Seq(SUBSET Int), workers : Seq(Nat)]

\* the columns that grow by a list, with the staged one
Refs == columns.worker_indexes \o staged_worker_indexes
Bits == columns.tables_present \o staged_tables_present

\* the columns c and no others
AllColumns(c) ==
  c = [first_blocks |-> c.first_blocks, block_deltas |-> c.block_deltas, hashes |-> c.hashes,
       tops |-> c.tops, sizes |-> c.sizes, write_schema_ids |-> c.write_schema_ids,
       versions |-> c.versions, tables_present |-> c.tables_present,
       tables_present_ends |-> c.tables_present_ends,
       any_tables_trimmed |-> c.any_tables_trimmed, worker_ends |-> c.worker_ends,
       worker_indexes |-> c.worker_indexes]

\* c is the columns with one more row
PushedAs(c, in, ch) ==
  /\ c.tops = PushTop(columns.tops, Len(columns.first_blocks), in.id.top)
  /\ c.first_blocks = Append(columns.first_blocks, in.first)
  /\ c.block_deltas = Append(columns.block_deltas, in.last - in.first)
  /\ c.hashes = Append(columns.hashes, chunk_hash(in.id.hash))
  /\ c.sizes = Append(columns.sizes, in.size)
  /\ c.write_schema_ids = Append(columns.write_schema_ids, ch.write_schema_id)
  /\ c.versions = Append(columns.versions, ch.version)
  /\ c.tables_present = Bits
  /\ c.tables_present_ends = Append(columns.tables_present_ends, Len(Bits) % (U32Max + 1))
  /\ c.any_tables_trimmed = (columns.any_tables_trimmed \/ staged_tables_present # <<>>)
  /\ c.worker_indexes = Refs
  /\ c.worker_ends = IF Len(Refs) <= U32Max THEN Append(columns.worker_ends, Len(Refs))
                     ELSE columns.worker_ends
  /\ AllColumns(c)

\* The fields of the columns with one more row.
LEMMA PushedFields ==
  ASSUME columns \in ColumnsType, NEW in, NEW ch
  PROVE  PushedAs(PushRow(in, ch), in, ch)
<1>. PICK c, refs, bits : c = PushRow(in, ch) /\ refs = Refs /\ bits = Bits
  BY Zenon
<1>1. /\ c.tops = PushTop(columns.tops, Len(columns.first_blocks), in.id.top)
      /\ c.first_blocks = Append(columns.first_blocks, in.first)
      /\ c.block_deltas = Append(columns.block_deltas, in.last - in.first)
      /\ c.hashes = Append(columns.hashes, chunk_hash(in.id.hash))
      /\ c.sizes = Append(columns.sizes, in.size)
      /\ c.write_schema_ids = Append(columns.write_schema_ids, ch.write_schema_id)
      /\ c.versions = Append(columns.versions, ch.version)
  BY Zenon DEF ColumnsType, PushRow, push_bitmap
<1>2. /\ c.tables_present = bits
      /\ c.tables_present_ends = Append(columns.tables_present_ends, Len(bits) % (U32Max + 1))
      /\ c.any_tables_trimmed = (columns.any_tables_trimmed \/ staged_tables_present # <<>>)
      /\ c.worker_indexes = refs
      /\ c.worker_ends = IF Len(refs) <= U32Max THEN Append(columns.worker_ends, Len(refs))
                         ELSE columns.worker_ends
  BY Zenon DEF Refs, Bits, ColumnsType, PushRow, push_bitmap
<1>3. AllColumns(c)
  BY Zenon DEF AllColumns, ColumnsType, PushRow, push_bitmap
<1>. QED  BY <1>1, <1>2, <1>3, Zenon DEF PushedAs

\* an accepted chunk: its row, and the references and the bitmap staged for it
Ready(in, ch) ==
  /\ IsChunkInput(in) /\ ch \in ChunkType /\ ch.write_schema_id \in Nat
  /\ staged_worker_indexes \in Seq(Nat) /\ ch.workers = staged_worker_indexes
  /\ Row(in, ch) \in RowType
  /\ BitsOf(write_schemas, Row(in, ch), staged_tables_present)

\* What a caller passes for a chunk fits its columns.
LEMMA InputTypes ==
  ASSUME NEW in, NEW ch, Ready(in, ch)
  PROVE  /\ in.first \in Nat /\ in.last \in Nat /\ in.last - in.first \in Int /\ in.size \in Nat
         /\ in.id.top \in Nat /\ in.id.hash \in Hashes /\ chunk_hash(in.id.hash) \in Padded
         /\ ch.write_schema_id \in Nat /\ ch.version \in Nat
         /\ staged_worker_indexes \in Seq(Nat) /\ staged_tables_present \in Seq(SUBSET Nat)
<1>1. IsChunkInput(in) /\ ch \in ChunkType
  BY Zenon DEF Ready
<1>2. /\ in.first \in Nat /\ in.last \in Nat /\ in.last - in.first \in Int /\ in.size \in Nat
      /\ in.id.top \in Nat /\ in.id.hash \in Hashes
  BY <1>1 DEF IsChunkInput, DataChunks
<1>3. ch.version \in Nat
  BY <1>1 DEF ChunkType
<1>. QED  BY <1>2, <1>3, HashPadded, Zenon DEF Ready, BitsOf

\* The columns with one more row are columns.
LEMMA PushedType ==
  ASSUME WorkerCalls, columns \in ColumnsType, NEW in, NEW ch, Ready(in, ch)
  PROVE  PushRow(in, ch) \in ColumnsType
<1>1. PICK c : c = PushRow(in, ch)
  BY Zenon
<1>2. PushedAs(c, in, ch)
  BY <1>1, PushedFields, Zenon
<1>3. /\ columns.first_blocks \in Seq(Nat) /\ columns.block_deltas \in Seq(Int)
      /\ columns.hashes \in Seq(Padded) /\ columns.tops \in Seq(TopRun)
      /\ columns.sizes \in Seq(Nat) /\ columns.write_schema_ids \in Seq(Nat)
      /\ columns.versions \in Seq(Nat)
      /\ columns.tables_present \in Seq(SUBSET Nat) /\ columns.tables_present_ends \in Seq(Nat)
      /\ columns.any_tables_trimmed \in BOOLEAN
      /\ columns.worker_ends \in Seq(Nat) /\ columns.worker_indexes \in Seq(Nat)
  BY DEF ColumnsType
<1>4. Refs \in Seq(Nat) /\ Len(Refs) \in Nat
  <2>1. Refs \in Seq(Nat)
    BY <1>3, InputTypes, ConcatFacts, Zenon DEF Refs
  <2>. QED  BY <2>1, LenFacts, Zenon
<1>5. Bits \in Seq(SUBSET Nat) /\ Len(Bits) % (U32Max + 1) \in Nat
  <2>1. Bits \in Seq(SUBSET Nat)
    BY <1>3, InputTypes, ConcatFacts, Zenon DEF Bits
  <2>2. Len(Bits) \in Nat /\ U32Max \in Nat
    BY <2>1, LenFacts, Zenon DEF WorkerCalls
  <2>3. \A x, y \in Nat : x % (y + 1) \in Nat
    OBVIOUS
  <2>. QED  BY <2>1, <2>2, <2>3, Zenon
<1>6. PushTop(columns.tops, Len(columns.first_blocks), in.id.top) \in Seq(TopRun)
  BY <1>3, InputTypes, LenFacts, PushTopType, Zenon
<1>7. /\ Append(columns.first_blocks, in.first) \in Seq(Nat)
      /\ Append(columns.block_deltas, in.last - in.first) \in Seq(Int)
      /\ Append(columns.hashes, chunk_hash(in.id.hash)) \in Seq(Padded)
      /\ Append(columns.sizes, in.size) \in Seq(Nat)
      /\ Append(columns.write_schema_ids, ch.write_schema_id) \in Seq(Nat)
      /\ Append(columns.versions, ch.version) \in Seq(Nat)
      /\ Append(columns.tables_present_ends, Len(Bits) % (U32Max + 1)) \in Seq(Nat)
      /\ Append(columns.worker_ends, Len(Refs)) \in Seq(Nat)
  BY <1>3, <1>4, <1>5, InputTypes, AppendLonger, Zenon
<1>8. c.worker_ends \in Seq(Nat)
  <2>1. c.worker_ends \in {Append(columns.worker_ends, Len(Refs)), columns.worker_ends}
    BY <1>2, Zenon DEF PushedAs
  <2>. QED  BY <1>3, <1>7, <2>1, Zenon
<1>9. /\ c.first_blocks \in Seq(Nat) /\ c.block_deltas \in Seq(Int) /\ c.hashes \in Seq(Padded)
      /\ c.tops \in Seq(TopRun) /\ c.sizes \in Seq(Nat) /\ c.write_schema_ids \in Seq(Nat)
      /\ c.versions \in Seq(Nat) /\ c.tables_present \in Seq(SUBSET Nat)
      /\ c.tables_present_ends \in Seq(Nat) /\ c.any_tables_trimmed \in BOOLEAN
      /\ c.worker_indexes \in Seq(Nat)
  BY <1>2, <1>4, <1>5, <1>6, <1>7, Zenon DEF PushedAs
<1>10. AllColumns(c)
  BY <1>2, Zenon DEF PushedAs
<1>. QED  BY <1>1, <1>8, <1>9, <1>10, Zenon DEF ColumnsType, AllColumns

\* A row that is staged appears at the end of each plain column.
LEMMA PushedRows ==
  ASSUME WorkerCalls, columns \in ColumnsType, NEW in, NEW ch, Ready(in, ch), NEW r \in Seq(RowType),
         NEW c, c = PushRow(in, ch), Long(columns, Len(r)),
         \A k \in 1..Len(r) : RowAt(columns, k, r[k])
  PROVE  /\ Long(c, Len(r) + 1)
         /\ \A k \in 1..Len(r) + 1 : RowAt(c, k, Append(r, Row(in, ch))[k])
<1>1. PICK n \in Nat : n = Len(r)
  BY LenFacts, Zenon
<1>2. PICK row : row = Row(in, ch)
  BY Zenon
<1>3. PICK r2 : r2 = Append(r, row)
  BY Zenon
<1>4. /\ row \in RowType /\ row.first = in.first /\ row.last = in.last /\ row.hash = in.id.hash
      /\ row.size = in.size /\ row.write_schema_id = ch.write_schema_id /\ row.version = ch.version
  BY <1>2, Zenon DEF Row, Ready
<1>5. r2[n + 1] = row /\ \A k \in 1..n : r2[k] = r[k]
  <2>1. Longer(r2, r, n, row)
    BY <1>1, <1>3, <1>4, AppendLonger, Zenon
  <2>. QED  BY <2>1, Zenon DEF Longer
<1>6. PICK e : e = Len(Bits) % (U32Max + 1)
  BY Zenon
<1>7. /\ c.first_blocks = Append(columns.first_blocks, in.first)
      /\ c.block_deltas = Append(columns.block_deltas, in.last - in.first)
      /\ c.hashes = Append(columns.hashes, chunk_hash(in.id.hash))
      /\ c.sizes = Append(columns.sizes, in.size)
      /\ c.write_schema_ids = Append(columns.write_schema_ids, ch.write_schema_id)
      /\ c.versions = Append(columns.versions, ch.version)
      /\ c.tables_present_ends = Append(columns.tables_present_ends, e)
  BY <1>6, PushedFields, Zenon DEF PushedAs
<1>8. /\ columns.first_blocks \in Seq(Nat) /\ columns.block_deltas \in Seq(Int)
      /\ columns.hashes \in Seq(Padded) /\ columns.sizes \in Seq(Nat)
      /\ columns.write_schema_ids \in Seq(Nat) /\ columns.versions \in Seq(Nat)
      /\ columns.tables_present \in Seq(SUBSET Nat) /\ columns.tables_present_ends \in Seq(Nat)
  BY DEF ColumnsType
<1>9. /\ Len(columns.first_blocks) = n /\ Len(columns.block_deltas) = n /\ Len(columns.hashes) = n
      /\ Len(columns.sizes) = n /\ Len(columns.write_schema_ids) = n /\ Len(columns.versions) = n
      /\ Len(columns.tables_present_ends) = n
  BY <1>1, Zenon DEF Long
<1>10. /\ Longer(c.first_blocks, columns.first_blocks, n, in.first)
       /\ Longer(c.block_deltas, columns.block_deltas, n, in.last - in.first)
       /\ Longer(c.hashes, columns.hashes, n, chunk_hash(in.id.hash))
       /\ Longer(c.sizes, columns.sizes, n, in.size)
       /\ Longer(c.write_schema_ids, columns.write_schema_ids, n, ch.write_schema_id)
       /\ Longer(c.versions, columns.versions, n, ch.version)
  <2>1. Longer(c.first_blocks, columns.first_blocks, n, in.first)
    BY <1>7, <1>8, <1>9, InputTypes, AppendLonger, Zenon
  <2>2. Longer(c.block_deltas, columns.block_deltas, n, in.last - in.first)
    BY <1>7, <1>8, <1>9, InputTypes, AppendLonger, Zenon
  <2>3. Longer(c.hashes, columns.hashes, n, chunk_hash(in.id.hash))
    BY <1>7, <1>8, <1>9, InputTypes, AppendLonger, Zenon
  <2>4. Longer(c.sizes, columns.sizes, n, in.size)
    BY <1>7, <1>8, <1>9, InputTypes, AppendLonger, Zenon
  <2>5. Longer(c.write_schema_ids, columns.write_schema_ids, n, ch.write_schema_id)
    BY <1>7, <1>8, <1>9, InputTypes, AppendLonger, Zenon
  <2>6. Longer(c.versions, columns.versions, n, ch.version)
    BY <1>7, <1>8, <1>9, InputTypes, AppendLonger, Zenon
  <2>. QED  BY <2>1, <2>2, <2>3, <2>4, <2>5, <2>6, Zenon
<1>11. Len(c.tables_present_ends) = n + 1
  BY <1>7, <1>8, <1>9
<1>12. Long(c, n + 1)
  BY <1>10, <1>11, Zenon DEF Long, Longer
<1>13. RowAt(c, n + 1, row)
  BY <1>4, <1>10, Zenon DEF RowAt, Longer
<1>14. ASSUME NEW k \in 1..n
       PROVE  RowAt(c, k, r[k])
  <2>1. RowAt(columns, k, r[k])
    BY <1>1, Zenon
  <2>2. /\ c.first_blocks[k] = columns.first_blocks[k] /\ c.block_deltas[k] = columns.block_deltas[k]
        /\ c.hashes[k] = columns.hashes[k] /\ c.sizes[k] = columns.sizes[k]
        /\ c.write_schema_ids[k] = columns.write_schema_ids[k] /\ c.versions[k] = columns.versions[k]
    BY <1>10, Zenon DEF Longer
  <2>. QED  BY <2>1, <2>2, Zenon DEF RowAt
<1>15. \A k \in 1..n + 1 : k \in 1..n \/ k = n + 1
  OBVIOUS
<1>16. \A k \in 1..n + 1 : RowAt(c, k, r2[k])
  BY <1>5, <1>13, <1>14, <1>15, Zenon
<1>. QED  BY <1>1, <1>2, <1>3, <1>12, <1>16, Zenon

\* Pushing the bitmap of a row (push_bitmap, builder.rs).
LEMMA PushBits ==
  ASSUME NEW schemas, NEW r \in Seq(RowType), NEW row \in RowType,
         NEW ends \in Seq(Nat), NEW column \in Seq(SUBSET Nat), Len(ends) = Len(r),
         BitmapsOf(ends, column, r, schemas), NEW w, BitsOf(schemas, row, w),
         NEW column2, column2 = column \o w
  PROVE  BitmapsOf(Append(ends, Len(column2)), column2, Append(r, row), schemas)
<1>1. PICK n \in Nat : n = Len(r)
  BY LenFacts, Zenon
<1>2. PICK ws : /\ SlicesOf(ends, column, Len(column), ws, n)
                /\ \A k \in 1..n : BitsOf(schemas, r[k], ws[k])
  BY <1>1, Zenon DEF BitmapsOf
<1>3. PICK ws2 : ws2 = [k \in 1..n + 1 |-> IF k = n + 1 THEN w ELSE ws[k]]
  BY Zenon
<1>4. Longer(ws2, ws, n, w)
  BY <1>3 DEF Longer
<1>5. w \in Seq(SUBSET Nat) /\ \A k \in 1..n : ws[k] \in Seq(SUBSET Nat)
  BY <1>2, Zenon DEF BitsOf
<1>6. SlicesOf(Append(ends, Len(column2)), column2, Len(column2), ws2, n + 1)
  BY <1>1, <1>2, <1>4, <1>5, PushSlice, Zenon
<1>7. Append(r, row) \in Seq(RowType) /\ Longer(Append(r, row), r, n, row)
  BY <1>1, AppendLonger, Zenon
<1>8. \A k \in 1..n + 1 : BitsOf(schemas, Append(r, row)[k], ws2[k])
  <2>1. \A k \in 1..n + 1 : k \in 1..n \/ k = n + 1
    OBVIOUS
  <2>. QED  BY <1>2, <1>4, <1>7, <2>1, Zenon DEF Longer
<1>. QED  BY <1>6, <1>7, <1>8, Zenon DEF BitmapsOf, Longer

\* Pushing a chunk keeps what is staged consistent: the row is staged with its
\* columns, or the worker references no longer fit and an end is missing.
LEMMA PushStaged ==
  ASSUME WorkerCalls, NEW in, NEW ch, Ready(in, ch), NEW r, NEW last,
         StagedRows(columns, r, last, write_schemas)
  PROVE  /\ Len(Refs) <= U32Max =>
              StagedRows(PushRow(in, ch), Append(r, Row(in, ch)), in.last, write_schemas)
         /\ ~(Len(Refs) <= U32Max) => StagedRows(PushRow(in, ch), r, last, write_schemas)
<1>1. PICK c : c = PushRow(in, ch)
  BY Zenon
<1>2. PICK row : row = Row(in, ch)
  BY Zenon
<1>3. columns \in ColumnsType /\ r \in Seq(RowType) /\ last = LastOf(r)
  BY Zenon DEF StagedRows
<1>4. c \in ColumnsType
  BY <1>1, <1>3, PushedType, Zenon
<1>5. PICK n \in Nat : n = Len(r)
  BY <1>3, LenFacts, Zenon
<1>6. /\ row \in RowType /\ row.top = in.id.top /\ row.last = in.last
      /\ row.workers = staged_worker_indexes
  BY <1>2, Zenon DEF Row, Ready
<1>7. /\ columns.worker_indexes \in Seq(Nat) /\ columns.worker_ends \in Seq(Nat)
      /\ columns.first_blocks \in Seq(Nat) /\ columns.tops \in Seq(TopRun)
      /\ columns.tables_present \in Seq(SUBSET Nat) /\ columns.tables_present_ends \in Seq(Nat)
  BY <1>3 DEF ColumnsType
<1>8. /\ Len(columns.worker_indexes) \in Nat /\ Len(Refs) \in Nat
      /\ Len(columns.worker_indexes) <= Len(Refs)
      /\ Len(columns.tables_present) \in Nat /\ Len(Bits) \in Nat
      /\ Len(columns.tables_present) <= Len(Bits)
  <2>1. /\ Len(Refs) = Len(columns.worker_indexes) + Len(staged_worker_indexes)
        /\ Len(Bits) = Len(columns.tables_present) + Len(staged_tables_present)
    BY <1>7, InputTypes, ConcatFacts, Zenon DEF Refs, Bits
  <2>2. /\ Len(columns.worker_indexes) \in Nat /\ Len(staged_worker_indexes) \in Nat
        /\ Len(columns.tables_present) \in Nat /\ Len(staged_tables_present) \in Nat
    BY <1>7, InputTypes, LenFacts, Zenon
  <2>. QED  BY <2>1, <2>2
<1>9. U32Max \in Nat
  BY Zenon DEF WorkerCalls
<1>10. PushedAs(c, in, ch)
  BY <1>1, <1>3, PushedFields, Zenon
<1>11. c.any_tables_trimmed \/ c.tables_present = <<>>
  <2>1. CASE columns.any_tables_trimmed \/ staged_tables_present # <<>>
    BY <1>10, <2>1, Zenon DEF PushedAs
  <2>2. CASE ~columns.any_tables_trimmed /\ staged_tables_present = <<>>
    <3>1. columns.tables_present = <<>> /\ <<>> \o <<>> = <<>>
      BY <2>2 DEF StagedRows
    <3>. QED  BY <1>10, <2>2, <3>1, Zenon DEF PushedAs, Bits
  <2>. QED  BY <2>1, <2>2, Zenon
<1>12. CASE Len(Refs) <= U32Max
  <2>1. Len(columns.worker_indexes) <= U32Max
    BY <1>8, <1>9, <1>12
  <2>2. ColumnsOf(columns, r)
    BY <2>1, Zenon DEF StagedRows
  <2>3. PICK r2 : r2 = Append(r, row)
    BY Zenon
  <2>4. r2 \in Seq(RowType) /\ Len(r2) = n + 1 /\ r2[n + 1] = row /\ r2 # <<>>
    BY <1>3, <1>5, <1>6, <2>3, AppendFacts, Zenon
  <2>5. /\ Long(columns, n) /\ Len(columns.worker_ends) = n
        /\ \A k \in 1..n : RowAt(columns, k, r[k])
        /\ TopsOf(columns.tops, r)
        /\ SlicesOf(columns.worker_ends, columns.worker_indexes, Len(columns.worker_indexes),
                    WorkersOf(r), n)
    BY <1>5, <2>2, Zenon DEF ColumnsOf
  <2>6. Long(c, n + 1) /\ \A k \in 1..n + 1 : RowAt(c, k, r2[k])
    BY <1>1, <1>2, <1>3, <1>5, <2>3, <2>5, PushedRows, Zenon
  <2>7. c.worker_ends = Append(columns.worker_ends, Len(Refs))
    BY <1>10, <1>12, Zenon DEF PushedAs
  <2>8. Len(c.worker_ends) = n + 1
    <3>1. Longer(c.worker_ends, columns.worker_ends, Len(columns.worker_ends), Len(Refs))
      BY <1>7, <1>8, <2>7, AppendLonger, Zenon
    <3>. QED  BY <2>5, <3>1, Zenon DEF Longer
  <2>9. TopsOf(c.tops, r2)
    <3>1. c.tops = PushTop(columns.tops, n, row.top)
      BY <1>6, <1>10, <2>5, Zenon DEF PushedAs, Long
    <3>2. row.top \in Nat
      BY <1>6, Zenon DEF RowType
    <3>. QED  BY <1>3, <1>5, <1>6, <1>7, <2>3, <2>5, <3>1, <3>2, PushTopOf, Zenon
  <2>10. SlicesOf(c.worker_ends, c.worker_indexes, Len(c.worker_indexes), WorkersOf(r2), n + 1)
    <3>1. \A x \in RowType : x.workers \in Seq(Nat)
      BY Zenon DEF RowType
    <3>2. c.worker_indexes = Refs /\ Refs = columns.worker_indexes \o row.workers
      BY <1>6, <1>10, Zenon DEF PushedAs, Refs
    <3>. QED  BY <1>3, <1>5, <1>6, <1>7, <2>3, <2>5, <2>7, <3>1, <3>2, PushWorkers, Zenon
  <2>11. ColumnsOf(c, r2)
    BY <2>4, <2>6, <2>8, <2>9, <2>10, Zenon DEF ColumnsOf
  <2>12. ASSUME Len(c.tables_present) <= U32Max
         PROVE  BitmapsOf(c.tables_present_ends, c.tables_present, r2, write_schemas)
    <3>1. c.tables_present = Bits
      BY <1>10, Zenon DEF PushedAs
    <3>2. Len(Bits) <= U32Max
      BY <2>12, <3>1, Zenon
    <3>3. Len(columns.tables_present) <= U32Max /\ Len(Bits) % (U32Max + 1) = Len(Bits)
      BY <1>8, <1>9, <3>2
    <3>4. c.tables_present_ends = Append(columns.tables_present_ends, Len(Bits))
      BY <1>10, <3>3, Zenon DEF PushedAs
    <3>5. BitmapsOf(columns.tables_present_ends, columns.tables_present, r, write_schemas)
      BY <2>1, <3>3, Zenon DEF StagedRows
    <3>6. BitsOf(write_schemas, row, staged_tables_present)
      BY <1>2, Zenon DEF Ready
    <3>7. Len(columns.tables_present_ends) = Len(r)
      BY <1>5, <2>5, Zenon DEF Long
    <3>8. BitmapsOf(Append(columns.tables_present_ends, Len(Bits)), Bits, Append(r, row), write_schemas)
      BY <1>3, <1>6, <1>7, <3>5, <3>6, <3>7, PushBits, Zenon DEF Bits
    <3>. QED  BY <2>3, <3>1, <3>4, <3>8, Zenon
  <2>13. LastOf(r2) = in.last
    BY <1>6, <2>4, Zenon DEF LastOf
  <2>14. c.worker_indexes = Refs
    BY <1>10, Zenon DEF PushedAs
  <2>15. StagedRows(c, r2, in.last, write_schemas)
    BY <1>4, <1>11, <1>12, <2>4, <2>11, <2>12, <2>13, <2>14, Zenon DEF StagedRows
  <2>. QED  BY <1>1, <1>2, <1>12, <2>3, <2>15, Zenon
<1>13. CASE ~(Len(Refs) <= U32Max)
  <2>1. c.worker_ends = columns.worker_ends /\ c.worker_indexes = Refs
    BY <1>10, <1>13, Zenon DEF PushedAs
  <2>2. Len(c.first_blocks) = Len(columns.first_blocks) + 1
    <3>1. c.first_blocks = Append(columns.first_blocks, in.first) /\ in.first \in Nat
      BY <1>10, InputTypes, Zenon DEF PushedAs
    <3>2. Longer(c.first_blocks, columns.first_blocks, Len(columns.first_blocks), in.first)
      BY <1>7, <3>1, AppendLonger, Zenon
    <3>. QED  BY <3>2, Zenon DEF Longer
  <2>3. Len(columns.worker_ends) \in Nat /\ Len(columns.first_blocks) \in Nat
    BY <1>7, LenFacts, Zenon
  <2>4. Len(columns.worker_ends) <= Len(columns.first_blocks)
    <3>1. CASE Len(columns.worker_indexes) <= U32Max
      <4>1. Len(columns.worker_ends) = n /\ Len(columns.first_blocks) = n
        BY <1>5, <3>1, Zenon DEF StagedRows, ColumnsOf, Long
      <4>. QED  BY <4>1
    <3>2. CASE ~(Len(columns.worker_indexes) <= U32Max)
      <4>1. Len(columns.worker_ends) < Len(columns.first_blocks)
        BY <3>2, Zenon DEF StagedRows
      <4>. QED  BY <2>3, <4>1
    <3>. QED  BY <3>1, <3>2, Zenon
  <2>5. Len(c.worker_ends) < Len(c.first_blocks)
    BY <2>1, <2>2, <2>3, <2>4
  <2>6. StagedRows(c, r, last, write_schemas)
    BY <1>3, <1>4, <1>11, <1>13, <2>1, <2>5, Zenon DEF StagedRows
  <2>. QED  BY <1>1, <1>13, <2>6, Zenon
<1>. QED  BY <1>12, <1>13, Zenon

-----------------------------------------------------------------------------
(***************************************************************************)
(* The invariant                                                           *)
(***************************************************************************)

\* the partial functions from X to Y
Maps(X, Y) == UNION {[D -> Y] : D \in SUBSET X}
Generations == Maps(Versions, BaseUrls)
Schemas == Maps(WriteSchemaIds, Rosters)

\* With check_continuity a row begins after the last block of the row before it.
FollowOn(r) == CheckContinuity => \A k \in 1..Len(r) - 1 : r[k].last + 1 = r[k + 1].first

\* The versions of the rows are registered.
VersionsIn(r, gens) == \A k \in 1..Len(r) : r[k].version = 0 \/ r[k].version \in DOMAIN gens

\* the rows of the open dataset
OpenRows == IF dataset = <<>> THEN <<>> ELSE rows

OpenInv ==
  /\ StagedRows(columns, OpenRows, last_block, write_schemas)
  /\ FollowOn(OpenRows) /\ VersionsIn(OpenRows, current_generations)
  /\ current_generations = IF dataset = <<>> THEN NoFunction ELSE registered
  /\ current_generations \in Generations /\ write_schemas \in Schemas
  /\ dataset # <<>> => dataset[1] \in [id : DatasetIds, base_url : DatasetUrls]

\* What is staged for the open chunk is what its caller passed: a bitmap only
\* over the roster that tables_present was called with.
ChunkStaged(ch) ==
  /\ ch \in ChunkType /\ ch.workers = staged_worker_indexes
  /\ ch.tables_present = None => staged_tables_present = <<>> /\ ch.tables = <<>>
  /\ ch.tables_present # None =>
       /\ ch.tables_present \in DOMAIN write_schemas /\ ch.tables # <<>>
       /\ TablesIn(write_schemas[ch.tables_present], staged_tables_present) = ch.tables[1]

ChunkInv ==
  /\ staged_worker_indexes \in Seq(Nat) /\ staged_tables_present \in Seq(SUBSET Nat)
  /\ chunk # <<>> => dataset # <<>> /\ ChunkStaged(chunk[1])

\* an emitted dataset is what a reader gets of the columns of its rows
DatasetType == [
  id : DatasetIds, base_url : DatasetUrls, last_block : Int, generations : Generations,
  first_blocks : Seq(Nat), block_deltas : Seq(Int), hashes : Seq(Padded), tops : Seq(TopRun),
  sizes : Seq(Nat), write_schema_ids : Seq(Nat), tables_present_offsets : Seq(Nat),
  tables_present : Seq(SUBSET Nat), versions : Seq(Nat), worker_offsets : Seq(Nat),
  worker_indexes : Seq(Nat)]

ExpectedType == [base_url : DatasetUrls, generations : Generations, rows : Seq(RowType)]

Written(d, c) ==
  /\ d.first_blocks = c.first_blocks /\ d.block_deltas = c.block_deltas
  /\ d.hashes = c.hashes /\ d.tops = c.tops /\ d.sizes = c.sizes
  /\ d.write_schema_ids = c.write_schema_ids
  /\ d.tables_present_offsets = IF c.any_tables_trimmed THEN Offsets(c.tables_present_ends) ELSE <<>>
  /\ d.tables_present = IF c.any_tables_trimmed THEN c.tables_present ELSE <<>>
  /\ d.versions = EmitVersions(c.versions)
  /\ d.worker_offsets = Offsets(c.worker_ends) /\ d.worker_indexes = c.worker_indexes

EmittedOf(d, e, schemas) ==
  /\ \E c : Written(d, c) /\ StagedRows(c, e.rows, d.last_block, schemas) /\ c.first_blocks # <<>>
  /\ d.base_url = e.base_url /\ d.generations = e.generations
  /\ FollowOn(e.rows) /\ VersionsIn(e.rows, e.generations)

EmittedInv ==
  /\ all_datasets \in Seq(DatasetType) /\ expected \in Seq(ExpectedType)
  /\ Len(all_datasets) = Len(expected)
  /\ \A i \in 1..Len(all_datasets) : EmittedOf(all_datasets[i], expected[i], write_schemas)

EntryType == [id : Int, status : Statuses, headers : Seq(Int)]

WorkersInv ==
  /\ worker_entries \in Seq(EntryType)
  /\ \A i \in 1..Len(worker_entries) - 1 : worker_entries[i].id < worker_entries[i + 1].id

BlobInv ==
  blob # <<>> =>
    /\ dataset = <<>> /\ blob[1].datasets = all_datasets
    /\ blob[1].workers = worker_entries /\ blob[1].schemas = write_schemas

WorkerInv == OpenInv /\ ChunkInv /\ EmittedInv /\ WorkersInv /\ BlobInv

-----------------------------------------------------------------------------
(***************************************************************************)
(* Every call keeps the invariant                                          *)
(***************************************************************************)

\* What Put makes of a partial function.
LEMMA PutMaps ==
  ASSUME NEW X, NEW Y, NEW f \in Maps(X, Y), NEW x \in X, NEW y \in Y
  PROVE  Put(f, x, y) \in Maps(X, Y)
<1>1. PICK D \in SUBSET X : f \in [D -> Y]
  BY Zenon DEF Maps
<1>2. D \cup {x} \in SUBSET X
  BY Zenon
<1>3. Put(f, x, y) \in [D \cup {x} -> Y]
  BY <1>1, Zenon DEF Put
<1>. QED  BY <1>2, <1>3, Zenon DEF Maps

\* The empty function is one.
LEMMA NoFunctionMaps ==
  ASSUME NEW X, NEW Y
  PROVE  NoFunction \in Maps(X, Y)
<1>1. NoFunction \in [{} -> Y]
  BY Zenon DEF NoFunction
<1>. QED  BY <1>1, Zenon DEF Maps

\* A partial function is defined on members of X.
LEMMA MapsAt ==
  ASSUME NEW X, NEW Y, NEW f \in Maps(X, Y), NEW x \in DOMAIN f
  PROVE  x \in X /\ f[x] \in Y
<1>1. PICK D \in SUBSET X : f \in [D -> Y]
  BY Zenon DEF Maps
<1>. QED  BY <1>1, Zenon

\* the functions s2 that agree with s where it is defined
Extends(s2, s) == DOMAIN s \subseteq DOMAIN s2 /\ \A x \in DOMAIN s : s2[x] = s[x]

\* Put with a new key keeps the others.
LEMMA PutExtends ==
  ASSUME NEW f, NEW x, NEW y, x \notin DOMAIN f
  PROVE  Extends(Put(f, x, y), f)
BY Zenon DEF Extends, Put

\* Bitmaps are read as before when another write schema is registered.
LEMMA SchemaAdded ==
  ASSUME NEW c, NEW r, NEW last, NEW s, NEW s2, StagedRows(c, r, last, s), Extends(s2, s)
  PROVE  StagedRows(c, r, last, s2)
<1>1. \A row, w : BitsOf(s, row, w) => BitsOf(s2, row, w)
  BY Zenon DEF BitsOf, Extends
<1>2. \A ends, column : BitmapsOf(ends, column, r, s) => BitmapsOf(ends, column, r, s2)
  BY <1>1, Zenon DEF BitmapsOf
<1>. QED  BY <1>2, Zenon DEF StagedRows

\* A new builder satisfies the invariant.
LEMMA InitWorkerInv ==
  ASSUME WorkerCalls, Init
  PROVE  WorkerInv
<1>1. \A S : <<>> \in Seq(S)
  BY EmptyFacts, Zenon
<1>2. Len(<<>>) = 0 /\ 1..0 = {} /\ 1..0 - 1 = {}
  OBVIOUS
<1>3. OpenRows = <<>>
  BY Zenon DEF Init, OpenRows
<1>4. StagedRows(columns, <<>>, last_block, write_schemas)
  BY NothingStaged, Zenon DEF Init
<1>5. FollowOn(<<>>) /\ VersionsIn(<<>>, current_generations)
  BY <1>2, Zenon DEF FollowOn, VersionsIn
<1>6. \A X, Y : NoFunction \in Maps(X, Y)
  BY NoFunctionMaps, Zenon
<1>7. OpenInv
  BY <1>3, <1>4, <1>5, <1>6, Zenon DEF Init, OpenInv, Generations, Schemas
<1>8. ChunkInv
  BY <1>1, Zenon DEF Init, ChunkInv
<1>9. EmittedInv
  BY <1>1, <1>2, Zenon DEF Init, EmittedInv
<1>10. WorkersInv
  BY <1>1, <1>2, Zenon DEF Init, WorkersInv
<1>11. BlobInv
  BY Zenon DEF Init, BlobInv
<1>. QED  BY <1>7, <1>8, <1>9, <1>10, <1>11, Zenon DEF WorkerInv

\* Registering a write schema.
LEMMA RegisterSchemaInv ==
  ASSUME WorkerCalls, WorkerInv, NEW id \in WriteSchemaIds, NEW tables \in Rosters,
         register_write_schema(id, tables)
  PROVE  WorkerInv'
<1>1. Extends(write_schemas', write_schemas) /\ write_schemas' = Put(write_schemas, id, tables)
  BY PutExtends, Zenon DEF register_write_schema
<1>2. write_schemas' \in Schemas
  BY <1>1, PutMaps, Zenon DEF WorkerInv, OpenInv, Schemas
<1>3. /\ dataset = <<>> /\ blob = <<>>
      /\ UNCHANGED <<last_block, all_datasets, current_generations, columns, worker_entries,
                     staged_worker_indexes, staged_tables_present, dataset, chunk, blob, registered,
                     rows, expected>>
  BY Zenon DEF register_write_schema, staging, caller
<1>4. chunk = <<>>
  BY <1>3, Zenon DEF WorkerInv, ChunkInv
<1>5. OpenInv'
  <2>1. OpenRows' = OpenRows
    BY <1>3, Zenon DEF OpenRows
  <2>2. StagedRows(columns, OpenRows, last_block, write_schemas')
    BY <1>1, SchemaAdded, Zenon DEF WorkerInv, OpenInv
  <2>3. (FollowOn(OpenRows) /\ VersionsIn(OpenRows, current_generations))'
    BY <1>3, <2>1, Zenon DEF WorkerInv, OpenInv, FollowOn, VersionsIn
  <2>. QED  BY <1>2, <1>3, <2>1, <2>2, <2>3, Zenon DEF WorkerInv, OpenInv
<1>6. ChunkInv'
  BY <1>3, <1>4, Zenon DEF WorkerInv, ChunkInv
<1>7. EmittedInv'
  <2>1. ASSUME NEW d, NEW e, EmittedOf(d, e, write_schemas)
        PROVE  EmittedOf(d, e, write_schemas')
    BY <1>1, <2>1, SchemaAdded, Zenon DEF EmittedOf
  <2>. QED  BY <1>3, <2>1, Zenon DEF WorkerInv, EmittedInv
<1>8. WorkersInv' /\ BlobInv'
  BY <1>3, Zenon DEF WorkerInv, WorkersInv, BlobInv
<1>. QED  BY <1>5, <1>6, <1>7, <1>8, Zenon DEF WorkerInv

\* What no other call than those on datasets touches.
OpenKept ==
  /\ UNCHANGED <<columns, last_block, write_schemas, current_generations, dataset, registered, rows>>
  /\ UNCHANGED <<all_datasets, expected>>

LEMMA KeptInv ==
  ASSUME OpenInv, EmittedInv, OpenKept
  PROVE  OpenInv' /\ EmittedInv'
<1>1. OpenRows' = OpenRows
  BY Zenon DEF OpenKept, OpenRows
<1>2. OpenInv'
  BY <1>1, Zenon DEF OpenKept, OpenInv, FollowOn, VersionsIn
<1>3. EmittedInv'
  BY Zenon DEF OpenKept, EmittedInv
<1>. QED  BY <1>2, <1>3, Zenon

\* A dataset is opened with no rows and no generations.
LEMMA NewDatasetInv ==
  ASSUME WorkerCalls, WorkerInv, NEW id \in DatasetIds, NEW base_url \in DatasetUrls,
         new_dataset(id, base_url)
  PROVE  WorkerInv'
<1>1. PICK e : e = [id |-> id, base_url |-> base_url]
  BY Zenon
<1>2. e \in [id : DatasetIds, base_url : DatasetUrls]
  BY <1>1
<1>3. dataset' = <<e>> /\ <<e>> # <<>> /\ <<e>>[1] = e
  <2>1. <<e>> # <<>> /\ <<e>>[1] = e
    OBVIOUS
  <2>. QED  BY <1>1, <2>1, Zenon DEF new_dataset
<1>4. /\ dataset = <<>> /\ blob = <<>> /\ registered' = NoFunction /\ rows' = <<>>
      /\ UNCHANGED <<last_block, all_datasets, write_schemas, current_generations, columns,
                     worker_entries, staged_worker_indexes, staged_tables_present, chunk, blob, expected>>
  BY Zenon DEF new_dataset, builder, staging
<1>5. chunk = <<>>
  BY <1>4, Zenon DEF WorkerInv, ChunkInv
<1>6. OpenRows = <<>> /\ OpenRows' = <<>>
  BY <1>3, <1>4, Zenon DEF OpenRows
<1>7. current_generations = NoFunction
  BY <1>4, Zenon DEF WorkerInv, OpenInv
<1>8. OpenInv'
  BY <1>2, <1>3, <1>4, <1>6, <1>7, Zenon DEF WorkerInv, OpenInv
<1>9. ChunkInv'
  BY <1>4, <1>5, Zenon DEF WorkerInv, ChunkInv
<1>10. EmittedInv' /\ WorkersInv' /\ BlobInv'
  BY <1>4, Zenon DEF WorkerInv, EmittedInv, WorkersInv, BlobInv
<1>. QED  BY <1>8, <1>9, <1>10, Zenon DEF WorkerInv

\* Registering a generation of the open dataset.
LEMMA RegisterGenerationInv ==
  ASSUME WorkerCalls, WorkerInv, NEW v \in Versions, NEW base_url \in BaseUrls,
         register_generation(v, base_url)
  PROVE  WorkerInv'
<1>1. /\ dataset # <<>> /\ current_generations' = Put(current_generations, v, base_url)
      /\ registered' = Put(registered, v, base_url)
      /\ Extends(current_generations', current_generations)
  BY PutExtends, Zenon DEF register_generation
<1>2. /\ UNCHANGED <<last_block, all_datasets, write_schemas, columns, worker_entries,
                     staged_worker_indexes, staged_tables_present, dataset, chunk, blob, rows, expected>>
  BY Zenon DEF register_generation, staging
<1>3. current_generations' \in Generations
  BY <1>1, PutMaps, Zenon DEF WorkerInv, OpenInv, Generations
<1>4. OpenRows' = OpenRows
  BY <1>2, Zenon DEF OpenRows
<1>5. VersionsIn(OpenRows, current_generations')
  BY <1>1, Zenon DEF WorkerInv, OpenInv, VersionsIn, Extends
<1>6. current_generations' = registered'
  BY <1>1, Zenon DEF WorkerInv, OpenInv
<1>7. OpenInv'
  BY <1>1, <1>2, <1>3, <1>4, <1>5, <1>6, Zenon DEF WorkerInv, OpenInv
<1>8. ChunkInv'
  BY <1>2, Zenon DEF WorkerInv, ChunkInv, ChunkStaged
<1>9. EmittedInv' /\ WorkersInv' /\ BlobInv'
  BY <1>2, Zenon DEF WorkerInv, EmittedInv, WorkersInv, BlobInv
<1>. QED  BY <1>7, <1>8, <1>9, Zenon DEF WorkerInv

\* The open dataset is gone, with its columns and generations.
LEMMA ClosedInv ==
  ASSUME WorkerCalls, WorkerInv, dataset # <<>>, chunk = <<>>, dataset' = <<>>,
         columns' = NoColumns, last_block' = None, current_generations' = NoFunction,
         UNCHANGED <<write_schemas, worker_entries, staging, chunk, blob>>
  PROVE  OpenInv' /\ ChunkInv' /\ WorkersInv' /\ BlobInv'
<1>1. OpenRows' = <<>>
  BY Zenon DEF OpenRows
<1>2. StagedRows(columns', <<>>, last_block', write_schemas')
  BY NothingStaged, Zenon
<1>3. FollowOn(<<>>) /\ VersionsIn(<<>>, current_generations')
  <2>1. Len(<<>>) = 0 /\ 1..0 = {} /\ 1..0 - 1 = {}
    OBVIOUS
  <2>. QED  BY <2>1, Zenon DEF FollowOn, VersionsIn
<1>4. NoFunction \in Generations
  BY NoFunctionMaps, Zenon DEF Generations
<1>5. OpenInv'
  BY <1>1, <1>2, <1>3, <1>4, Zenon DEF WorkerInv, OpenInv
<1>6. ChunkInv'
  BY Zenon DEF WorkerInv, ChunkInv, staging
<1>7. WorkersInv' /\ BlobInv'
  BY Zenon DEF WorkerInv, WorkersInv, BlobInv
<1>. QED  BY <1>5, <1>6, <1>7, Zenon

\* A dataset is emitted with the columns of the rows it was given.
LEMMA EmitWorkerInv ==
  ASSUME WorkerCalls, WorkerInv, dataset # <<>>, emit_dataset(dataset[1]),
         UNCHANGED write_schemas
  PROVE  EmittedInv'
<1>1. PICK d : d = Emitted(dataset[1])
  BY Zenon
<1>2. PICK e : e = [base_url |-> dataset[1].base_url, generations |-> registered, rows |-> rows]
  BY Zenon
<1>3. /\ StagedRows(columns, rows, last_block, write_schemas)
      /\ FollowOn(rows) /\ VersionsIn(rows, registered)
      /\ current_generations = registered /\ registered \in Generations
      /\ dataset[1] \in [id : DatasetIds, base_url : DatasetUrls]
  BY Zenon DEF WorkerInv, OpenInv, OpenRows
<1>4. columns \in ColumnsType /\ rows \in Seq(RowType) /\ last_block = LastOf(rows)
  BY <1>3, Zenon DEF StagedRows
<1>5. last_block \in Int
  <2>1. CASE rows = <<>>
    BY <1>4, <2>1 DEF LastOf, None
  <2>2. CASE rows # <<>>
    <3>1. rows[Len(rows)] \in RowType
      BY <1>4, <2>2
    <3>2. rows[Len(rows)].last \in Nat
      BY <3>1 DEF RowType
    <3>. QED  BY <1>4, <2>2, <3>2 DEF LastOf
  <2>. QED  BY <2>1, <2>2, Zenon
<1>6. dataset[1].id \in DatasetIds /\ dataset[1].base_url \in DatasetUrls
  BY <1>3
<1>7. d \in DatasetType
  <2>1. /\ columns.first_blocks \in Seq(Nat) /\ columns.block_deltas \in Seq(Int)
        /\ columns.hashes \in Seq(Padded) /\ columns.tops \in Seq(TopRun)
        /\ columns.sizes \in Seq(Nat) /\ columns.write_schema_ids \in Seq(Nat)
        /\ columns.versions \in Seq(Nat)
        /\ columns.tables_present \in Seq(SUBSET Nat) /\ columns.tables_present_ends \in Seq(Nat)
        /\ columns.worker_ends \in Seq(Nat) /\ columns.worker_indexes \in Seq(Nat)
    BY <1>4 DEF ColumnsType
  <2>2. EmitVersions(columns.versions) \in Seq(Nat)
    BY <2>1, EmptyFacts, Zenon DEF EmitVersions
  <2>3. Offsets(columns.worker_ends) \in Seq(Nat) /\ Offsets(columns.tables_present_ends) \in Seq(Nat)
    <3>1. <<0>> \in Seq(Nat)
      OBVIOUS
    <3>. QED  BY <2>1, <3>1, ConcatFacts, Zenon DEF Offsets
  <2>4. <<>> \in Seq(Nat) /\ <<>> \in Seq(SUBSET Nat)
    BY EmptyFacts, Zenon
  <2>5. /\ d.tables_present_offsets \in Seq(Nat) /\ d.tables_present \in Seq(SUBSET Nat)
    BY <1>1, <2>1, <2>3, <2>4, Zenon DEF Emitted
  <2>. QED  BY <1>1, <1>3, <1>5, <1>6, <2>1, <2>2, <2>3, <2>5, Zenon DEF Emitted, DatasetType
<1>8. e \in ExpectedType
  BY <1>2, <1>3, <1>4, <1>6 DEF ExpectedType
<1>9. /\ Written(d, columns) /\ d.last_block = last_block
      /\ d.base_url = dataset[1].base_url /\ d.generations = current_generations
  BY <1>1, Zenon DEF Emitted, Written
<1>10. e.base_url = dataset[1].base_url /\ e.generations = registered /\ e.rows = rows
  BY <1>2
<1>11. EmittedOf(d, e, write_schemas)
  BY <1>3, <1>9, <1>10, Zenon DEF EmittedOf, emit_dataset, CanEmit
<1>12. PICK n \in Nat : n = Len(all_datasets) /\ n = Len(expected)
  BY LenFacts, Zenon DEF WorkerInv, EmittedInv
<1>13. /\ all_datasets' \in Seq(DatasetType) /\ Longer(all_datasets', all_datasets, n, d)
       /\ expected' \in Seq(ExpectedType) /\ Longer(expected', expected, n, e)
  <2>1. all_datasets' = Append(all_datasets, d) /\ expected' = Append(expected, e)
    BY <1>1, <1>2, Zenon DEF emit_dataset
  <2>2. all_datasets \in Seq(DatasetType) /\ expected \in Seq(ExpectedType)
    BY Zenon DEF WorkerInv, EmittedInv
  <2>. QED  BY <1>7, <1>8, <1>12, <2>1, <2>2, AppendLonger, Zenon
<1>14. \A i \in 1..n + 1 : EmittedOf(all_datasets'[i], expected'[i], write_schemas)
  <2>1. \A i \in 1..n + 1 : i \in 1..n \/ i = n + 1
    OBVIOUS
  <2>2. \A i \in 1..n : EmittedOf(all_datasets[i], expected[i], write_schemas)
    BY <1>12, Zenon DEF WorkerInv, EmittedInv
  <2>. QED  BY <1>11, <1>13, <2>1, <2>2, Zenon DEF Longer
<1>15. Len(all_datasets') = n + 1 /\ Len(expected') = n + 1
  BY <1>13, Zenon DEF Longer
<1>. QED  BY <1>13, <1>14, <1>15, Zenon DEF EmittedInv

\* A dataset that is finished or dropped.
LEMMA CloseDatasetInv ==
  ASSUME WorkerCalls, WorkerInv, FinishDataset \/ DropDataset
  PROVE  WorkerInv'
<1>1. /\ dataset # <<>> /\ chunk = <<>> /\ dataset' = <<>>
      /\ columns' = NoColumns /\ last_block' = None /\ current_generations' = NoFunction
      /\ UNCHANGED <<write_schemas, worker_entries, staging, chunk, blob>>
  BY Zenon DEF FinishDataset, DropDataset, emit_dataset, discard_dataset
<1>2. OpenInv' /\ ChunkInv' /\ WorkersInv' /\ BlobInv'
  BY <1>1, ClosedInv, Zenon
<1>3. EmittedInv'
  <2>1. CASE emit_dataset(dataset[1])
    BY <1>1, <2>1, EmitWorkerInv, Zenon
  <2>2. CASE UNCHANGED <<all_datasets, expected>>
    BY <1>1, <2>2, Zenon DEF WorkerInv, EmittedInv
  <2>. QED  BY <2>1, <2>2, Zenon DEF FinishDataset, DropDataset, caller
<1>. QED  BY <1>2, <1>3, Zenon DEF WorkerInv

\* Adding a worker keeps the entries in the order of their ids.
LEMMA PushWorkerInv ==
  ASSUME WorkerCalls, WorkerInv, NEW id \in PeerIds, NEW status \in Statuses, NEW headers \in Seq(Int),
         PushWorker(id, status, headers)
  PROVE  WorkerInv'
<1>1. PICK e : e = [id |-> id, status |-> status, headers |-> headers]
  BY Zenon
<1>2. id \in Int
  BY Zenon DEF WorkerCalls
<1>3. e \in EntryType /\ e.id = id
  BY <1>1, <1>2 DEF EntryType
<1>4. worker_entries \in Seq(EntryType)
  BY Zenon DEF WorkerInv, WorkersInv
<1>5. PICK n \in Nat : n = Len(worker_entries)
  BY <1>4, LenFacts, Zenon
<1>6. worker_entries' \in Seq(EntryType) /\ Longer(worker_entries', worker_entries, n, e)
  <2>1. worker_entries' = Append(worker_entries, e)
    BY <1>1, Zenon DEF PushWorker
  <2>. QED  BY <1>3, <1>4, <1>5, <2>1, AppendLonger, Zenon
<1>7. n = 0 \/ worker_entries[n].id < id
  <2>1. n = 0 \/ worker_entries # <<>>
    BY <1>5, EmptyFacts, Zenon
  <2>. QED  BY <1>5, <2>1, Zenon DEF PushWorker, CanAddWorker
<1>8. \A i \in 1..n : worker_entries'[i].id < worker_entries'[i + 1].id
  <2>1. \A i \in 1..n : (i \in 1..n - 1 /\ i + 1 \in 1..n) \/ (i = n /\ n # 0)
    OBVIOUS
  <2>2. \A i \in 1..n - 1 : worker_entries[i].id < worker_entries[i + 1].id
    BY <1>5, Zenon DEF WorkerInv, WorkersInv
  <2>. QED  BY <1>3, <1>6, <1>7, <2>1, <2>2, Zenon DEF Longer
<1>9. WorkersInv'
  <2>1. Len(worker_entries') - 1 = n
    BY <1>6 DEF Longer
  <2>. QED  BY <1>6, <1>8, <2>1, Zenon DEF WorkersInv
<1>10. OpenKept /\ UNCHANGED <<staged_worker_indexes, staged_tables_present, chunk, blob>> /\ blob = <<>>
  BY Zenon DEF PushWorker, OpenKept, staging, caller
<1>11. OpenInv' /\ EmittedInv'
  BY <1>10, KeptInv, Zenon DEF WorkerInv
<1>12. ChunkInv' /\ BlobInv'
  BY <1>10, Zenon DEF OpenKept, WorkerInv, ChunkInv, ChunkStaged, BlobInv
<1>. QED  BY <1>9, <1>11, <1>12, Zenon DEF WorkerInv

\* `finish' of the assignment writes what was emitted.
LEMMA FinishWorkerInv ==
  ASSUME WorkerInv, Finish
  PROVE  WorkerInv'
<1>1. PICK e : e = [datasets |-> all_datasets, workers |-> worker_entries, schemas |-> write_schemas]
  BY Zenon
<1>2. /\ blob' = <<e>> /\ <<e>>[1] = e
      /\ e.datasets = all_datasets /\ e.workers = worker_entries /\ e.schemas = write_schemas
  <2>1. /\ <<e>>[1] = e
        /\ e.datasets = all_datasets /\ e.workers = worker_entries /\ e.schemas = write_schemas
    BY <1>1
  <2>. QED  BY <1>1, <2>1, Zenon DEF Finish
<1>3. /\ dataset = <<>> /\ OpenKept
      /\ UNCHANGED <<worker_entries, staged_worker_indexes, staged_tables_present, chunk>>
  BY Zenon DEF Finish, OpenKept, builder, staging, caller
<1>4. OpenInv' /\ EmittedInv'
  BY <1>3, KeptInv, Zenon DEF WorkerInv
<1>5. ChunkInv' /\ WorkersInv'
  BY <1>3, Zenon DEF OpenKept, WorkerInv, ChunkInv, ChunkStaged, WorkersInv
<1>6. BlobInv'
  BY <1>2, <1>3, Zenon DEF OpenKept, BlobInv
<1>. QED  BY <1>4, <1>5, <1>6, Zenon DEF WorkerInv

\* A call on the open chunk changes nothing but what is staged for it.
LEMMA ChunkCallInv ==
  ASSUME WorkerInv, UNCHANGED <<builder, dataset, blob, caller>>, ChunkInv'
  PROVE  WorkerInv'
<1>1. OpenKept /\ UNCHANGED <<worker_entries, blob>>
  BY Zenon DEF OpenKept, builder, caller
<1>2. OpenInv' /\ EmittedInv'
  BY <1>1, KeptInv, Zenon DEF WorkerInv
<1>3. WorkersInv' /\ BlobInv'
  BY <1>1, Zenon DEF OpenKept, WorkerInv, WorkersInv, BlobInv
<1>. QED  BY <1>2, <1>3, Zenon DEF WorkerInv

\* A chunk is opened with nothing staged, whatever an earlier one left.
LEMMA NewChunkInv ==
  ASSUME WorkerInv, new_chunk
  PROVE  ChunkInv'
<1>1. PICK ch : ch = [write_schema_id |-> None, version |-> 0, tables_present |-> None,
                      tables |-> <<>>, workers |-> <<>>]
  BY Zenon
<1>2. ch \in ChunkType /\ ch.tables_present = None /\ ch.tables = <<>> /\ ch.workers = <<>>
  <2>1. <<>> \in Seq(Nat) /\ <<>> \in Seq(SUBSET Int)
    BY EmptyFacts, Zenon
  <2>. QED  BY <1>1, <2>1 DEF ChunkType
<1>3. chunk' = <<ch>> /\ <<ch>>[1] = ch
  <2>1. <<ch>>[1] = ch
    OBVIOUS
  <2>. QED  BY <1>1, <2>1, Zenon DEF new_chunk
<1>4. staged_worker_indexes' = <<>> /\ staged_tables_present' = <<>> /\ dataset' # <<>>
  BY Zenon DEF new_chunk
<1>5. <<>> \in Seq(Nat) /\ <<>> \in Seq(SUBSET Nat)
  BY EmptyFacts, Zenon
<1>6. ChunkStaged(chunk[1])'
  BY <1>2, <1>3, <1>4, Zenon DEF ChunkStaged
<1>. QED  BY <1>4, <1>5, <1>6, Zenon DEF ChunkInv

\* The setters of the chunk builder.
LEMMA SettersInv ==
  ASSUME WorkerCalls, WorkerInv,
         \/ \E id \in WriteSchemaIds : write_schema_id(id)
         \/ \E v \in Versions : version(v)
         \/ \E indexes \in WorkerLists : worker_indexes(indexes)
  PROVE  ChunkInv'
<1>1. PICK ch : ch = chunk[1]
  BY Zenon
<1>2. /\ dataset # <<>> /\ ChunkStaged(ch) /\ ch \in ChunkType
      /\ staged_worker_indexes \in Seq(Nat) /\ staged_tables_present \in Seq(SUBSET Nat)
  BY <1>1, Zenon DEF write_schema_id, version, worker_indexes, WorkerInv, ChunkInv, ChunkStaged
<1>3. UNCHANGED <<staged_tables_present, write_schemas, dataset>>
  BY Zenon DEF write_schema_id, version, worker_indexes, builder, staging
<1>. DEFINE Set(ch2) == /\ chunk' = <<ch2>> /\ ch2 \in ChunkType /\ ch2.workers = staged_worker_indexes'
                        /\ ch2.tables_present = ch.tables_present /\ ch2.tables = ch.tables
                        /\ staged_worker_indexes' \in Seq(Nat)
<1>4. PICK ch2 : Set(ch2)
  <2>1. ASSUME NEW id \in WriteSchemaIds, write_schema_id(id)
        PROVE  \E ch2 : Set(ch2)
    <3>1. PICK ch2 : ch2 = [ch EXCEPT !.write_schema_id = id]
      BY Zenon
    <3>2. id \in Nat
      BY Zenon DEF WorkerCalls
    <3>3. /\ ch2 \in ChunkType /\ ch2.workers = ch.workers
          /\ ch2.tables_present = ch.tables_present /\ ch2.tables = ch.tables
      BY <1>2, <3>1, <3>2, Zenon DEF ChunkType
    <3>4. chunk' = <<ch2>> /\ UNCHANGED staged_worker_indexes
      BY <1>1, <2>1, <3>1, Zenon DEF write_schema_id, staging
    <3>. QED  BY <1>2, <3>3, <3>4, Zenon DEF ChunkStaged
  <2>2. ASSUME NEW v \in Versions, version(v)
        PROVE  \E ch2 : Set(ch2)
    <3>1. PICK ch2 : ch2 = [ch EXCEPT !.version = v]
      BY Zenon
    <3>2. v \in Nat
      BY Zenon DEF WorkerCalls
    <3>3. /\ ch2 \in ChunkType /\ ch2.workers = ch.workers
          /\ ch2.tables_present = ch.tables_present /\ ch2.tables = ch.tables
      BY <1>2, <3>1, <3>2, Zenon DEF ChunkType
    <3>4. chunk' = <<ch2>> /\ UNCHANGED staged_worker_indexes
      BY <1>1, <2>2, <3>1, Zenon DEF version, staging
    <3>. QED  BY <1>2, <3>3, <3>4, Zenon DEF ChunkStaged
  <2>3. ASSUME NEW indexes \in WorkerLists, worker_indexes(indexes)
        PROVE  \E ch2 : Set(ch2)
    <3>1. PICK ch2 : ch2 = [ch EXCEPT !.workers = indexes]
      BY Zenon
    <3>2. indexes \in Seq(Nat)
      BY Zenon DEF WorkerCalls
    <3>3. /\ ch2 \in ChunkType /\ ch2.workers = indexes
          /\ ch2.tables_present = ch.tables_present /\ ch2.tables = ch.tables
      BY <1>2, <3>1, <3>2, Zenon DEF ChunkType
    <3>4. chunk' = <<ch2>> /\ staged_worker_indexes' = indexes
      BY <1>1, <2>3, <3>1, Zenon DEF worker_indexes
    <3>. QED  BY <3>2, <3>3, <3>4, Zenon
  <2>. QED  BY <2>1, <2>2, <2>3, Zenon
<1>5. <<ch2>>[1] = ch2
  OBVIOUS
<1>6. ChunkStaged(chunk[1])'
  BY <1>2, <1>3, <1>4, <1>5, Zenon DEF ChunkStaged
<1>. QED  BY <1>2, <1>3, <1>4, <1>6, Zenon DEF ChunkInv

\* A bitmap is staged over the roster of the write schema that was set; a list
\* that does not fit ends the chunk and leaves its bitmap behind.
LEMMA TablesPresentInv ==
  ASSUME WorkerCalls, WorkerInv, NEW tables \in TableLists, tables_present(tables)
  PROVE  ChunkInv'
<1>1. PICK ch : ch = chunk[1]
  BY Zenon
<1>2. PICK id : id = ch.write_schema_id
  BY Zenon
<1>3. /\ dataset # <<>> /\ ChunkStaged(ch) /\ ch \in ChunkType
      /\ staged_worker_indexes \in Seq(Nat) /\ staged_tables_present \in Seq(SUBSET Nat)
  BY <1>1, Zenon DEF tables_present, WorkerInv, ChunkInv, ChunkStaged
<1>4. UNCHANGED <<staged_worker_indexes, write_schemas, dataset>>
  BY Zenon DEF tables_present, builder
<1>5. CASE id \notin DOMAIN write_schemas
  <2>1. chunk' = <<>> /\ UNCHANGED staged_tables_present
    BY <1>1, <1>2, <1>5, Zenon DEF tables_present
  <2>. QED  BY <1>3, <1>4, <2>1, Zenon DEF ChunkInv
<1>6. CASE id \in DOMAIN write_schemas
  <2>1. PICK roster : roster = write_schemas[id]
    BY Zenon
  <2>2. id \in Nat /\ roster \in Seq(Int) /\ tables \in Seq(Int)
    <3>1. id \in WriteSchemaIds /\ roster \in Rosters
      BY <1>6, <2>1, MapsAt, Zenon DEF WorkerInv, OpenInv, Schemas
    <3>. QED  BY <3>1, Zenon DEF WorkerCalls
  <2>3. PICK bits : bits = StagedBits(roster, tables)
    BY Zenon
  <2>4. /\ staged_tables_present' = bits
        /\ chunk' = IF Cursor(roster, tables)[Len(tables)] = None THEN <<>>
                    ELSE <<[ch EXCEPT !.tables_present = id, !.tables = <<Range(tables)>>]>>
    BY <1>1, <1>2, <1>6, <2>1, <2>3, Zenon DEF tables_present, StagedBits
  <2>5. bits \in Seq(SUBSET Nat)
    BY <2>2, <2>3, BitmapType, Zenon DEF StagedBits
  <2>6. CASE Cursor(roster, tables)[Len(tables)] = None
    BY <1>3, <1>4, <2>4, <2>5, <2>6, Zenon DEF ChunkInv
  <2>7. CASE Cursor(roster, tables)[Len(tables)] # None
    <3>1. PICK given : given = Range(tables)
      BY Zenon
    <3>2. given \in SUBSET Int
      <4>1. DOMAIN tables = 1..Len(tables) /\ tables \in [1..Len(tables) -> Int]
        BY <2>2, LenFacts, Zenon
      <4>. QED  BY <3>1, <4>1, Zenon DEF Range
    <3>3. TablesIn(roster, bits) = given
      BY <2>2, <2>3, <2>7, <3>1, TablesBack, Zenon
    <3>4. PICK ch2 : ch2 = [ch EXCEPT !.tables_present = id, !.tables = <<given>>]
      BY Zenon
    <3>5. /\ ch2 \in ChunkType /\ ch2.workers = ch.workers /\ ch2.tables_present = id
          /\ ch2.tables = <<given>>
      <4>1. PICK ts \in Seq(SUBSET Int) : ts = <<given>>
        <5>1. \A S : \A x \in S : <<x>> \in Seq(S)
          OBVIOUS
        <5>. QED  BY <3>2, <5>1, Zenon
      <4>2. PICK ch1 : ch1 = [ch EXCEPT !.tables_present = id]
        BY Zenon
      <4>3. ch1 \in ChunkType /\ ch1.workers = ch.workers /\ ch1.tables_present = id
        BY <1>3, <2>2, <4>2, Zenon DEF ChunkType
      <4>4. ch2 = [ch1 EXCEPT !.tables = ts]
        BY <3>4, <4>1, <4>2, Zenon
      <4>5. /\ ch2 \in ChunkType /\ ch2.workers = ch1.workers
            /\ ch2.tables_present = ch1.tables_present /\ ch2.tables = ts
        BY <4>3, <4>4, Zenon DEF ChunkType
      <4>. QED  BY <4>1, <4>3, <4>5, Zenon
    <3>6. /\ <<given>> # <<>> /\ <<given>>[1] = given /\ <<ch2>>[1] = ch2 /\ id # None
      BY <2>2 DEF None
    <3>7. chunk' = <<ch2>>
      BY <2>4, <2>7, <3>1, <3>4, Zenon
    <3>8. ch.workers = staged_worker_indexes
      BY <1>3, Zenon DEF ChunkStaged
    <3>9. ChunkStaged(chunk[1])'
      BY <1>4, <1>6, <2>1, <2>4, <3>3, <3>5, <3>6, <3>7, <3>8, Zenon DEF ChunkStaged
    <3>. QED  BY <1>3, <1>4, <2>4, <2>5, <3>9, Zenon DEF ChunkInv
  <2>. QED  BY <2>6, <2>7, Zenon
<1>. QED  BY <1>5, <1>6, Zenon

\* What `finish' of a chunk accepts can be staged.
LEMMA AcceptedReady ==
  ASSUME WorkerCalls, WorkerInv, NEW in \in ChunkInputs, chunk # <<>>, Accepts(in, chunk[1])
  PROVE  Ready(in, chunk[1])
<1>1. PICK ch : ch = chunk[1]
  BY Zenon
<1>2. PICK id : id = ch.write_schema_id
  BY Zenon
<1>3. PICK row : row = Row(in, ch)
  BY Zenon
<1>4. /\ ch \in ChunkType /\ ch.workers = staged_worker_indexes
      /\ ch.tables_present = None => staged_tables_present = <<>> /\ ch.tables = <<>>
      /\ ch.tables_present # None =>
           /\ ch.tables_present \in DOMAIN write_schemas /\ ch.tables # <<>>
           /\ TablesIn(write_schemas[ch.tables_present], staged_tables_present) = ch.tables[1]
  BY <1>1, Zenon DEF WorkerInv, ChunkInv, ChunkStaged
<1>5. staged_worker_indexes \in Seq(Nat) /\ staged_tables_present \in Seq(SUBSET Nat)
  BY Zenon DEF WorkerInv, ChunkInv
<1>6. IsChunkInput(in)
  BY Zenon DEF WorkerCalls
<1>7. PICK roster : roster = write_schemas[id]
  BY Zenon
<1>8. id \in DOMAIN write_schemas /\ id \in Nat /\ roster \in Seq(Int)
  <2>1. id \in DOMAIN write_schemas
    BY <1>1, <1>2, Zenon DEF Accepts
  <2>2. id \in WriteSchemaIds /\ roster \in Rosters
    BY <1>7, <2>1, MapsAt, Zenon DEF WorkerInv, OpenInv, Schemas
  <2>. QED  BY <2>1, <2>2, Zenon DEF WorkerCalls
<1>9. PICK given : given = IF ch.tables = <<>> THEN Range(roster) ELSE ch.tables[1]
  BY Zenon
<1>10. TablesIn(roster, staged_tables_present) = given
  <2>1. CASE ch.tables_present = None
    BY <1>4, <1>8, <1>9, <2>1, AllTables, Zenon
  <2>2. CASE ch.tables_present # None
    <3>1. ch.tables_present = id
      BY <1>1, <1>2, <2>2, Zenon DEF Accepts
    <3>. QED  BY <1>4, <1>7, <1>9, <2>2, <3>1, Zenon
  <2>. QED  BY <2>1, <2>2, Zenon
<1>11. given \in SUBSET Int
  <2>1. CASE ch.tables = <<>>
    <3>1. DOMAIN roster = 1..Len(roster) /\ roster \in [1..Len(roster) -> Int]
      BY <1>8, LenFacts, Zenon
    <3>. QED  BY <1>9, <2>1, <3>1, Zenon DEF Range
  <2>2. CASE ch.tables # <<>>
    <3>1. ch.tables \in Seq(SUBSET Int)
      BY <1>4, Zenon DEF ChunkType
    <3>2. ch.tables[1] \in SUBSET Int
      BY <2>2, <3>1
    <3>. QED  BY <1>9, <2>2, <3>2, Zenon
  <2>. QED  BY <2>1, <2>2, Zenon
<1>12. row = [top |-> in.id.top, first |-> in.first, last |-> in.last, hash |-> in.id.hash,
              size |-> in.size, write_schema_id |-> id, version |-> ch.version, tables |-> given,
              workers |-> ch.workers]
  BY <1>2, <1>3, <1>7, <1>9, Zenon DEF Row
<1>13. row \in RowType /\ row.write_schema_id = id /\ row.tables = given
  <2>1. /\ in.id.top \in Nat /\ in.first \in Nat /\ in.last \in Nat /\ in.id.hash \in Hashes
        /\ in.size \in Nat
    BY <1>6 DEF IsChunkInput, DataChunks
  <2>2. ch.version \in Nat /\ ch.workers \in Seq(Nat)
    BY <1>4, Zenon DEF ChunkType
  <2>. QED  BY <1>8, <1>11, <1>12, <2>1, <2>2 DEF RowType
<1>14. BitsOf(write_schemas, row, staged_tables_present)
  BY <1>5, <1>7, <1>8, <1>10, <1>13, Zenon DEF BitsOf
<1>. QED  BY <1>1, <1>2, <1>3, <1>4, <1>5, <1>6, <1>8, <1>13, <1>14, Zenon DEF Ready

\* A row that continues the rows.
LEMMA FollowsOn ==
  ASSUME NEW r \in Seq(RowType), NEW row \in RowType, FollowOn(r),
         CheckContinuity => ~BreaksContinuity(LastOf(r), row.first)
  PROVE  FollowOn(Append(r, row))
<1>. SUFFICES ASSUME CheckContinuity
              PROVE  \A k \in 1..Len(Append(r, row)) - 1 :
                       Append(r, row)[k].last + 1 = Append(r, row)[k + 1].first
  BY Zenon DEF FollowOn
<1>1. PICK n \in Nat : n = Len(r)
  BY LenFacts, Zenon
<1>2. PICK r2 : r2 = Append(r, row)
  BY Zenon
<1>3. Longer(r2, r, n, row)
  BY <1>1, <1>2, AppendLonger, Zenon
<1>4. n = 0 \/ r[n].last + 1 = row.first
  <2>. SUFFICES ASSUME n # 0 PROVE r[n].last + 1 = row.first
    OBVIOUS
  <2>1. r[n] \in RowType /\ r # <<>>
    BY <1>1
  <2>2. LastOf(r) = r[n].last
    BY <1>1, <2>1, Zenon DEF LastOf
  <2>3. r[n].last \in Nat
    BY <2>1, Zenon DEF RowType
  <2>4. r[n].last # None
    BY <2>3 DEF None
  <2>. QED  BY <2>2, <2>4, Zenon DEF BreaksContinuity
<1>5. \A k \in 1..n : r2[k].last + 1 = r2[k + 1].first
  <2>1. \A k \in 1..n : (k \in 1..n - 1 /\ k + 1 \in 1..n) \/ (k = n /\ n # 0)
    OBVIOUS
  <2>2. \A k \in 1..n - 1 : r[k].last + 1 = r[k + 1].first
    BY <1>1, Zenon DEF FollowOn
  <2>. QED  BY <1>3, <1>4, <2>1, <2>2, Zenon DEF Longer
<1>6. Len(r2) - 1 = n
  BY <1>3 DEF Longer
<1>. QED  BY <1>2, <1>5, <1>6, Zenon

\* A row of a registered version.
LEMMA VersionAdded ==
  ASSUME NEW r \in Seq(RowType), NEW row \in RowType, NEW gens, VersionsIn(r, gens),
         row.version = 0 \/ row.version \in DOMAIN gens
  PROVE  VersionsIn(Append(r, row), gens)
<1>1. PICK n \in Nat : n = Len(r)
  BY LenFacts, Zenon
<1>2. PICK r2 : r2 = Append(r, row)
  BY Zenon
<1>3. Longer(r2, r, n, row)
  BY <1>1, <1>2, AppendLonger, Zenon
<1>4. \A k \in 1..n + 1 : k \in 1..n \/ k = n + 1
  OBVIOUS
<1>5. \A k \in 1..n : r[k].version = 0 \/ r[k].version \in DOMAIN gens
  BY <1>1, Zenon DEF VersionsIn
<1>6. \A k \in 1..Len(r2) : r2[k].version = 0 \/ r2[k].version \in DOMAIN gens
  BY <1>3, <1>4, <1>5, Zenon DEF Longer
<1>. QED  BY <1>2, <1>6, Zenon DEF VersionsIn

\* `finish' of a chunk, accepted or refused, keeps the invariant.
LEMMA FinishChunkWorkerInv ==
  ASSUME WorkerCalls, WorkerInv, NEW in \in ChunkInputs, FinishChunk(in)
  PROVE  WorkerInv'
<1>1. PICK ch : ch = chunk[1]
  BY Zenon
<1>2. chunk # <<>> /\ chunk' = <<>> /\ dataset # <<>> /\ OpenRows = rows
  BY Zenon DEF FinishChunk, WorkerInv, ChunkInv, OpenRows
<1>3. UNCHANGED <<all_datasets, write_schemas, current_generations, worker_entries,
                  staged_worker_indexes, staged_tables_present, dataset, blob, registered, expected>>
  BY Zenon DEF FinishChunk, staging
<1>4. /\ StagedRows(columns, rows, last_block, write_schemas)
      /\ FollowOn(rows) /\ VersionsIn(rows, current_generations)
  BY <1>2, Zenon DEF WorkerInv, OpenInv
<1>5. \/ UNCHANGED <<columns, last_block, rows>>
      \/ /\ Accepts(in, ch) /\ columns' = PushRow(in, ch) /\ Len(Refs) <= U32Max
         /\ ~(BreaksContinuity(last_block, in.first) /\ CheckContinuity)
         /\ last_block' = in.last /\ rows' = Append(rows, Row(in, ch))
      \/ /\ Accepts(in, ch) /\ columns' = PushRow(in, ch) /\ ~(Len(Refs) <= U32Max)
         /\ UNCHANGED <<last_block, rows>>
  BY <1>1, Zenon DEF FinishChunk, push_chunk, Refs
<1>6. /\ StagedRows(columns', rows', last_block', write_schemas)
      /\ FollowOn(rows') /\ VersionsIn(rows', current_generations)
  <2>1. CASE UNCHANGED <<columns, last_block, rows>>
    BY <1>4, <2>1, Zenon
  <2>2. CASE /\ Accepts(in, ch) /\ columns' = PushRow(in, ch) /\ Len(Refs) <= U32Max
             /\ ~(BreaksContinuity(last_block, in.first) /\ CheckContinuity)
             /\ last_block' = in.last /\ rows' = Append(rows, Row(in, ch))
    <3>1. Ready(in, ch)
      BY <1>1, <1>2, <2>2, AcceptedReady, Zenon
    <3>2. StagedRows(PushRow(in, ch), Append(rows, Row(in, ch)), in.last, write_schemas)
      BY <1>4, <2>2, <3>1, PushStaged, Zenon
    <3>3. PICK row \in RowType : row = Row(in, ch)
      BY <3>1, Zenon DEF Ready
    <3>4. row.first = in.first /\ row.version = ch.version
      BY <3>3, Zenon DEF Row
    <3>5. rows \in Seq(RowType) /\ last_block = LastOf(rows)
      BY <1>4, Zenon DEF StagedRows
    <3>6. CheckContinuity => ~BreaksContinuity(LastOf(rows), row.first)
      BY <2>2, <3>4, <3>5, Zenon
    <3>7. FollowOn(Append(rows, row))
      BY <1>4, <3>5, <3>6, FollowsOn, Zenon
    <3>8. row.version = 0 \/ row.version \in DOMAIN current_generations
      BY <2>2, <3>4, Zenon DEF Accepts
    <3>9. VersionsIn(Append(rows, row), current_generations)
      BY <1>4, <3>5, <3>8, VersionAdded, Zenon
    <3>. QED  BY <2>2, <3>2, <3>3, <3>7, <3>9, Zenon
  <2>3. CASE /\ Accepts(in, ch) /\ columns' = PushRow(in, ch) /\ ~(Len(Refs) <= U32Max)
             /\ UNCHANGED <<last_block, rows>>
    <3>1. Ready(in, ch)
      BY <1>1, <1>2, <2>3, AcceptedReady, Zenon
    <3>2. StagedRows(PushRow(in, ch), rows, last_block, write_schemas)
      BY <1>4, <2>3, <3>1, PushStaged, Zenon
    <3>. QED  BY <1>4, <2>3, <3>2, Zenon
  <2>. QED  BY <1>5, <2>1, <2>2, <2>3, Zenon
<1>7. OpenRows' = rows'
  BY <1>2, <1>3, Zenon DEF OpenRows
<1>8. OpenInv'
  BY <1>2, <1>3, <1>6, <1>7, Zenon DEF WorkerInv, OpenInv
<1>9. ChunkInv'
  BY <1>2, <1>3, Zenon DEF WorkerInv, ChunkInv
<1>10. EmittedInv' /\ WorkersInv' /\ BlobInv'
  BY <1>3, Zenon DEF WorkerInv, EmittedInv, WorkersInv, BlobInv
<1>. QED  BY <1>8, <1>9, <1>10, Zenon DEF WorkerInv

\* Every call keeps the invariant.
LEMMA NextWorkerInv ==
  ASSUME WorkerCalls, WorkerInv, [Next]_vars
  PROVE  WorkerInv'
<1>1. CASE \E id \in WriteSchemaIds, tables \in Rosters : register_write_schema(id, tables)
  BY <1>1, RegisterSchemaInv, Zenon
<1>2. CASE \E id \in DatasetIds, base_url \in DatasetUrls : new_dataset(id, base_url)
  BY <1>2, NewDatasetInv, Zenon
<1>3. CASE \E v \in Versions, base_url \in BaseUrls : register_generation(v, base_url)
  BY <1>3, RegisterGenerationInv, Zenon
<1>4. ASSUME NEW id \in PeerIds, NEW status \in Statuses,
             \/ add_worker_with_timestamp(id, status)
             \/ add_worker_with_sealed_headers(id, status, id)
      PROVE  WorkerInv'
  <2>1. id \in Int
    BY Zenon DEF WorkerCalls
  <2>2. <<id>> \in Seq(Int) /\ <<>> \in Seq(Int)
    BY <2>1
  <2>3. generate_encrypted_headers(id) \in Seq(Int)
    BY <2>2, Zenon DEF generate_encrypted_headers
  <2>. QED  BY <1>4, <2>2, <2>3, PushWorkerInv, Zenon
            DEF add_worker_with_timestamp, add_worker_with_sealed_headers
<1>5. CASE FinishDataset \/ DropDataset
  BY <1>5, CloseDatasetInv, Zenon
<1>6. CASE Finish
  BY <1>6, FinishWorkerInv, Zenon
<1>7. CASE new_chunk
  BY <1>7, NewChunkInv, ChunkCallInv, Zenon DEF new_chunk
<1>8. CASE \/ \E id \in WriteSchemaIds : write_schema_id(id)
           \/ \E v \in Versions : version(v)
           \/ \E indexes \in WorkerLists : worker_indexes(indexes)
  <2>1. ChunkInv'
    BY <1>8, SettersInv, Zenon
  <2>2. UNCHANGED <<builder, dataset, blob, caller>>
    BY <1>8, Zenon DEF write_schema_id, version, worker_indexes
  <2>. QED  BY <2>1, <2>2, ChunkCallInv, Zenon
<1>9. ASSUME NEW tables \in TableLists, tables_present(tables)
      PROVE  WorkerInv'
  <2>1. UNCHANGED <<builder, dataset, blob, caller>>
    BY <1>9, Zenon DEF tables_present
  <2>. QED  BY <1>9, <2>1, TablesPresentInv, ChunkCallInv, Zenon
<1>10. CASE DropChunk
  <2>1. ChunkInv'
    BY <1>10, Zenon DEF DropChunk, staging, WorkerInv, ChunkInv
  <2>. QED  BY <1>10, <2>1, ChunkCallInv, Zenon DEF DropChunk
<1>11. ASSUME NEW in \in ChunkInputs, FinishChunk(in)
       PROVE  WorkerInv'
  BY <1>11, FinishChunkWorkerInv, Zenon
<1>12. CASE UNCHANGED vars
  <2>1. UNCHANGED <<builder, staging, dataset, chunk, blob, caller>>
    BY <1>12, Zenon DEF vars
  <2>2. ChunkInv'
    BY <2>1, Zenon DEF builder, staging, WorkerInv, ChunkInv, ChunkStaged
  <2>. QED  BY <2>1, <2>2, ChunkCallInv, Zenon
<1>. QED  BY <1>1, <1>2, <1>3, <1>4, <1>5, <1>6, <1>7, <1>8, <1>9, <1>10, <1>11, <1>12, Zenon DEF Next

-----------------------------------------------------------------------------
(***************************************************************************)
(* Reading back                                                            *)
(***************************************************************************)

\* The tables of a row are read back from its bitmap.
LEMMA RowTablesBack ==
  ASSUME NEW d, NEW c \in ColumnsType, NEW r \in Seq(RowType), NEW schemas, Written(d, c),
         c.any_tables_trimmed \/ c.tables_present = <<>>, ColumnsOf(c, r),
         BitmapsOf(c.tables_present_ends, c.tables_present, r, schemas), NEW k \in 1..Len(r)
  PROVE  chunk_tables(schemas, d, k - 1) = r[k].tables
<1>1. PICK n \in Nat : n = Len(r)
  BY LenFacts, Zenon
<1>2. k \in 1..n /\ (k - 1) + 1 = k
  BY <1>1
<1>3. c.tables_present \in Seq(SUBSET Nat) /\ c.tables_present_ends \in Seq(Nat)
  BY DEF ColumnsType
<1>4. PICK ws : /\ SlicesOf(c.tables_present_ends, c.tables_present, Len(c.tables_present), ws, n)
                /\ \A j \in 1..n : BitsOf(schemas, r[j], ws[j])
  BY <1>1, Zenon DEF BitmapsOf
<1>5. PICK w \in Seq(SUBSET Nat) : w = ws[k] /\ BitsOf(schemas, r[k], w)
  BY <1>2, <1>4, Zenon DEF BitsOf
<1>6. SliceOf(c.tables_present_ends, c.tables_present, Len(c.tables_present), w, k)
  BY <1>2, <1>4, <1>5, Zenon DEF SlicesOf
<1>7. Len(c.tables_present_ends) = n
  BY <1>1, Zenon DEF ColumnsOf, Long
<1>8. PICK bits : bits = ChunkBits(d, k - 1)
  BY Zenon
<1>9. bits = w
  <2>1. CASE c.any_tables_trimmed
    <3>1. /\ d.tables_present_offsets = Offsets(c.tables_present_ends)
          /\ d.tables_present = c.tables_present
      BY <2>1, Zenon DEF Written
    <3>2. Offsets(c.tables_present_ends) # <<>>
      <4>1. <<0>> \o c.tables_present_ends # <<>>
        BY <1>3
      <4>. QED  BY <4>1, Zenon DEF Offsets
    <3>3. PICK ends \in Seq(Nat), column \in Seq(SUBSET Nat) :
            ends = c.tables_present_ends /\ column = c.tables_present
      BY <1>3, Zenon
    <3>4. Len(ends) = n /\ SliceOf(ends, column, Len(column), w, k)
      BY <1>6, <1>7, <3>3, Zenon
    <3>5. Inside(Offsets(ends), column, k - 1, w)
      BY <1>2, <3>4, SliceInside, Zenon
    <3>. QED  BY <1>8, <3>1, <3>2, <3>3, <3>5, Zenon DEF ChunkBits, Inside
  <2>2. CASE ~c.any_tables_trimmed
    <3>1. d.tables_present_offsets = <<>> /\ c.tables_present = <<>>
      BY <2>2, Zenon DEF Written
    <3>2. Len(w) = 0
      <4>1. Len(<<>>) = 0 /\ Len(w) \in Nat
        BY LenFacts, EmptyFacts, Zenon
      <4>2. PICK s \in Nat, e \in Nat : e <= Len(c.tables_present) /\ s + Len(w) = e
        BY <1>6, Zenon DEF SliceOf
      <4>. QED  BY <3>1, <4>1, <4>2
    <3>3. w = <<>>
      BY <3>2, EmptyFacts
    <3>. QED  BY <1>8, <3>1, <3>3, Zenon DEF ChunkBits
  <2>. QED  BY <2>1, <2>2, Zenon
<1>10. d.write_schema_ids[(k - 1) + 1] = r[k].write_schema_id
  BY <1>2, Zenon DEF Written, ColumnsOf, RowAt
<1>11. chunk_tables(schemas, d, k - 1) = TablesIn(schemas[r[k].write_schema_id], bits)
  BY <1>8, <1>10, Zenon DEF chunk_tables, TablesIn
<1>. QED  BY <1>5, <1>9, <1>11, Zenon DEF BitsOf

\* A row is read back from the columns it was written to, but for its tables.
ReadRow(d, k, row) ==
  /\ top_at(d.tops, k - 1) = row.top
  /\ d.first_blocks[(k - 1) + 1] = row.first
  /\ d.first_blocks[(k - 1) + 1] + d.block_deltas[(k - 1) + 1] = row.last
  /\ hash(d.hashes[(k - 1) + 1]) = row.hash /\ d.sizes[(k - 1) + 1] = row.size
  /\ d.write_schema_ids[(k - 1) + 1] = row.write_schema_id
  /\ VersionAt(d.versions, k - 1) = row.version
  /\ Slice(d.worker_offsets, d.worker_indexes, k - 1) = row.workers

LEMMA RowBack ==
  ASSUME NEW d, NEW c \in ColumnsType, NEW r \in Seq(RowType), Written(d, c), ColumnsOf(c, r),
         NEW k \in 1..Len(r)
  PROVE  ReadRow(d, k, r[k])
<1>1. PICK n \in Nat : n = Len(r)
  BY LenFacts, Zenon
<1>2. PICK row : row = r[k]
  BY Zenon
<1>3. row \in RowType /\ k \in 1..n /\ (k - 1) + 1 = k
  BY <1>1, <1>2
<1>4. row.first \in Nat /\ row.last \in Nat /\ row.hash \in Hashes /\ row.workers \in Seq(Nat)
  BY <1>3 DEF RowType
<1>5. /\ c.tops \in Seq(TopRun) /\ c.versions \in Seq(Nat) /\ c.worker_ends \in Seq(Nat)
      /\ c.worker_indexes \in Seq(Nat)
  BY DEF ColumnsType
<1>6. RowAt(c, k, row)
  BY <1>2, Zenon DEF ColumnsOf
<1>7. top_at(d.tops, k - 1) = row.top
  BY <1>1, <1>2, <1>3, <1>5, TopAtOf, Zenon DEF ColumnsOf, Written
<1>8. /\ d.first_blocks[(k - 1) + 1] = row.first /\ d.sizes[(k - 1) + 1] = row.size
      /\ d.write_schema_ids[(k - 1) + 1] = row.write_schema_id
  BY <1>3, <1>6, Zenon DEF Written, RowAt
<1>9. d.first_blocks[(k - 1) + 1] + d.block_deltas[(k - 1) + 1] = row.last
  <2>1. d.block_deltas[(k - 1) + 1] = row.last - row.first
    BY <1>3, <1>6, Zenon DEF Written, RowAt
  <2>2. row.first + (row.last - row.first) = row.last
    BY <1>4
  <2>. QED  BY <1>8, <2>1, <2>2, Zenon
<1>10. hash(d.hashes[(k - 1) + 1]) = row.hash
  BY <1>3, <1>4, <1>6, HashBack, Zenon DEF Written, RowAt
<1>11. VersionAt(d.versions, k - 1) = row.version
  <2>1. Len(c.versions) = n
    BY <1>1, Zenon DEF ColumnsOf, Long
  <2>2. VersionAt(EmitVersions(c.versions), k - 1) = c.versions[k]
    BY <1>3, <1>5, <2>1, VersionBack, Zenon
  <2>. QED  BY <1>6, <2>2, Zenon DEF Written, RowAt
<1>12. Slice(d.worker_offsets, d.worker_indexes, k - 1) = row.workers
  <2>1. SliceOf(c.worker_ends, c.worker_indexes, Len(c.worker_indexes), row.workers, k)
    <3>1. WorkersOf(r)[k] = row.workers
      BY <1>2, Zenon DEF WorkersOf
    <3>. QED  BY <3>1, Zenon DEF ColumnsOf, SlicesOf
  <2>2. Len(c.worker_ends) = n
    BY <1>1, Zenon DEF ColumnsOf
  <2>3. Slice(Offsets(c.worker_ends), c.worker_indexes, k - 1) = row.workers
    BY <1>3, <1>4, <1>5, <2>1, <2>2, SliceBack, Zenon
  <2>. QED  BY <2>3, Zenon DEF Written
<1>. QED  BY <1>2, <1>7, <1>8, <1>9, <1>10, <1>11, <1>12, Zenon DEF ReadRow

\* The columns c of the rows r, as a reader finds them in the dataset d.
WrittenOf(d, c, r, schemas) ==
  /\ c \in ColumnsType /\ r \in Seq(RowType) /\ Written(d, c) /\ ColumnsOf(c, r)
  /\ c.any_tables_trimmed \/ c.tables_present = <<>>
  /\ Len(d.tables_present) <= U32Max =>
       BitmapsOf(c.tables_present_ends, c.tables_present, r, schemas)

\* There is one more offset than rows.
LEMMA OffsetsLen ==
  ASSUME NEW ends \in Seq(Nat)
  PROVE  Offsets(ends) # <<>> /\ Len(Offsets(ends)) - 1 = Len(ends)
BY DEF Offsets

\* A dataset is accepted exactly if its worker references fit, and then it has
\* the columns of its rows.
LEMMA DatasetBack ==
  ASSUME WorkerCalls, NEW d, NEW e, NEW schemas, EmittedOf(d, e, schemas)
  PROVE  /\ from_owned(d) <=> Len(d.worker_indexes) <= U32Max
         /\ from_owned(d) => \E c : WrittenOf(d, c, e.rows, schemas)
<1>1. PICK c : Written(d, c) /\ StagedRows(c, e.rows, d.last_block, schemas) /\ c.first_blocks # <<>>
  BY Zenon DEF EmittedOf
<1>2. PICK r : r = e.rows
  BY Zenon
<1>3. /\ c \in ColumnsType /\ r \in Seq(RowType)
      /\ c.any_tables_trimmed \/ c.tables_present = <<>>
  BY <1>1, <1>2, Zenon DEF StagedRows
<1>4. /\ c.first_blocks \in Seq(Nat) /\ c.versions \in Seq(Nat) /\ c.worker_ends \in Seq(Nat)
      /\ c.tops \in Seq(TopRun) /\ c.tables_present_ends \in Seq(Nat)
  BY <1>3 DEF ColumnsType
<1>5. Len(d.worker_offsets) - 1 = Len(c.worker_ends)
  BY <1>1, <1>4, OffsetsLen, Zenon DEF Written
<1>6. CASE Len(d.worker_indexes) <= U32Max
  <2>1. /\ ColumnsOf(c, r)
        /\ Len(c.tables_present) <= U32Max =>
             BitmapsOf(c.tables_present_ends, c.tables_present, r, schemas)
    BY <1>1, <1>2, <1>6, Zenon DEF StagedRows, Written
  <2>2. PICK n \in Nat : n = Len(r)
    BY <1>3, LenFacts, Zenon
  <2>3. Long(c, n) /\ Len(c.worker_ends) = n /\ TopsOf(c.tops, r)
    BY <2>1, <2>2, Zenon DEF ColumnsOf
  <2>4. n > 0
    <3>1. Len(c.first_blocks) \in Nat \ {0}
      BY <1>1, <1>4, EmptyFacts, Zenon
    <3>2. Len(c.first_blocks) = n
      BY <2>3, Zenon DEF Long
    <3>. QED  BY <3>1, <3>2
  <2>5. c.tops # <<>> /\ c.tops[1].first_chunk_index = 0
    <3>1. Len(c.tops) > 0 /\ c.tops[1].first_chunk_index = 0
      BY <2>2, <2>3, <2>4, Zenon DEF TopsOf, RunsOf
    <3>2. c.tops # <<>>
      BY <3>1
    <3>. QED  BY <3>1, <3>2, Zenon
  <2>6. Entries(d.tables_present_offsets, n) = n
    <3>1. CASE c.any_tables_trimmed
      <4>1. d.tables_present_offsets = Offsets(c.tables_present_ends) /\ Len(c.tables_present_ends) = n
        BY <1>1, <2>3, <3>1, Zenon DEF Written, Long
      <4>. QED  BY <1>4, <4>1, OffsetsLen, Zenon DEF Entries
    <3>2. CASE ~c.any_tables_trimmed
      BY <1>1, <3>2, Zenon DEF Written, Entries
    <3>. QED  BY <3>1, <3>2, Zenon
  <2>7. from_owned(d)
    <3>1. d.versions = <<>> \/ Len(d.versions) = n
      BY <1>1, <2>3, Zenon DEF Written, EmitVersions, Long
    <3>2. /\ Len(d.first_blocks) = n /\ Len(d.block_deltas) = n /\ Len(d.hashes) = n
          /\ Len(d.sizes) = n /\ Len(d.write_schema_ids) = n /\ Len(d.worker_offsets) - 1 = n
      BY <1>1, <1>5, <2>3, Zenon DEF Written, Long
    <3>3. (IF d.versions = <<>> THEN n ELSE Len(d.versions)) = n
      BY <3>1, Zenon
    <3>4. d.tops # <<>> /\ d.tops[1].first_chunk_index = 0
      BY <1>1, <2>5, Zenon DEF Written
    <3>. QED  BY <2>6, <3>2, <3>3, <3>4 DEF from_owned, check_columns
  <2>8. Len(d.tables_present) <= U32Max => Len(c.tables_present) <= U32Max
    BY <1>1, <1>3, Zenon DEF Written
  <2>9. WrittenOf(d, c, r, schemas)
    BY <1>1, <1>3, <2>1, <2>8, Zenon DEF WrittenOf
  <2>. QED  BY <1>2, <1>6, <2>7, <2>9, Zenon
<1>7. CASE ~(Len(d.worker_indexes) <= U32Max)
  <2>1. Len(c.worker_ends) < Len(c.first_blocks)
    BY <1>1, <1>7, Zenon DEF StagedRows, Written
  <2>2. Len(c.worker_ends) \in Nat /\ Len(c.first_blocks) \in Nat
    BY <1>4, LenFacts, Zenon
  <2>3. Len(d.worker_offsets) - 1 # Len(d.first_blocks)
    <3>1. Len(c.worker_ends) # Len(c.first_blocks)
      BY <2>1, <2>2
    <3>2. d.first_blocks = c.first_blocks
      BY <1>1, Zenon DEF Written
    <3>. QED  BY <1>5, <3>1, <3>2, Zenon
  <2>4. ~from_owned(d)
    BY <2>3, Zenon DEF from_owned, check_columns
  <2>. QED  BY <1>7, <2>4, Zenon
<1>. QED  BY <1>6, <1>7, Zenon

\* The rows of an accepted dataset are read back.
LEMMA RowsBack ==
  ASSUME NEW d, NEW c, NEW r, NEW schemas, WrittenOf(d, c, r, schemas), Len(d.tables_present) <= U32Max
  PROVE  r = [k \in 1..Len(d.first_blocks) |-> WorkerChunk(schemas, d, k - 1)]
<1>1. c \in ColumnsType /\ r \in Seq(RowType) /\ Written(d, c) /\ ColumnsOf(c, r)
  BY Zenon DEF WrittenOf
<1>2. PICK n \in Nat : n = Len(r) /\ DOMAIN r = 1..n /\ r \in [1..n -> RowType]
  BY <1>1, LenFacts, Zenon
<1>3. Len(d.first_blocks) = n
  BY <1>1, <1>2, Zenon DEF Written, ColumnsOf, Long
<1>4. ASSUME NEW k \in 1..n
      PROVE  WorkerChunk(schemas, d, k - 1) = r[k]
  <2>1. PICK row : row = r[k]
    BY Zenon
  <2>2. row = [top |-> row.top, first |-> row.first, last |-> row.last, hash |-> row.hash,
               size |-> row.size, write_schema_id |-> row.write_schema_id, version |-> row.version,
               tables |-> row.tables, workers |-> row.workers]
    <3>1. row \in RowType
      BY <1>2, <2>1, Zenon
    <3>. QED  BY <3>1 DEF RowType
  <2>3. ReadRow(d, k, row)
    BY <1>1, <1>2, <2>1, RowBack, Zenon
  <2>4. chunk_tables(schemas, d, k - 1) = row.tables
    BY <1>1, <1>2, <2>1, RowTablesBack, Zenon DEF WrittenOf
  <2>. QED  BY <2>1, <2>2, <2>3, <2>4, Zenon DEF WorkerChunk, ReadRow
<1>5. r = [k \in 1..n |-> r[k]]
  BY <1>2, Zenon
<1>. QED  BY <1>3, <1>4, <1>5, Zenon

\* Every dataset of the blob was emitted.
LEMMA InBlob ==
  ASSUME WorkerInv, blob # <<>>, NEW i \in DOMAIN blob[1].datasets
  PROVE  /\ i \in DOMAIN expected /\ expected[i].rows \in Seq(RowType)
         /\ EmittedOf(blob[1].datasets[i], expected[i], blob[1].schemas)
<1>1. /\ blob[1].datasets = all_datasets /\ blob[1].schemas = write_schemas
      /\ all_datasets \in Seq(DatasetType) /\ expected \in Seq(ExpectedType)
      /\ Len(all_datasets) = Len(expected)
      /\ \A j \in 1..Len(all_datasets) : EmittedOf(all_datasets[j], expected[j], write_schemas)
  BY Zenon DEF WorkerInv, EmittedInv, BlobInv
<1>2. i \in 1..Len(all_datasets) /\ i \in 1..Len(expected) /\ DOMAIN expected = 1..Len(expected)
  BY <1>1, LenFacts, Zenon
<1>3. expected[i] \in ExpectedType
  BY <1>1, <1>2, LenFacts, Zenon
<1>. QED  BY <1>1, <1>2, <1>3, Zenon DEF ExpectedType

\* Datasets that were emitted are read back.
LEMMA RoundTripFromInv ==
  ASSUME WorkerCalls, WorkerInv
  PROVE  RoundTrip
<1>. SUFFICES ASSUME blob # <<>>, NEW i \in DOMAIN blob[1].datasets, NEW d, d = blob[1].datasets[i]
              PROVE  /\ from_owned(d) <=> Len(d.worker_indexes) <= U32Max
                     /\ from_owned(d) /\ Len(d.tables_present) <= U32Max =>
                          expected[i].rows =
                            [k \in 1..Len(d.first_blocks) |-> WorkerChunk(blob[1].schemas, d, k - 1)]
  BY Zenon DEF RoundTrip, Blob
<1>1. PICK e : e = expected[i]
  BY Zenon
<1>2. PICK schemas : schemas = blob[1].schemas
  BY Zenon
<1>3. EmittedOf(d, e, schemas)
  BY <1>1, <1>2, InBlob, Zenon
<1>4. /\ from_owned(d) <=> Len(d.worker_indexes) <= U32Max
      /\ from_owned(d) => \E c : WrittenOf(d, c, e.rows, schemas)
  BY <1>3, DatasetBack, Zenon
<1>5. ASSUME from_owned(d), Len(d.tables_present) <= U32Max
      PROVE  e.rows = [k \in 1..Len(d.first_blocks) |-> WorkerChunk(schemas, d, k - 1)]
  BY <1>4, <1>5, RowsBack, Zenon
<1>. QED  BY <1>1, <1>2, <1>4, <1>5, Zenon

\* Emitted datasets are contiguous.
LEMMA ContiguousFromInv ==
  ASSUME WorkerInv
  PROVE  Contiguous
<1>1. /\ all_datasets \in Seq(DatasetType) /\ expected \in Seq(ExpectedType)
      /\ Len(all_datasets) = Len(expected)
      /\ \A j \in 1..Len(all_datasets) : EmittedOf(all_datasets[j], expected[j], write_schemas)
  BY Zenon DEF WorkerInv, EmittedInv
<1>2. DOMAIN expected = 1..Len(all_datasets)
  BY <1>1, LenFacts, Zenon
<1>3. \A i \in DOMAIN expected : FollowOn(expected[i].rows)
  BY <1>1, <1>2, Zenon DEF EmittedOf
<1>. QED  BY <1>3, Zenon DEF FollowOn, Contiguous

\* The invariant holds whatever is called.
LEMMA AlwaysWorkerInv ==
  ASSUME WorkerCalls
  PROVE  Spec => []WorkerInv
<1>1. Init => WorkerInv
  BY InitWorkerInv, Zenon
<1>2. WorkerInv /\ [Next]_vars => WorkerInv'
  BY NextWorkerInv, Zenon
<1>. QED  BY <1>1, <1>2, PTL DEF Spec

\* A worker reads back exactly the chunks that were accepted (RoundTrip), and
\* with check_continuity they follow each other (Contiguous): for any write
\* schemas, chunks, tables, generations and workers, in any order of calls,
\* whatever the u32 that counts worker references and bitmap bytes.
THEOREM WorkerAlwaysReadsBack ==
  ASSUME WorkerCalls
  PROVE  Spec => [](RoundTrip /\ Contiguous)
<1>1. WorkerInv => RoundTrip /\ Contiguous
  BY RoundTripFromInv, ContiguousFromInv, Zenon
<1>. QED  BY <1>1, AlwaysWorkerInv, PTL

-----------------------------------------------------------------------------
(***************************************************************************)
(* What a worker fetches: its chunks, and their urls                       *)
(***************************************************************************)

\* One segment or two.
LEMMA Segments ==
  ASSUME NEW x, NEW y
  PROVE  <<x>> \o <<>> = <<x>> /\ <<x>> \o <<y>> = <<x, y>>
<1>1. PICK S : S = {x, y}
  BY Zenon
<1>2. x \in S /\ y \in S
  BY <1>1
<1>3. <<x>> \in Seq(S) /\ <<y>> \in Seq(S) /\ <<x, y>> \in Seq(S) /\ <<>> \in Seq(S)
  BY <1>2
<1>4. <<x>> \o <<>> = <<x>>
  BY <1>3
<1>5. PICK t : t = <<x>> \o <<y>>
  BY Zenon
<1>6. t \in Seq(S) /\ Len(t) = 2 /\ t[1] = x /\ t[2] = y
  BY <1>3, <1>5
<1>7. t = <<x, y>>
  BY <1>3, <1>6
<1>. QED  BY <1>4, <1>5, <1>7, Zenon

\* what follows the root in the url of row k
Prefix(e, k) ==
  LET v == e.rows[k].version IN IF v = 0 THEN <<>> ELSE <<e.generations[v]>>

\* Urls of emitted datasets are made of what was registered for them.
LEMMA ScopedFromInv ==
  ASSUME WorkerCalls, WorkerInv
  PROVE  GenerationsScoped
<1>. SUFFICES ASSUME blob # <<>>, NEW i \in DOMAIN blob[1].datasets, NEW d, d = blob[1].datasets[i]
              PROVE  /\ d.generations = expected[i].generations
                     /\ from_owned(d) =>
                          \A k \in 1..Len(expected[i].rows) :
                            url(d, k - 1) = <<expected[i].base_url>> \o Prefix(expected[i], k)
  BY Zenon DEF GenerationsScoped, Blob, Prefix
<1>1. PICK schemas, e : schemas = blob[1].schemas /\ e = expected[i]
  BY Zenon
<1>2. EmittedOf(d, e, schemas)
  BY <1>1, InBlob, Zenon
<1>3. /\ d.generations = e.generations /\ d.base_url = e.base_url
      /\ VersionsIn(e.rows, e.generations)
  BY <1>2, Zenon DEF EmittedOf
<1>4. ASSUME from_owned(d), NEW k \in 1..Len(e.rows)
      PROVE  url(d, k - 1) = <<e.base_url>> \o Prefix(e, k)
  <2>1. PICK c : WrittenOf(d, c, e.rows, schemas)
    BY <1>2, <1>4, DatasetBack, Zenon
  <2>2. PICK r, v : r = e.rows /\ v = r[k].version
    BY Zenon
  <2>3. ReadRow(d, k, r[k])
    BY <1>4, <2>1, <2>2, RowBack, Zenon DEF WrittenOf
  <2>4. VersionAt(d.versions, k - 1) = v
    BY <2>2, <2>3, Zenon DEF ReadRow
  <2>5. v = 0 \/ v \in DOMAIN e.generations
    BY <1>3, <1>4, <2>2, Zenon DEF VersionsIn
  <2>6. Prefix(e, k) = IF v = 0 THEN <<>> ELSE <<e.generations[v]>>
    BY <2>2, Zenon DEF Prefix
  <2>7. CASE v = 0
    BY <1>3, <2>4, <2>6, <2>7, Segments, Zenon DEF url
  <2>8. CASE v # 0
    <3>1. url(d, k - 1) = <<e.base_url, e.generations[v]>>
      BY <1>3, <2>4, <2>5, <2>8, Zenon DEF url
    <3>2. Prefix(e, k) = <<e.generations[v]>>
      BY <2>6, <2>8, Zenon
    <3>. QED  BY <3>1, <3>2, Segments, Zenon
  <2>. QED  BY <2>7, <2>8, Zenon
<1>. QED  BY <1>1, <1>3, <1>4, Zenon

\* whether the scan over the slots meets the worker x in row k
Scanned(d, k, x) ==
  \E slot \in d.worker_offsets[(k - 1) + 1]..Min({d.worker_offsets[(k - 1) + 2], Len(d.worker_indexes)}) - 1 :
    d.worker_indexes[slot + 1] = x

\* The slots of a row are the workers of the row.
LEMMA SlotsOf ==
  ASSUME NEW d, NEW c, NEW r, NEW schemas, WrittenOf(d, c, r, schemas), NEW k \in 1..Len(r), NEW x
  PROVE  Scanned(d, k, x) <=> x \in Range(r[k].workers)
<1>1. c \in ColumnsType /\ r \in Seq(RowType) /\ Written(d, c) /\ ColumnsOf(c, r)
  BY Zenon DEF WrittenOf
<1>2. PICK n \in Nat : n = Len(r)
  BY <1>1, LenFacts, Zenon
<1>3. c.worker_ends \in Seq(Nat) /\ c.worker_indexes \in Seq(Nat)
  BY <1>1 DEF ColumnsType
<1>4. PICK w \in Seq(Nat) : w = r[k].workers
  <2>1. r[k] \in RowType
    BY <1>1
  <2>. QED  BY <2>1, Zenon DEF RowType
<1>5. PICK m \in Nat : m = Len(w) /\ DOMAIN w = 1..m
  BY LenFacts, Zenon
<1>6. SliceOf(c.worker_ends, c.worker_indexes, Len(c.worker_indexes), w, k)
  <2>1. WorkersOf(r)[k] = w
    BY <1>4, Zenon DEF WorkersOf
  <2>. QED  BY <1>1, <2>1, Zenon DEF ColumnsOf, SlicesOf
<1>7. PICK s \in Nat : s = Start(c.worker_ends, k)
  BY <1>6, Zenon DEF SliceOf
<1>8. \A i \in 1..m : c.worker_indexes[s + i] = w[i]
  BY <1>5, <1>6, <1>7, Zenon DEF SliceOf
<1>9. Spans(Offsets(c.worker_ends), Len(c.worker_indexes), k, s, m)
  <2>1. k \in 1..Len(c.worker_ends) /\ Len(c.worker_indexes) \in Nat /\ Len(w) \in Nat
    BY <1>1, <1>3, <1>5, LenFacts, Zenon DEF ColumnsOf
  <2>. QED  BY <1>3, <1>5, <1>6, <1>7, <2>1, OffsetsAt, Zenon
<1>10. /\ d.worker_offsets[(k - 1) + 1] = s
       /\ Min({d.worker_offsets[(k - 1) + 2], Len(d.worker_indexes)}) = s + m
       /\ d.worker_indexes = c.worker_indexes
  <2>1. (k - 1) + 1 = k /\ (k - 1) + 2 = k + 1
    BY <1>2
  <2>. QED  BY <1>1, <1>9, <2>1, Zenon DEF Spans, Written
<1>11. Scanned(d, k, x) <=> \E slot \in s..(s + m) - 1 : c.worker_indexes[slot + 1] = x
  BY <1>10, Zenon DEF Scanned
<1>12. (\E slot \in s..(s + m) - 1 : c.worker_indexes[slot + 1] = x) <=> \E i \in 1..m : w[i] = x
  <2>1. \A slot \in s..(s + m) - 1 : slot + 1 - s \in 1..m /\ s + (slot + 1 - s) = slot + 1
    OBVIOUS
  <2>2. \A i \in 1..m : s + i - 1 \in s..(s + m) - 1 /\ (s + i - 1) + 1 = s + i
    OBVIOUS
  <2>3. ASSUME NEW slot \in s..(s + m) - 1, c.worker_indexes[slot + 1] = x
        PROVE  \E i \in 1..m : w[i] = x
    <3>1. c.worker_indexes[s + (slot + 1 - s)] = w[slot + 1 - s]
      BY <1>8, <2>1, Zenon
    <3>. QED  BY <2>1, <2>3, <3>1, Zenon
  <2>4. ASSUME NEW i \in 1..m, w[i] = x
        PROVE  \E slot \in s..(s + m) - 1 : c.worker_indexes[slot + 1] = x
    <3>1. c.worker_indexes[(s + i - 1) + 1] = x
      BY <1>8, <2>2, <2>4, Zenon
    <3>. QED  BY <2>2, <3>1, Zenon
  <2>. QED  BY <2>3, <2>4, Zenon
<1>. QED  BY <1>4, <1>5, <1>11, <1>12, Zenon DEF Range

\* the rows that name the worker x
HeldRows(r, x) == {k \in 0..Len(r) - 1 : x \in Range(r[k + 1].workers)}

\* The scan over an accepted dataset finds the chunks that name the worker.
LEMMA HoldingsBack ==
  ASSUME NEW d, NEW c, NEW r, NEW schemas, WrittenOf(d, c, r, schemas), NEW x
  PROVE  holdings(d, x) = HeldRows(r, x)
<1>1. PICK n \in Nat : n = Len(r) /\ Len(d.first_blocks) = n
  BY LenFacts, Zenon DEF WrittenOf, Written, ColumnsOf, Long
<1>2. \A k \in 1..n : Scanned(d, k, x) <=> x \in Range(r[k].workers)
  BY <1>1, SlotsOf, Zenon
<1>3. \A k \in 0..n - 1 : k + 1 \in 1..n /\ (k + 1) - 1 = k
  OBVIOUS
<1>4. \A k \in 0..n - 1 :
        (\E slot \in d.worker_offsets[k + 1]..Min({d.worker_offsets[k + 2], Len(d.worker_indexes)}) - 1 :
           d.worker_indexes[slot + 1] = x)
        <=> x \in Range(r[k + 1].workers)
  <2>. SUFFICES ASSUME NEW k \in 0..n - 1
                PROVE  Scanned(d, k + 1, x) <=>
                         \E slot \in d.worker_offsets[k + 1]..Min({d.worker_offsets[k + 2], Len(d.worker_indexes)}) - 1 :
                           d.worker_indexes[slot + 1] = x
    BY <1>2, <1>3, Zenon
  <2>. QED  BY <1>3, Zenon DEF Scanned
<1>. QED  BY <1>1, <1>4, Zenon DEF holdings, HeldRows

\* A worker finds its entry, and the chunks that name it.
LEMMA HoldingsFromInv ==
  ASSUME WorkerCalls, WorkerInv
  PROVE  HoldingsExact
<1>. SUFFICES ASSUME blob # <<>>, NEW id \in PeerIds, NEW w, w = get_worker(blob[1].workers, id)
              PROVE  /\ (w = <<>>) = (\A i \in DOMAIN worker_entries : worker_entries[i].id # id)
                     /\ w # <<>> =>
                          /\ w[1].entry.id = id
                          /\ \A i \in DOMAIN blob[1].datasets : from_owned(blob[1].datasets[i]) =>
                               holdings(blob[1].datasets[i], w[1].index) =
                                 HeldRows(expected[i].rows, w[1].index)
  BY Zenon DEF HoldingsExact, Blob, HeldRows
<1>1. /\ blob[1].workers = worker_entries /\ worker_entries \in Seq(EntryType)
      /\ \A i \in 1..Len(worker_entries) - 1 : worker_entries[i].id < worker_entries[i + 1].id
  BY Zenon DEF WorkerInv, WorkersInv, BlobInv
<1>2. PICK n \in Nat : n = Len(worker_entries) /\ DOMAIN worker_entries = 1..n
  BY <1>1, LenFacts, Zenon
<1>3. PICK q : q = lookup_index_by_key([i \in DOMAIN worker_entries |-> worker_entries[i].id], id)
  BY Zenon
<1>4. w = IF q = None THEN <<>> ELSE <<[entry |-> worker_entries[q + 1], index |-> q]>>
  BY <1>1, <1>3, Zenon DEF get_worker
<1>5. KeyAt(worker_entries, n, id, q)
  <2>1. \A i \in 1..n : worker_entries[i].id \in Int
    <3>1. \A i \in 1..n : worker_entries[i] \in EntryType
      BY <1>1, <1>2
    <3>. QED  BY <3>1 DEF EntryType
  <2>2. Keyed(worker_entries, n)
    BY <1>1, <1>2, <2>1, Zenon DEF Keyed
  <2>3. id \in Int
    BY Zenon DEF WorkerCalls
  <2>. QED  BY <1>3, <2>2, <2>3, KeyFound, Zenon
<1>6. CASE \E i \in 1..n : worker_entries[i].id = id
  <2>1. PICK j \in 1..n : worker_entries[j].id = id
    BY <1>6, Zenon
  <2>2. q = j - 1
    BY <1>5, <2>1, Zenon DEF KeyAt
  <2>3. q # None /\ q + 1 = j
    BY <2>2 DEF None
  <2>4. PICK f : f = [entry |-> worker_entries[j], index |-> q]
    BY Zenon
  <2>5. w = <<f>>
    BY <1>4, <2>3, <2>4, Zenon
  <2>6. <<f>> # <<>> /\ <<f>>[1] = f /\ f.entry = worker_entries[j] /\ f.index = q
    BY <2>4
  <2>. QED
    <3>1. (w = <<>>) = (\A i \in DOMAIN worker_entries : worker_entries[i].id # id)
      BY <1>2, <2>1, <2>5, <2>6, Zenon
    <3>2. w[1].entry.id = id /\ w[1].index = q
      BY <2>1, <2>5, <2>6, Zenon
    <3>3. ASSUME NEW i \in DOMAIN blob[1].datasets, from_owned(blob[1].datasets[i])
          PROVE  holdings(blob[1].datasets[i], q) = HeldRows(expected[i].rows, q)
      <4>1. PICK d, e, schemas :
              d = blob[1].datasets[i] /\ e = expected[i] /\ schemas = blob[1].schemas
        BY Zenon
      <4>2. EmittedOf(d, e, schemas)
        BY <4>1, InBlob, Zenon
      <4>3. PICK c, r : r = e.rows /\ WrittenOf(d, c, r, schemas)
        BY <3>3, <4>1, <4>2, DatasetBack, Zenon
      <4>4. holdings(d, q) = HeldRows(r, q)
        BY <4>3, HoldingsBack, Zenon
      <4>. QED  BY <4>1, <4>3, <4>4, Zenon
    <3>. QED  BY <3>1, <3>2, <3>3, Zenon
<1>7. CASE ~\E i \in 1..n : worker_entries[i].id = id
  <2>1. q = None
    BY <1>5, <1>7, Zenon DEF KeyAt
  <2>2. w = <<>>
    BY <1>4, <2>1, Zenon
  <2>. QED  BY <1>2, <1>7, <2>2, Zenon
<1>. QED  BY <1>6, <1>7, Zenon

\* A worker finds its own entry and exactly the chunks that name it
\* (HoldingsExact), and their urls lead to the root and the generation they were
\* registered with (GenerationsScoped), whatever datasets were opened, abandoned
\* and rejected in between.
THEOREM WorkerAlwaysHolds ==
  ASSUME WorkerCalls
  PROVE  Spec => [](HoldingsExact /\ GenerationsScoped)
<1>1. WorkerInv => HoldingsExact /\ GenerationsScoped
  BY HoldingsFromInv, ScopedFromInv, Zenon
<1>. QED  BY <1>1, AlwaysWorkerInv, PTL
=============================================================================
