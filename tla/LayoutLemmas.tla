---------------------------- MODULE LayoutLemmas ----------------------------
(***************************************************************************)
(* The layout arithmetic of internal/layout/layout.go is right for every   *)
(* FileGroupChunks, FileParityShards, layout spec and number of chunks.    *)
(*                                                                         *)
(* The argument: BlobOffset(s, n, b) is BlobGroup(s, n, b) * groupSpan(s)  *)
(* plus a slot below groupSpan(s), so equal offsets mean equal groups and  *)
(* equal slots (Euclidean division), and inside a group the slots of the   *)
(* data and of the parity are two adjacent intervals.                      *)
(***************************************************************************)
EXTENDS Layout, TLAPS

K == FileGroupChunks
P == FileParityShards

\* the position of a blob inside its group
DataSlot(s, r) == (IF s.Version >= 3 THEN 0 ELSE P) + r
ParitySlot(s, kData, q) == (IF s.Version >= 3 THEN kData ELSE 0) + q

\* the blobs of group g
GroupSize(s, g, n) == DataChunksInGroup(g, n) + GroupParity(s, g, n)

-----------------------------------------------------------------------------
(* Arithmetic.                                                             *)

\* a quotient and a remainder determine their dividend, and are determined by it
LEMMA DivMod ==
  ASSUME NEW d \in Nat \ {0}, NEW i \in Nat
  PROVE  /\ i \div d \in Nat
         /\ (i % d) \in 0 .. d - 1
         /\ i = (i \div d) * d + (i % d)
  BY SMT

\* products of different naturals by d are at least d apart
LEMMA ProductGap ==
  ASSUME NEW d \in Nat, NEW a \in Nat, NEW b \in Nat, a < b
  PROVE  a * d + d <= b * d
  <1>1. (b - a) * d >= d
    BY SMT
  <1>2. (b - a) * d = b * d - a * d
    BY SMT
  <1> QED
    BY <1>1, <1>2, SMT

\* the same offset in rows of length d is the same row and the same column
LEMMA SameRow ==
  ASSUME NEW d \in Nat, NEW a \in Nat, NEW b \in Nat,
         NEW x \in 0 .. d - 1, NEW y \in 0 .. d - 1,
         a * d + x = b * d + y
  PROVE  a = b /\ x = y
  <1>0. a * d \in Nat /\ b * d \in Nat
    BY SMT
  <1>1. ~ (a < b)
    BY <1>0, ProductGap, SMT
  <1>2. ~ (b < a)
    BY <1>0, ProductGap, SMT
  <1>3. a = b
    BY <1>1, <1>2, SMT
  <1> QED
    BY <1>0, <1>3, SMT

-----------------------------------------------------------------------------
(* The groups of a vault of n chunks.                                      *)

\* n chunks make the groups 0 .. GroupCount(n) - 1, the last one not empty
LEMMA GroupCounts ==
  ASSUME NEW n \in Nat \ {0}
  PROVE  /\ GroupCount(n) \in Nat \ {0}
         /\ LastGroupChunks(n) \in 1 .. K
         /\ n = (GroupCount(n) - 1) * K + LastGroupChunks(n)
  <1> USE LayoutAssumption DEF K
  <1>1. /\ (n - 1) \div K \in Nat
        /\ ((n - 1) % K) \in 0 .. K - 1
        /\ n - 1 = ((n - 1) \div K) * K + ((n - 1) % K)
    BY DivMod, SMT
  <1>2. GroupCount(n) - 1 = (n - 1) \div K /\ GroupCount(n) \in Nat \ {0}
    BY <1>1, SMT DEF GroupCount
  <1>3. LastGroupChunks(n) = n - ((n - 1) \div K) * K
    BY <1>2, Zenon DEF LastGroupChunks
  <1>4. ((n - 1) \div K) * K \in Nat
    BY <1>1, SMT
  <1> QED
    BY <1>1, <1>2, <1>3, <1>4, SMT

\* a group has between 1 and K data blobs, and its other blobs are parity
LEMMA GroupBounds ==
  ASSUME NEW s \in LayoutSpecs, NEW n \in Nat \ {0},
         NEW g \in 0 .. GroupCount(n) - 1
  PROVE  /\ DataChunksInGroup(g, n) \in 1 .. K
         /\ GroupParity(s, g, n) \in Nat
         /\ groupSpan(s) \in Nat \ {0}
         /\ GroupSize(s, g, n) \in 1 .. groupSpan(s)
         /\ g < GroupCount(n) - 1 => GroupSize(s, g, n) = groupSpan(s)
  <1> USE LayoutAssumption DEF K
  <1>1. GroupCount(n) \in Nat /\ LastGroupChunks(n) \in 1 .. K
    BY GroupCounts
  <1>2. /\ DataChunksInGroup(g, n) \in 1 .. K
        /\ g < GroupCount(n) - 1 => DataChunksInGroup(g, n) = K
    BY <1>1, SMT DEF DataChunksInGroup
  <1>3. CASE s = SpecV2
    BY <1>1, <1>2, <1>3, SMT
    DEF SpecV2, GroupParity, GroupSize, ParityCountFor, groupSpan, BlobsPerFullGroup
  <1>4. CASE \E m \in 1 .. FileParityShards : s = SpecV3(m)
    BY <1>1, <1>2, <1>4, SMT
    DEF SpecV3, GroupParity, GroupSize, ParityCountFor, groupSpan, Lesser
  <1> QED
    BY <1>3, <1>4 DEF LayoutSpecs

\* chunk i is in group i \div K, at place i % K
LEMMA ChunkInGroup ==
  ASSUME NEW n \in Nat \ {0}, NEW i \in 0 .. n - 1
  PROVE  /\ i \div K \in 0 .. GroupCount(n) - 1
         /\ (i % K) \in 0 .. DataChunksInGroup(i \div K, n) - 1
         /\ i = (i \div K) * K + (i % K)
  <1> DEFINE g == i \div K
             r == (i % K)
             G == GroupCount(n)
             L == LastGroupChunks(n)
  <1>0. K \in Nat \ {0}
    BY LayoutAssumption DEF K
  <1>1. g \in Nat /\ r \in 0 .. K - 1 /\ i = g * K + r
    BY <1>0, DivMod
  <1>2. G \in Nat \ {0} /\ L \in 1 .. K /\ n = (G - 1) * K + L
    BY GroupCounts
  <1>3. DataChunksInGroup(g, n) = IF g = G - 1 THEN L ELSE K
    BY DEF DataChunksInGroup, K
  <1> HIDE DEF g, r, G, L
  <1>4. g * K \in Nat /\ (G - 1) * K \in Nat
    BY <1>0, <1>1, <1>2, SMT
  <1>5. G - 1 < g => (G - 1) * K + K <= g * K
    BY <1>0, <1>1, <1>2, ProductGap, SMT
  <1>6. g \in 0 .. G - 1
    BY <1>0, <1>1, <1>2, <1>4, <1>5, SMT
  <1>7. g = G - 1 => r \in 0 .. L - 1
    BY <1>0, <1>1, <1>2, <1>4, SMT
  <1>8. r \in 0 .. DataChunksInGroup(g, n) - 1
    BY <1>1, <1>3, <1>7
  <1> QED
    BY <1>1, <1>6, <1>8 DEF g, r, G

\* and place r of group g is a chunk of the vault
LEMMA GroupChunk ==
  ASSUME NEW n \in Nat \ {0}, NEW g \in 0 .. GroupCount(n) - 1,
         NEW r \in 0 .. DataChunksInGroup(g, n) - 1
  PROVE  /\ g * K + r \in 0 .. n - 1
         /\ (g * K + r) \div K = g
         /\ ((g * K + r) % K) = r
  <1> DEFINE G == GroupCount(n)
             L == LastGroupChunks(n)
             i == g * K + r
  <1>0. K \in Nat \ {0}
    BY LayoutAssumption DEF K
  <1>1. G \in Nat \ {0} /\ L \in 1 .. K /\ n = (G - 1) * K + L
    BY GroupCounts
  <1>2. DataChunksInGroup(g, n) = IF g = G - 1 THEN L ELSE K
    BY DEF DataChunksInGroup, K
  <1>3. g \in 0 .. G - 1
    OBVIOUS
  <1> HIDE DEF G, L
  <1>4. g * K \in Nat /\ (G - 1) * K \in Nat
    BY <1>0, <1>1, <1>3, SMT
  <1>5. g < G - 1 => g * K + K <= (G - 1) * K
    BY <1>0, <1>1, <1>3, ProductGap, SMT
  <1>6. r \in 0 .. K - 1 /\ (g = G - 1 => r \in 0 .. L - 1)
    BY <1>1, <1>2, <1>0
  <1>7. i \in 0 .. n - 1
    BY <1>0, <1>1, <1>3, <1>4, <1>5, <1>6, SMT
  <1>8. i \in Nat /\ i = g * K + r
    BY <1>7
  <1> HIDE DEF i
  <1>9. i \div K \in Nat /\ (i % K) \in 0 .. K - 1 /\ i = (i \div K) * K + (i % K)
    BY <1>0, <1>8, DivMod
  <1>10. i \div K = g /\ (i % K) = r
    BY <1>0, <1>3, <1>6, <1>8, <1>9, SameRow
  <1> QED
    BY <1>7, <1>10 DEF i

-----------------------------------------------------------------------------
(* Where a blob is: its group, and its slot in the group.                  *)

BlobGroup(b) == IF b[1] = "data" THEN b[2] \div K ELSE b[2]

BlobSlot(s, n, b) ==
    IF b[1] = "data"
    THEN DataSlot(s, b[2] % K)
    ELSE ParitySlot(s, DataChunksInGroup(b[2], n), b[3])

\* a blob is one of the two kinds
LEMMA BlobKinds ==
  ASSUME NEW s, NEW n, NEW b \in Blobs(s, n)
  PROVE  \/ \E i \in 0 .. n - 1 : b = <<"data", i>>
         \/ \E g \in 0 .. GroupCount(n) - 1 : \E q \in 0 .. GroupParity(s, g, n) - 1 :
              b = <<"parity", g, q>>
  BY DEF Blobs, DataBlobs, ParityBlobs

\* the data of a group takes slots of the group, one per chunk
LEMMA DataSlots ==
  ASSUME NEW s \in LayoutSpecs, NEW n \in Nat \ {0}, NEW i \in 0 .. n - 1
  PROVE  /\ DataBlobOffset(s, i) = (i \div K) * groupSpan(s) + DataSlot(s, i % K)
         /\ DataSlot(s, i % K) \in 0 .. GroupSize(s, i \div K, n) - 1
  <1> DEFINE g == i \div K
             r == (i % K)
             k == DataChunksInGroup(g, n)
  <1>1. g \in 0 .. GroupCount(n) - 1 /\ r \in 0 .. k - 1
    BY ChunkInGroup
  <1>2. k \in 1 .. K /\ K \in Nat
    BY <1>1, GroupBounds, LayoutAssumption DEF K
  <1>3. g * groupSpan(s) \in Nat
    BY <1>1, GroupBounds, GroupCounts, SMT
  <1>4. DataBlobOffset(s, i)
          = g * groupSpan(s) + (IF s.Version >= 3 THEN 0 ELSE P) + r
    BY DEF DataBlobOffset, K, P
  <1>5. GroupSize(s, g, n) = k + GroupParity(s, g, n)
    BY DEF GroupSize
  <1>6. /\ s.Version \in {2, 3}
        /\ GroupParity(s, g, n) \in Nat
        /\ s.Version < 3 => GroupParity(s, g, n) = P
        /\ P \in Nat
    BY <1>1, GroupBounds, LayoutAssumption, SMT
    DEF LayoutSpecs, SpecV2, SpecV3, GroupParity, ParityCountFor, P
  <1> HIDE DEF g, r, k
  <1>7. DataBlobOffset(s, i) = g * groupSpan(s) + DataSlot(s, r)
    BY <1>1, <1>2, <1>3, <1>4, <1>6 DEF DataSlot
  <1>8. DataSlot(s, r) \in 0 .. GroupSize(s, g, n) - 1
    BY <1>1, <1>2, <1>5, <1>6 DEF DataSlot
  <1> QED
    BY <1>7, <1>8 DEF g, r

\* and so does its parity
LEMMA ParitySlots ==
  ASSUME NEW s \in LayoutSpecs, NEW n \in Nat \ {0},
         NEW g \in 0 .. GroupCount(n) - 1, NEW q \in 0 .. GroupParity(s, g, n) - 1
  PROVE  LET k == DataChunksInGroup(g, n)
         IN  /\ ParityBlobOffset(s, g, k, q)
                  = g * groupSpan(s) + ParitySlot(s, k, q)
             /\ ParitySlot(s, k, q) \in 0 .. GroupSize(s, g, n) - 1
  <1> DEFINE k == DataChunksInGroup(g, n)
  <1>1. k \in 1 .. K /\ K \in Nat /\ GroupParity(s, g, n) \in Nat
    BY GroupBounds, LayoutAssumption DEF K
  <1>2. g * groupSpan(s) \in Nat
    BY GroupBounds, GroupCounts, SMT
  <1>3. ParityBlobOffset(s, g, k, q)
          = g * groupSpan(s) + (IF s.Version >= 3 THEN k ELSE 0) + q
    BY DEF ParityBlobOffset
  <1>4. GroupSize(s, g, n) = k + GroupParity(s, g, n)
    BY DEF GroupSize
  <1> HIDE DEF k
  <1>5. ParityBlobOffset(s, g, k, q) = g * groupSpan(s) + ParitySlot(s, k, q)
    BY <1>1, <1>2, <1>3 DEF ParitySlot
  <1>6. ParitySlot(s, k, q) \in 0 .. GroupSize(s, g, n) - 1
    BY <1>1, <1>4 DEF ParitySlot
  <1> QED
    BY <1>5, <1>6 DEF k

\* the offset of a blob is its slot in the row of its group
LEMMA BlobPlace ==
  ASSUME NEW s \in LayoutSpecs, NEW n \in Nat \ {0}, NEW b \in Blobs(s, n)
  PROVE  /\ BlobGroup(b) \in 0 .. GroupCount(n) - 1
         /\ BlobSlot(s, n, b) \in 0 .. GroupSize(s, BlobGroup(b), n) - 1
         /\ BlobOffset(s, n, b) = BlobGroup(b) * groupSpan(s) + BlobSlot(s, n, b)
  <1>1. CASE \E i \in 0 .. n - 1 : b = <<"data", i>>
    <2>1. PICK i \in 0 .. n - 1 : b = <<"data", i>>
      BY <1>1
    <2>2. /\ BlobGroup(b) = i \div K
          /\ BlobSlot(s, n, b) = DataSlot(s, i % K)
          /\ BlobOffset(s, n, b) = DataBlobOffset(s, i)
      BY <2>1 DEF BlobGroup, BlobSlot, BlobOffset
    <2> QED
      BY <2>2, ChunkInGroup, DataSlots
  <1>2. CASE \E g \in 0 .. GroupCount(n) - 1 : \E q \in 0 .. GroupParity(s, g, n) - 1 :
               b = <<"parity", g, q>>
    <2>0. PICK g \in 0 .. GroupCount(n) - 1 : \E q \in 0 .. GroupParity(s, g, n) - 1 :
                 b = <<"parity", g, q>>
      BY <1>2
    <2>1. PICK q \in 0 .. GroupParity(s, g, n) - 1 : b = <<"parity", g, q>>
      BY <2>0
    <2>2. /\ BlobGroup(b) = g
          /\ BlobSlot(s, n, b) = ParitySlot(s, DataChunksInGroup(g, n), q)
          /\ BlobOffset(s, n, b) = ParityBlobOffset(s, g, DataChunksInGroup(g, n), q)
      BY <2>1 DEF BlobGroup, BlobSlot, BlobOffset
    <2> QED
      BY <2>2, ParitySlots
  <1> QED
    BY <1>1, <1>2, BlobKinds

\* a slot of a group holds one blob
LEMMA OneBlobPerSlot ==
  ASSUME NEW s \in LayoutSpecs, NEW n \in Nat \ {0},
         NEW b \in Blobs(s, n), NEW c \in Blobs(s, n),
         BlobGroup(b) = BlobGroup(c), BlobSlot(s, n, b) = BlobSlot(s, n, c)
  PROVE  b = c
  <1> DEFINE k(g) == DataChunksInGroup(g, n)
             IsData(x, i) == i \in 0 .. n - 1 /\ x = <<"data", i>>
             IsParity(x, g, q) == /\ g \in 0 .. GroupCount(n) - 1
                                  /\ q \in 0 .. GroupParity(s, g, n) - 1
                                  /\ x = <<"parity", g, q>>
  <1>1. ASSUME NEW x \in Blobs(s, n), NEW i, IsData(x, i)
        PROVE  /\ BlobGroup(x) = i \div K
               /\ BlobSlot(s, n, x) = DataSlot(s, i % K)
               /\ (i % K) \in 0 .. k(i \div K) - 1
               /\ i = (i \div K) * K + (i % K)
    BY <1>1, ChunkInGroup DEF BlobGroup, BlobSlot
  <1>2. ASSUME NEW x \in Blobs(s, n), NEW g, NEW q, IsParity(x, g, q)
        PROVE  /\ BlobGroup(x) = g
               /\ BlobSlot(s, n, x) = ParitySlot(s, k(g), q)
               /\ q \in 0 .. GroupParity(s, g, n) - 1
               /\ k(g) \in Nat
    BY <1>2, GroupBounds, SMT DEF BlobGroup, BlobSlot
  <1>3. ASSUME NEW g \in 0 .. GroupCount(n) - 1
        PROVE  /\ GroupParity(s, g, n) \in Nat
               /\ s.Version < 3 => GroupParity(s, g, n) = P
               /\ s.Version \in {2, 3} /\ P \in Nat
    BY GroupBounds, LayoutAssumption
    DEF LayoutSpecs, SpecV2, SpecV3, GroupParity, ParityCountFor, P
  <1>4. ASSUME NEW i, NEW j, IsData(b, i), IsData(c, j) PROVE b = c
    <2>1. i \div K = j \div K
      BY <1>1, <1>4
    <2>2. DataSlot(s, i % K) = DataSlot(s, j % K)
      BY <1>1, <1>4
    <2>3. (i % K) \in Nat /\ (j % K) \in Nat
      BY <1>4, DivMod, LayoutAssumption DEF K
    <2>4. (i % K) = (j % K)
      BY <2>2, <2>3, LayoutAssumption, SMT DEF DataSlot, P
    <2>5. i = (i \div K) * K + (i % K) /\ j = (j \div K) * K + (j % K)
      BY <1>1, <1>4
    <2>6. i = j
      BY <2>1, <2>4, <2>5, Zenon
    <2> QED
      BY <1>4, <2>6
  <1>5. ASSUME NEW x \in Blobs(s, n), NEW y \in Blobs(s, n), NEW i, NEW g, NEW q,
               IsData(x, i), IsParity(y, g, q), BlobGroup(x) = BlobGroup(y)
        PROVE  BlobSlot(s, n, x) # BlobSlot(s, n, y)
    <2>1. i \div K = g
      BY <1>1, <1>2, <1>5
    <2>2. (i % K) \in 0 .. k(g) - 1 /\ BlobSlot(s, n, x) = DataSlot(s, i % K)
      BY <1>1, <1>5, <2>1
    <2>3. /\ BlobSlot(s, n, y) = ParitySlot(s, k(g), q) /\ k(g) \in Nat
          /\ q \in 0 .. GroupParity(s, g, n) - 1 /\ g \in 0 .. GroupCount(n) - 1
      BY <1>2, <1>5
    <2> HIDE DEF k
    <2> DEFINE r == (i % K)
    <2>4. r \in 0 .. k(g) - 1
      BY <2>2
    <2> HIDE DEF r
    <2>5. DataSlot(s, r) # ParitySlot(s, k(g), q)
      BY <2>3, <2>4, <1>3 DEF DataSlot, ParitySlot
    <2> QED
      BY <2>2, <2>3, <2>5 DEF r
  <1>6. ASSUME NEW g, NEW q, NEW h, NEW t, IsParity(b, g, q), IsParity(c, h, t)
        PROVE  b = c
    <2>1. g = h
      BY <1>2, <1>6
    <2>2. /\ ParitySlot(s, k(g), q) = ParitySlot(s, k(g), t)
          /\ k(g) \in Nat /\ q \in 0 .. GroupParity(s, g, n) - 1
          /\ t \in 0 .. GroupParity(s, g, n) - 1
      BY <1>2, <1>6, <2>1
    <2> HIDE DEF k
    <2>3. q = t
      BY <2>2, SMT DEF ParitySlot
    <2> QED
      BY <1>6, <2>1, <2>3
  <1>7. ASSUME NEW x \in Blobs(s, n)
        PROVE  (\E i : IsData(x, i)) \/ (\E g, q : IsParity(x, g, q))
    BY BlobKinds
  <1> HIDE DEF IsData, IsParity
  <1> QED
    BY <1>4, <1>5, <1>6, <1>7

\* every slot of a group holds a blob
LEMMA BlobInSlot ==
  ASSUME NEW s \in LayoutSpecs, NEW n \in Nat \ {0},
         NEW g \in 0 .. GroupCount(n) - 1, NEW x \in 0 .. GroupSize(s, g, n) - 1
  PROVE  \E b \in Blobs(s, n) : BlobGroup(b) = g /\ BlobSlot(s, n, b) = x
  <1> DEFINE k == DataChunksInGroup(g, n)
             m == GroupParity(s, g, n)
             d == IF s.Version >= 3 THEN 0 ELSE P
             p == IF s.Version >= 3 THEN k ELSE 0
  <1>1. /\ k \in 1 .. K /\ m \in Nat /\ P \in Nat /\ s.Version \in {2, 3}
        /\ s.Version < 3 => m = P
    BY GroupBounds, LayoutAssumption
    DEF LayoutSpecs, SpecV2, SpecV3, GroupParity, ParityCountFor, P
  <1>2. GroupSize(s, g, n) = k + m
    BY DEF GroupSize
  <1>3. x \in 0 .. (k + m) - 1
    BY <1>1, <1>2, SMT
  <1>4. ASSUME NEW r \in 0 .. k - 1
        PROVE  \E b \in Blobs(s, n) : BlobGroup(b) = g /\ BlobSlot(s, n, b) = d + r
    <2> DEFINE i == g * K + r
               b == <<"data", i>>
    <2>1. i \in 0 .. n - 1 /\ i \div K = g /\ (i % K) = r
      BY GroupChunk
    <2> HIDE DEF i
    <2>2. b \in Blobs(s, n)
      BY <2>1 DEF Blobs, DataBlobs
    <2>3. BlobGroup(b) = g /\ BlobSlot(s, n, b) = DataSlot(s, r)
      BY <2>1 DEF BlobGroup, BlobSlot
    <2>4. DataSlot(s, r) = d + r
      BY DEF DataSlot
    <2> QED
      BY <2>2, <2>3, <2>4
  <1>5. ASSUME NEW q \in 0 .. m - 1
        PROVE  \E b \in Blobs(s, n) : BlobGroup(b) = g /\ BlobSlot(s, n, b) = p + q
    <2> DEFINE b == <<"parity", g, q>>
    <2>1. b \in Blobs(s, n)
      BY DEF Blobs, ParityBlobs
    <2>2. BlobGroup(b) = g /\ BlobSlot(s, n, b) = p + q
      BY DEF BlobGroup, BlobSlot, ParitySlot
    <2> QED
      BY <2>1, <2>2
  <1>6. (\E r \in 0 .. k - 1 : x = d + r) \/ (\E q \in 0 .. m - 1 : x = p + q)
    <2> HIDE DEF k, m
    <2>1. CASE x - d \in 0 .. k - 1
      <3>1. x = d + (x - d)
        BY <1>1, <1>3
      <3> QED
        BY <3>1, <2>1
    <2>2. CASE x - p \in 0 .. m - 1
      <3>1. x = p + (x - p)
        BY <1>1, <1>3
      <3> QED
        BY <3>1, <2>2
    <2> QED
      BY <1>1, <1>3, <2>1, <2>2
  <1> QED
    BY <1>4, <1>5, <1>6

-----------------------------------------------------------------------------
(* Where a blob is: the file.                                              *)

\* the last group ends where the file does
LEMMA FileEnd ==
  ASSUME NEW s \in LayoutSpecs, NEW n \in Nat \ {0}
  PROVE  LET G == GroupCount(n)
         IN  TotalBlobCount(s, n) = (G - 1) * groupSpan(s) + GroupSize(s, G - 1, n)
  <1> DEFINE G == GroupCount(n)
  <1>1. G \in Nat \ {0}
    BY GroupCounts
  <1>2. DataChunksInGroup(G - 1, n) = LastGroupChunks(n)
    BY DEF DataChunksInGroup
  <1>3. /\ LastGroupChunks(n) \in Nat
        /\ ParityCountFor(s, LastGroupChunks(n)) \in Nat
        /\ (G - 1) * groupSpan(s) \in Nat
    BY <1>1, <1>2, GroupBounds, SMT DEF GroupParity
  <1>4. TotalBlobCount(s, n)
          = (G - 1) * groupSpan(s) + LastGroupChunks(n)
              + ParityCountFor(s, LastGroupChunks(n))
    BY DEF TotalBlobCount
  <1>5. GroupSize(s, G - 1, n)
          = LastGroupChunks(n) + ParityCountFor(s, LastGroupChunks(n))
    BY <1>2 DEF GroupSize, GroupParity
  <1> HIDE DEF G
  <1>6. TotalBlobCount(s, n) = (G - 1) * groupSpan(s) + GroupSize(s, G - 1, n)
    BY <1>3, <1>4, <1>5, SMT
  <1> QED
    BY <1>6 DEF G

\* a blob starts before the trailer
LEMMA OffsetInFile ==
  ASSUME NEW s \in LayoutSpecs, NEW n \in Nat \ {0}, NEW b \in Blobs(s, n)
  PROVE  BlobOffset(s, n, b) \in 0 .. TotalBlobCount(s, n) - 1
  <1> DEFINE G == GroupCount(n)
             g == BlobGroup(b)
             x == BlobSlot(s, n, b)
             d == groupSpan(s)
             z(h) == GroupSize(s, h, n)
  <1>1. /\ G \in Nat \ {0} /\ g \in 0 .. G - 1 /\ x \in 0 .. z(g) - 1
        /\ BlobOffset(s, n, b) = g * d + x
    BY GroupCounts, BlobPlace
  <1>2. d \in Nat \ {0} /\ z(g) \in 1 .. d /\ z(G - 1) \in 1 .. d
    BY <1>1, GroupBounds
  <1>3. TotalBlobCount(s, n) = (G - 1) * d + z(G - 1)
    BY FileEnd
  <1> HIDE DEF G, g, x, d, z
  <1>4. g * d \in Nat /\ (G - 1) * d \in Nat
    BY <1>1, <1>2, SMT
  <1>5. CASE g = G - 1
    BY <1>1, <1>2, <1>3, <1>4, <1>5, SMT
  <1>6. CASE g < G - 1
    <2>1. g * d + d <= (G - 1) * d
      BY <1>1, <1>2, <1>6, ProductGap, SMT
    <2> QED
      BY <2>1, <1>1, <1>2, <1>3, <1>4, SMT
  <1> QED
    BY <1>1, <1>5, <1>6, SMT

\* and every place before the trailer is the start of a blob
LEMMA FileCovered ==
  ASSUME NEW s \in LayoutSpecs, NEW n \in Nat \ {0},
         NEW u \in 0 .. TotalBlobCount(s, n) - 1
  PROVE  \E b \in Blobs(s, n) : BlobOffset(s, n, b) = u
  <1> DEFINE G == GroupCount(n)
             d == groupSpan(s)
             g == u \div d
             x == (u % d)
             z(h) == GroupSize(s, h, n)
  <1>1. G \in Nat \ {0}
    BY GroupCounts
  <1>2. d \in Nat \ {0} /\ z(G - 1) \in 1 .. d
    BY <1>1, GroupBounds
  <1>3. TotalBlobCount(s, n) = (G - 1) * d + z(G - 1)
    BY FileEnd
  <1>4. (G - 1) * d \in Nat
    <2> HIDE DEF G, d
    <2> QED
      BY <1>1, <1>2, SMT
  <1>5. u \in Nat /\ u < (G - 1) * d + z(G - 1)
    <2> HIDE DEF G, d, z
    <2> QED
      BY <1>2, <1>3, <1>4, SMT
  <1>6. g \in Nat /\ x \in 0 .. d - 1 /\ u = g * d + x
    <2> HIDE DEF d
    <2> QED
      BY <1>2, <1>5, DivMod
  <1>7. \A h \in 0 .. G - 1 : h # G - 1 => z(h) = d
    BY <1>1, GroupBounds, SMT
  <1>8. g \in 0 .. G - 1 /\ x \in 0 .. z(g) - 1
    <2> HIDE DEF G, d, g, x, z
    <2>1. g * d \in Nat
      BY <1>2, <1>6, SMT
    <2>2. G - 1 < g => (G - 1) * d + d <= g * d
      BY <1>1, <1>2, <1>6, ProductGap, SMT
    <2>3. g \in 0 .. G - 1
      BY <1>1, <1>2, <1>4, <1>5, <1>6, <2>1, <2>2, SMT
    <2>4. g = G - 1 => g * d = (G - 1) * d
      OBVIOUS
    <2>5. g = G - 1 => x \in 0 .. z(G - 1) - 1
      BY <1>2, <1>4, <1>5, <1>6, <2>1, <2>4, SMT
    <2> QED
      BY <1>6, <1>7, <2>3, <2>5
  <1>9. PICK b \in Blobs(s, n) : BlobGroup(b) = g /\ BlobSlot(s, n, b) = x
    BY <1>8, BlobInSlot
  <1>10. BlobOffset(s, n, b) = g * d + x
    BY <1>9, BlobPlace
  <1> QED
    BY <1>6, <1>10

\* no two blobs share an offset
LEMMA OffsetsDiffer ==
  ASSUME NEW s \in LayoutSpecs, NEW n \in Nat \ {0},
         NEW b \in Blobs(s, n), NEW c \in Blobs(s, n),
         BlobOffset(s, n, b) = BlobOffset(s, n, c)
  PROVE  b = c
  <1> DEFINE d == groupSpan(s)
             g(x) == BlobGroup(x)
             p(x) == BlobSlot(s, n, x)
  <1>1. /\ g(b) \in Nat /\ g(c) \in Nat /\ d \in Nat
        /\ p(b) \in 0 .. d - 1 /\ p(c) \in 0 .. d - 1
    <2>1. ASSUME NEW x \in Blobs(s, n)
          PROVE  g(x) \in Nat /\ d \in Nat /\ p(x) \in 0 .. d - 1
      <3>1. /\ g(x) \in 0 .. GroupCount(n) - 1
            /\ p(x) \in 0 .. GroupSize(s, g(x), n) - 1
        BY BlobPlace
      <3>2. d \in Nat /\ GroupSize(s, g(x), n) \in 1 .. d
        BY <3>1, GroupBounds
      <3> HIDE DEF g, p, d
      <3> QED
        BY <3>1, <3>2, SMT
    <2> QED
      BY <2>1
  <1>2. g(b) * d + p(b) = g(c) * d + p(c)
    BY BlobPlace
  <1>3. g(b) = g(c) /\ p(b) = p(c)
    <2> HIDE DEF g, p, d
    <2> QED
      BY <1>1, <1>2, SameRow
  <1> QED
    BY <1>3, OneBlobPerSlot

\* a group that was full before a chunk was added keeps its blobs
LEMMA FullGroup ==
  ASSUME NEW n \in Nat, NEW g \in Nat, NEW c \in Nat \ {0},
         g < GroupCount(c), (g + 1) * K <= n, n <= c
  PROVE  DataChunksInGroup(g, c) = K
  <1> DEFINE G == GroupCount(c)
             L == LastGroupChunks(c)
  <1>1. G \in Nat \ {0} /\ L \in 1 .. K /\ c = (G - 1) * K + L
    BY GroupCounts
  <1>2. DataChunksInGroup(g, c) = IF g = G - 1 THEN L ELSE K
    BY DEF DataChunksInGroup, K
  <1> HIDE DEF G, L
  <1>3. K \in Nat \ {0}
    BY LayoutAssumption DEF K
  <1>4. (g + 1) * K = g * K + K /\ g * K \in Nat
    BY <1>3, SMT
  <1>5. ASSUME g = G - 1 PROVE L = K
    <2>1. (G - 1) * K = g * K
      BY <1>5
    <2> QED
      BY <2>1, <1>1, <1>3, <1>4, SMT
  <1> QED
    BY <1>2, <1>5

\* the settled blobs are blobs of the larger vault, at the same offset
LEMMA SettledKeep ==
  ASSUME NEW s \in LayoutSpecs, NEW n \in Nat, NEW b \in SettledBlobs(s, n)
  PROVE  b \in Blobs(s, n + 1) /\ BlobOffset(s, n + 1, b) = BlobOffset(s, n, b)
  <1> DEFINE c == n + 1
  <1>1. CASE b \in DataBlobs(n)
    <2>1. PICK i \in 0 .. n - 1 : b = <<"data", i>>
      BY <1>1 DEF DataBlobs
    <2>2. i \in 0 .. (n + 1) - 1
      BY <2>1
    <2>3. b \in Blobs(s, n + 1)
      BY <2>1, <2>2 DEF Blobs, DataBlobs
    <2> QED
      BY <2>1, <2>3 DEF BlobOffset
  <1>2. CASE b \in ParityBlobs(s, n) /\ (b[2] + 1) * FileGroupChunks <= n
    <2>1. PICK g \in 0 .. GroupCount(n) - 1 : \E q \in 0 .. GroupParity(s, g, n) - 1 :
                 b = <<"parity", g, q>>
      BY <1>2 DEF ParityBlobs
    <2>2. PICK q \in 0 .. GroupParity(s, g, n) - 1 : b = <<"parity", g, q>>
      BY <2>1
    <2>3. (g + 1) * K <= n
      BY <1>2, <2>2 DEF K
    <2>4. n \in Nat \ {0} /\ GroupCount(n) \in Nat
      <3>1. CASE n = 0
        BY <3>1, <2>1 DEF GroupCount
      <3>2. CASE n # 0
        BY <3>2, GroupCounts
      <3> QED
        BY <3>1, <3>2
    <2>5. g \in Nat /\ g < GroupCount(n)
      BY <2>4
    <2>6. DataChunksInGroup(g, n) = K
      BY <2>3, <2>4, <2>5, FullGroup
    <2>7. g < GroupCount(c)
      <3> DEFINE G == GroupCount(c)
                 L == LastGroupChunks(c)
      <3>1. G \in Nat \ {0} /\ L \in 1 .. K /\ n + 1 = (G - 1) * K + L
        BY GroupCounts
      <3>2. K \in Nat \ {0}
        BY LayoutAssumption DEF K
      <3> HIDE DEF G, L
      <3>3. (g + 1) * K = g * K + K /\ g * K \in Nat /\ (G - 1) * K \in Nat
        BY <2>5, <3>1, <3>2, SMT
      <3>4. G - 1 < g => (G - 1) * K + K <= g * K
        BY <2>5, <3>1, <3>2, ProductGap, SMT
      <3>5. ~ (G - 1 < g)
        BY <2>3, <3>1, <3>2, <3>3, <3>4, SMT
      <3>6. g < G
        BY <2>5, <3>1, <3>5, SMT
      <3> QED
        BY <3>6 DEF G
    <2>8. DataChunksInGroup(g, c) = K
      BY <2>3, <2>4, <2>5, <2>7, FullGroup
    <2>9. GroupParity(s, g, c) = GroupParity(s, g, n)
      BY <2>6, <2>8 DEF GroupParity
    <2>10. g \in 0 .. GroupCount(c) - 1
      <3>1. GroupCount(c) \in Nat
        BY <2>4, GroupCounts
      <3> QED
        BY <3>1, <2>5, <2>7
    <2>11. b \in Blobs(s, c)
      BY <2>2, <2>9, <2>10 DEF Blobs, ParityBlobs
    <2>12. BlobOffset(s, c, b) = BlobOffset(s, n, b)
      BY <2>2, <2>6, <2>8 DEF BlobOffset
    <2> QED
      BY <2>11, <2>12
  <1> QED
    BY <1>1, <1>2 DEF SettledBlobs

\* a vault of no chunks is a trailer and nothing else
LEMMA EmptyVault ==
  ASSUME NEW s \in LayoutSpecs
  PROVE  Blobs(s, 0) = {} /\ TotalBlobCount(s, 0) = 0
  BY SMT DEF Blobs, DataBlobs, ParityBlobs, GroupCount, TotalBlobCount

\* offsets are natural numbers
LEMMA OffsetsAreNat ==
  ASSUME NEW s \in LayoutSpecs
  PROVE  /\ \A i \in Nat : DataBlobOffset(s, i) \in Nat
         /\ \A g, k, x \in Nat : ParityBlobOffset(s, g, k, x) \in Nat
         /\ \A n \in Nat : TotalBlobCount(s, n) \in Nat
         /\ \A k \in Nat : ParityCountFor(s, k) \in Nat
  <1>1. groupSpan(s) \in Nat /\ P \in Nat /\ K \in Nat \ {0}
    BY LayoutAssumption
    DEF K, P, LayoutSpecs, SpecV2, SpecV3, groupSpan, BlobsPerFullGroup
  <1>2. ASSUME NEW g \in Nat PROVE g * groupSpan(s) \in Nat
    BY <1>1, SMT
  <1>3. ASSUME NEW i \in Nat PROVE DataBlobOffset(s, i) \in Nat
    <2>1. i \div K \in Nat /\ (i % K) \in 0 .. K - 1
      BY <1>1, DivMod
    <2>2. (i \div K) * groupSpan(s) \in Nat
      BY <2>1, <1>2
    <2> QED
      BY <2>1, <2>2, <1>1 DEF DataBlobOffset, K, P
  <1>4. ASSUME NEW g \in Nat, NEW k \in Nat, NEW x \in Nat
        PROVE  ParityBlobOffset(s, g, k, x) \in Nat
    BY <1>2 DEF ParityBlobOffset
  <1>5. ASSUME NEW k \in Nat PROVE ParityCountFor(s, k) \in Nat
    BY LayoutAssumption
    DEF ParityCountFor, Lesser, LayoutSpecs, SpecV2, SpecV3
  <1>6. ASSUME NEW n \in Nat PROVE TotalBlobCount(s, n) \in Nat
    <2>1. CASE n = 0
      BY <2>1, EmptyVault
    <2>2. CASE n # 0
      <3>1. /\ GroupCount(n) - 1 \in Nat
            /\ GroupSize(s, GroupCount(n) - 1, n) \in Nat
        BY <2>2, GroupCounts, GroupBounds, SMT
      <3>2. (GroupCount(n) - 1) * groupSpan(s) \in Nat
        BY <3>1, <1>2
      <3> QED
        BY <2>2, <3>1, <3>2, FileEnd, SMT
    <2> QED
      BY <2>1, <2>2
  <1> QED
    BY <1>3, <1>4, <1>5, <1>6
=============================================================================
