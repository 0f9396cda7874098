---------------------------- MODULE VaultProofs ----------------------------
(***************************************************************************)
(* The file.  As long as no two seekWrites overlap, the vault is complete  *)
(* when Close returns nil, whatever the workers and the two loops do and   *)
(* however many groups there are.  With one group they cannot overlap:     *)
(* parityLoop writes only when writeLoop has written its last blob.  (With *)
(* a second group they can, and then the vault may be damaged: this is the *)
(* run that expects a violation.)                                          *)
(***************************************************************************)
EXTENDS HandoverProofs, PipelineApart

-----------------------------------------------------------------------------
\* nothing has failed
Calm == ~ err /\ cpc # "failed"

\* parityLoop's counters
ParityPlace ==
    /\ ~ Flushing => win = 0
    /\ Flushing => win < Windows
    /\ ppc \in {"seek", "write"} => q < ParityCountFor(spec, flush.kData)

\* the place of window w of blob b, and of the trailer
Place(b, w) == BlobOffset(spec, chunkIdx, b) * Windows + w
End == TotalBlobCount(spec, chunkIdx) * Windows

\* who has called Seek finds the file position where it put it
PosInv ==
    /\ lpc = "write" => pos = DataBlobOffset(spec, cur.idx) * Windows + 0
    /\ ppc = "write" =>
         pos = ParityBlobOffset(spec, flush.g, flush.kData, q) * Windows + win
    /\ cpc = "writeTrailer" => pos = End

(* Window w of blob b has been written, and what it must hold.  parityLoop *)
(* has written the groups before the one it saw the flush of last, and of  *)
(* that one as much as its counters say.                                   *)
Written(b, w) ==
    IF b[1] = "data" THEN b[2] < Counted
    ELSE /\ flush.kData > 0
         /\ \/ b[2] < flush.g
            \/ /\ b[2] = flush.g
               /\ Flushing => w < win \/ (w = win /\ ppc # "encode" /\ b[3] < q)

UnitOf(b, w) ==
    IF b[1] = "data" THEN DataUnit(b[2], w)
    ELSE ParityUnit([i \in 1 .. DataChunksInGroup(b[2], chunkIdx) |-> Start(b[2]) + i - 1],
                    b[3], w)

OnDisk ==
    \A b \in Blobs(spec, chunkIdx), w \in 0 .. Windows - 1 : Written(b, w) =>
      Place(b, w) \in DOMAIN disk /\ disk[Place(b, w)] = UnitOf(b, w)

NothingElse ==
    \A u \in DOMAIN disk :
      \/ \E b \in Blobs(spec, chunkIdx), w \in 0 .. Windows - 1 :
           Written(b, w) /\ u = Place(b, w)
      \/ cpc = "committed" /\ u = End

TrailerOnDisk ==
    cpc = "committed" => End \in DOMAIN disk /\ disk[End] = TrailerUnit(chunkIdx, plainSize)

FileParts ==
    /\ disk = [u \in DOMAIN disk |-> disk[u]]
    /\ OnDisk /\ NothingElse /\ TrailerOnDisk

DiskInv == ParityPlace /\ (Calm => PosInv /\ FileParts)

\* what has been proved of the pipeline
HandoverInv == CommitInv /\ PlaceInv /\ OwnInv /\ StreamInv /\ GroupInv

-----------------------------------------------------------------------------
(* The places of a file.                                                   *)

\* groups follow each other, in the file and in the line to parityLoop
LEMMA RowsApart ==
  ASSUME NEW a \in Nat, NEW b \in Nat, a < b
  PROVE  Start(a) + K <= Start(b) /\ Row(a) + (K + 1) <= Row(b)
  <1>1. K \in Nat /\ K + 1 \in Nat
    BY Rows
  <1>2. a * K + K <= b * K /\ a * (K + 1) + (K + 1) <= b * (K + 1)
    BY <1>1, ProductGap
  <1> QED
    BY <1>2 DEF Start, Row

\* a full group, or a short one at the end, is the group of a vault of n chunks
LEMMA GroupHolds ==
  ASSUME NEW n \in Nat, NEW g \in Nat, NEW k \in 1 .. K,
         (k = K /\ Start(g) + K <= n) \/ Start(g) + k = n
  PROVE  /\ n \in Nat \ {0} /\ g \in 0 .. GroupCount(n) - 1
         /\ DataChunksInGroup(g, n) = k
         /\ Start(g) + k = n => g = GroupCount(n) - 1
  <1> DEFINE G == GroupCount(n)
             L == LastGroupChunks(n)
  <1>1. K \in Nat \ {0} /\ Start(g) \in Nat
    BY Rows
  <1>2. n \in Nat \ {0}
    BY <1>1
  <1>3. G \in Nat \ {0} /\ L \in 1 .. K /\ n = Start(G - 1) + L
    BY <1>2, GroupCounts DEF Start
  <1>4. /\ DataChunksInGroup(g, n) = IF g = G - 1 THEN L ELSE K
    BY DEF DataChunksInGroup, K
  <1> HIDE DEF G, L
  <1>5. G - 1 \in Nat /\ Start(G - 1) \in Nat
    BY <1>3, Rows
  <1>6. CASE Start(g) + k = n
    <2>1. g * K + (k - 1) = (G - 1) * K + (L - 1)
      <3>1. Start(g) + k = Start(G - 1) + L
        BY <1>3, <1>6
      <3>2. Start(g) + (k - 1) = Start(G - 1) + (L - 1)
        BY <1>1, <1>3, <1>5, <3>1
      <3> QED
        BY <3>2 DEF Start
    <2>2. k - 1 \in 0 .. K - 1 /\ L - 1 \in 0 .. K - 1
      BY <1>1, <1>3
    <2>3. g = G - 1 /\ k - 1 = L - 1
      BY <1>1, <1>5, <2>1, <2>2, SameRow
    <2>4. k = L
      BY <1>1, <1>3, <2>3
    <2> QED
      BY <1>2, <1>3, <1>4, <2>3, <2>4 DEF G
  <1>7. CASE k = K /\ Start(g) + K <= n
    <2>1. g <= G - 1
      <3>1. SUFFICES ASSUME G - 1 < g PROVE FALSE
        BY <1>5
      <3>2. Start(G - 1) + K <= Start(g)
        BY <1>5, <3>1, RowsApart
      <3> QED
        BY <1>1, <1>3, <1>5, <1>7, <3>2
    <2>2. g = G - 1 => L = K
      BY <1>1, <1>3, <1>5, <1>7
    <2>3. DataChunksInGroup(g, n) = k
      BY <1>4, <1>7, <2>2
    <2>4. g \in 0 .. G - 1
      BY <1>5, <2>1
    <2>5. Start(g) + k = n => g = G - 1
      <3>1. SUFFICES ASSUME Start(g) + K = n, g < G - 1 PROVE FALSE
        BY <1>5, <1>7, <2>1
      <3>2. Start(g) + K <= Start(G - 1)
        BY <1>5, <3>1, RowsApart
      <3> QED
        BY <1>1, <1>3, <1>5, <3>1, <3>2
    <2> QED
      BY <1>2, <2>3, <2>4, <2>5 DEF G
  <1> QED
    BY <1>6, <1>7

\* the blobs of a vault
LEMMA VaultBlobs ==
  ASSUME NEW s, NEW n
  PROVE  /\ \A b \in Blobs(s, n) :
              \/ b[1] = "data" /\ \E i \in 0 .. n - 1 : b = <<"data", i>>
              \/ /\ b[1] # "data"
                 /\ \E g \in 0 .. GroupCount(n) - 1 :
                      \E x \in 0 .. GroupParity(s, g, n) - 1 : b = <<"parity", g, x>>
         /\ \A i \in 0 .. n - 1 : <<"data", i>> \in Blobs(s, n)
         /\ \A g \in 0 .. GroupCount(n) - 1 : \A x \in 0 .. GroupParity(s, g, n) - 1 :
              <<"parity", g, x>> \in Blobs(s, n)
  <1>1. ASSUME NEW b \in Blobs(s, n)
        PROVE  \/ b[1] = "data" /\ \E i \in 0 .. n - 1 : b = <<"data", i>>
               \/ /\ b[1] # "data"
                  /\ \E g \in 0 .. GroupCount(n) - 1 :
                       \E x \in 0 .. GroupParity(s, g, n) - 1 : b = <<"parity", g, x>>
    <2>1. CASE \E i \in 0 .. n - 1 : b = <<"data", i>>
      BY <2>1
    <2>2. CASE \E g \in 0 .. GroupCount(n) - 1 :
                 \E x \in 0 .. GroupParity(s, g, n) - 1 : b = <<"parity", g, x>>
      BY <2>2
    <2> QED
      BY <2>1, <2>2, BlobKinds
  <1>2. \A i \in 0 .. n - 1 : <<"data", i>> \in Blobs(s, n)
    BY DEF Blobs, DataBlobs
  <1>3. ASSUME NEW g \in 0 .. GroupCount(n) - 1, NEW x \in 0 .. GroupParity(s, g, n) - 1
        PROVE  <<"parity", g, x>> \in Blobs(s, n)
    <2>1. <<"parity", g, x>> \in {<<"parity", g, y>> : y \in 0 .. GroupParity(s, g, n) - 1}
      OBVIOUS
    <2>2. <<"parity", g, x>> \in ParityBlobs(s, n)
      BY <2>1, Zenon DEF ParityBlobs
    <2> QED
      BY <2>2 DEF Blobs
  <1> QED
    BY <1>1, <1>2, <1>3

\* no two windows of a vault share a place, and each comes before the trailer
LEMMA PlacesDiffer ==
  ASSUME NEW s \in LayoutSpecs, NEW n \in Nat \ {0},
         NEW b \in Blobs(s, n), NEW v \in 0 .. Windows - 1
  PROVE  /\ BlobOffset(s, n, b) \in Nat
         /\ BlobOffset(s, n, b) * Windows + v \in 0 .. TotalBlobCount(s, n) * Windows - 1
         /\ \A c \in Blobs(s, n), w \in 0 .. Windows - 1 :
              BlobOffset(s, n, b) * Windows + v = BlobOffset(s, n, c) * Windows + w
                => b = c /\ v = w
  <1> DEFINE o(x) == BlobOffset(s, n, x)
             T == TotalBlobCount(s, n)
  <1>0. Windows \in Nat \ {0}
    BY PipelineAssumption
  <1>1. \A x \in Blobs(s, n) : o(x) \in 0 .. T - 1
    BY OffsetInFile
  <1>2. T \in Nat
    BY OffsetsAreNat
  <1>3. ASSUME NEW c \in Blobs(s, n), NEW w \in 0 .. Windows - 1,
               o(b) * Windows + v = o(c) * Windows + w
        PROVE  b = c /\ v = w
    <2>1. o(b) \in Nat /\ o(c) \in Nat
      BY <1>1, <1>2
    <2>2. o(b) = o(c) /\ v = w
      <3> HIDE DEF o
      <3> QED
        BY <1>0, <1>3, <2>1, SameRow
    <2> QED
      BY <2>2, OffsetsDiffer
  <1>4. o(b) * Windows + v \in 0 .. T * Windows - 1
    <2>1. o(b) \in Nat /\ o(b) < T
      BY <1>1, <1>2
    <2> HIDE DEF o, T
    <2>2. o(b) * Windows + Windows <= T * Windows
      BY <1>0, <1>2, <2>1, ProductGap
    <2>3. o(b) * Windows \in Nat /\ T * Windows \in Nat
      BY <1>0, <1>2, <2>1, SMT
    <2> QED
      BY <1>0, <2>2, <2>3
  <1>5. o(b) \in Nat
    BY <1>1, <1>2
  <1> QED
    BY <1>3, <1>4, <1>5

\* what a write leaves in the file
LEMMA WriteLeaves ==
  ASSUME NEW block, Len(block) \in Nat, pos \in Nat, WriteBlock(block)
  PROVE  /\ disk' = [u \in DOMAIN disk' |-> disk'[u]]
         /\ DOMAIN disk' = DOMAIN disk \cup (pos .. pos + Len(block) - 1)
         /\ \A k \in 0 .. Len(block) - 1 : disk'[pos + k] = block[k + 1]
         /\ \A u \in DOMAIN disk : u \notin pos .. pos + Len(block) - 1 => disk'[u] = disk[u]
  <1> DEFINE D == DOMAIN disk \cup (pos .. pos + Len(block) - 1)
             f(u) == IF u \in pos .. pos + Len(block) - 1 THEN block[u - pos + 1] ELSE disk[u]
  <1>1. disk' = [u \in D |-> f(u)]
    BY DEF WriteBlock, Overlay
  <1>2. \A k \in 0 .. Len(block) - 1 :
          pos + k \in pos .. pos + Len(block) - 1 /\ (pos + k) - pos + 1 = k + 1
    OBVIOUS
  <1>3. \A k \in 0 .. Len(block) - 1 : f(pos + k) = block[k + 1]
    BY <1>2, Zenon
  <1>4. \A k \in 0 .. Len(block) - 1 : pos + k \in D
    BY <1>2
  <1> HIDE DEF f, D
  <1>5. DOMAIN disk' = D /\ \A u \in D : disk'[u] = f(u)
    BY <1>1
  <1>6. disk' = [u \in DOMAIN disk' |-> disk'[u]]
    BY <1>1
  <1> QED
    BY <1>3, <1>4, <1>5, <1>6 DEF D, f

-----------------------------------------------------------------------------
(* The groups that have been flushed.                                      *)

(* The flush parityLoop saw last is that of a full group, or it is the     *)
(* last of all; writeLoop has written all of its chunks.                   *)
LEMMA FlushCovers ==
  ASSUME CommitInv, PlaceInv, StreamInv, GroupInv, ~ err, flush.kData > 0
  PROVE  /\ flush.g \in Nat /\ flush.kData \in 1 .. K
         /\ Start(flush.g) + flush.kData <= Counted
         /\ flush.kData = K \/ (FlushedLast /\ Start(flush.g) + flush.kData = chunkIdx)
         /\ FlushedLast /\ flush = LastMsg => Start(flush.g) + flush.kData = chunkIdx
  <1>1. /\ NextGroup = flush.g + 1 /\ flush.g \in Nat /\ flush.kData \in Nat
        /\ NextGroup \in Nat
    BY StreamTypes DEF NextGroup, ParityMsg
  <1>2. /\ Received \in Nat /\ Len(parCh) \in Nat /\ Base = Row(NextGroup) + Received
    BY StreamTypes DEF Base
  <1>3. groupsDone \in Nat /\ groupChunks \in 0 .. K /\ finalKData \in 0 .. K
    BY StreamTypes
  <1>4. next \in Nat /\ chunkIdx \in Nat /\ Counted \in Nat /\ Counted <= chunkIdx
    BY DEF CommitInv, TypeInv, CallerTypeOK, LoopInv, LoopTypeOK, CountInv, Counted
  <1>5. Counted = Start(groupsDone) + groupChunks
    BY DEF GroupInv, GroupParts, CountedInGroups
  <1>6. /\ K \in Nat \ {0} /\ Start(groupsDone) \in Nat /\ Row(groupsDone) \in Nat
        /\ Start(flush.g) \in Nat /\ Start(NextGroup) = Start(flush.g) + K
        /\ Row(NextGroup) \in Nat
    BY <1>1, <1>3, Rows
  <1>7. flush.kData <= K /\ (flush.kData < K => FlushedLast /\ flush = LastMsg)
    BY DEF StreamInv, FlushShape
  <1>8. ASSUME FlushedLast
        PROVE  /\ next = chunkIdx /\ finalGroup = groupsDone /\ finalKData = groupChunks
               /\ groupChunks < K /\ Counted = chunkIdx
    <2>1. lpc = "done"
      BY <1>8 DEF FlushedLast, CommitInv, OrderInv
    <2>2. groupChunks # K /\ finalGroup = groupsDone /\ finalKData = groupChunks
      BY <2>1 DEF StreamInv, LoopShape
    <2>3. next = chunkIdx /\ Counted = chunkIdx
      BY <2>1 DEF PlaceInv, AllTaken, Counted
    <2> QED
      BY <1>3, <1>6, <2>2, <2>3
  <1>9. FlushedLast /\ flush = LastMsg =>
          flush.g = groupsDone /\ flush.kData = groupChunks /\ Counted = chunkIdx
                               /\ groupChunks < K
    BY <1>8 DEF LastMsg, FlushMsg
  <1>10. ASSUME Row(NextGroup) <= Row(groupsDone) + K PROVE Start(flush.g) + K <= Counted
    <2>1. NextGroup <= groupsDone
      <3>1. SUFFICES ASSUME groupsDone < NextGroup PROVE FALSE
        BY <1>1, <1>3
      <3>2. Row(groupsDone) + (K + 1) <= Row(NextGroup)
        BY <1>1, <1>3, <3>1, RowsApart
      <3> QED
        BY <1>6, <1>10, <3>2
    <2>2. Start(NextGroup) <= Start(groupsDone)
      <3>1. NextGroup < groupsDone => Start(NextGroup) + K <= Start(groupsDone)
        BY <1>1, <1>3, RowsApart
      <3> QED
        BY <1>1, <1>3, <1>6, <2>1, <3>1
    <2> QED
      BY <1>3, <1>5, <1>6, <2>2
  <1>11. ASSUME ~ (FlushedLast /\ flush = LastMsg)
         PROVE  flush.kData = K /\ Start(flush.g) + K <= Counted
    <2>1. flush.kData = K
      BY <1>1, <1>6, <1>7, <1>11
    <2>2. CASE ~ FlushedLast
      <3>1. Base + Len(parCh) = Row(groupsDone) + Sent
        BY <2>2 DEF StreamInv, Ended, Total
      <3>2. Sent \in Int /\ Sent <= K
        BY <1>3, <1>6 DEF Sent
      <3>3. Row(NextGroup) <= Row(groupsDone) + K
        BY <1>2, <1>6, <3>1, <3>2
      <3> QED
        BY <1>10, <2>1, <3>3
    <2>3. CASE FlushedLast
      <3>1. Len(parCh) > 0 /\ Base + Len(parCh) = Row(groupsDone) + finalKData + 1
        BY <1>11, <2>3 DEF StreamInv, Ended
      <3>2. finalKData < K
        BY <1>8, <2>3
      <3>3. Row(NextGroup) <= Row(groupsDone) + K
        BY <1>2, <1>3, <1>6, <3>1, <3>2
      <3> QED
        BY <1>10, <2>1, <3>3
    <2> QED
      BY <2>2, <2>3
  <1>12. flush.kData \in 1 .. K
    BY <1>1, <1>6, <1>7
  <1>13. CASE FlushedLast /\ flush = LastMsg
    BY <1>1, <1>4, <1>5, <1>9, <1>12, <1>13
  <1>14. CASE ~ (FlushedLast /\ flush = LastMsg)
    BY <1>1, <1>11, <1>12, <1>14
  <1> QED
    BY <1>13, <1>14

\* so it is a group of the vault, and its blobs are
LEMMA FlushedGroup ==
  ASSUME CommitInv, PlaceInv, StreamInv, GroupInv, ~ err, flush.kData > 0
  PROVE  /\ chunkIdx \in Nat \ {0} /\ flush.g \in 0 .. GroupCount(chunkIdx) - 1
         /\ DataChunksInGroup(flush.g, chunkIdx) = flush.kData
         /\ GroupParity(spec, flush.g, chunkIdx) = ParityCountFor(spec, flush.kData)
  <1>1. /\ flush.g \in Nat /\ flush.kData \in 1 .. K
        /\ Start(flush.g) + flush.kData <= Counted
        /\ flush.kData = K \/ Start(flush.g) + flush.kData = chunkIdx
    BY FlushCovers
  <1>2. /\ chunkIdx \in Nat /\ Counted \in Nat /\ Counted <= chunkIdx
        /\ Start(flush.g) \in Nat /\ K \in Nat
    <2>1. chunkIdx \in Nat /\ next \in Nat
      BY DEF CommitInv, TypeInv, CallerTypeOK, LoopInv, LoopTypeOK
    <2>2. Counted \in Nat
      BY <2>1 DEF Counted
    <2>3. Counted <= chunkIdx
      BY DEF CommitInv, CountInv
    <2>4. Start(flush.g) \in Nat /\ K \in Nat
      BY <1>1, Rows
    <2> QED
      BY <2>1, <2>2, <2>3, <2>4
  <1>3. (flush.kData = K /\ Start(flush.g) + K <= chunkIdx)
          \/ Start(flush.g) + flush.kData = chunkIdx
    BY <1>1, <1>2
  <1>4. /\ chunkIdx \in Nat \ {0} /\ flush.g \in 0 .. GroupCount(chunkIdx) - 1
        /\ DataChunksInGroup(flush.g, chunkIdx) = flush.kData
    BY <1>1, <1>2, <1>3, GroupHolds
  <1> QED
    BY <1>4 DEF GroupParity

(* When Close goes on to the trailer, the flush of the last group has been *)
(* seen.                                                                   *)
LEMMA FlushSeen ==
  ASSUME CommitInv, PlaceInv, StreamInv, GroupInv, ~ err, cpc \in AfterParity, chunkIdx > 0
  PROVE  flush.kData > 0 /\ flush.g = GroupCount(chunkIdx) - 1
  <1>0. /\ flush.kData \in Nat /\ flush.g \in Nat /\ Received \in Nat
        /\ Base = Row(NextGroup) + Received /\ NextGroup \in Nat
        /\ groupsDone \in Nat /\ groupChunks \in 0 .. K
        /\ next \in Nat /\ chunkIdx \in Nat
    BY StreamTypes DEF Base, ParityMsg, CommitInv, TypeInv, CallerTypeOK, LoopInv, LoopTypeOK
  <1>1. lpc = "done" /\ ppc = "done"
    BY DEF CommitInv, OrderInv, AfterLoop
  <1>2. /\ Len(parCh) = 0 /\ Counted = chunkIdx /\ finalKData = groupChunks
        /\ finalGroup = groupsDone /\ Sent = groupChunks
    BY <1>1 DEF PlaceInv, AllTaken, StreamInv, DrainShape, LoopShape, Counted, Sent
  <1>3. chunkIdx = Start(groupsDone) + groupChunks
    BY <1>2 DEF GroupInv, GroupParts, CountedInGroups
  <1>4. flush.kData > 0 /\ Start(flush.g) + flush.kData = chunkIdx
    <2>1. CASE groupChunks > 0
      <3>1. FlushedLast
        BY <1>2, <2>1 DEF FlushedLast, AfterLoop
      <3>2. flush = LastMsg
        BY <1>2, <3>1 DEF StreamInv, Ended
      <3>3. flush.kData = groupChunks /\ flush.g = groupsDone
        BY <1>2, <3>2 DEF LastMsg, FlushMsg
      <3> QED
        BY <1>3, <2>1, <3>3
    <2>2. CASE groupChunks = 0
      <3>1. ~ FlushedLast
        BY <1>2, <2>2 DEF FlushedLast
      <3>2. /\ Row(NextGroup) + Received = Row(groupsDone) + 0
        <4>1. Base + Len(parCh) = Row(groupsDone) + Sent
          BY <3>1 DEF StreamInv, Ended, Total
        <4>2. Row(NextGroup) \in Nat /\ Row(groupsDone) \in Nat
          BY <1>0, Rows
        <4> QED
          BY <1>0, <1>2, <2>2, <4>1, <4>2
      <3>3. NextGroup = groupsDone
        <4>1. K + 1 \in Nat \ {0} /\ Received \in 0 .. (K + 1) - 1 /\ 0 \in 0 .. (K + 1) - 1
          BY <1>0, Rows DEF StreamInv, FlushShape
        <4>2. NextGroup * (K + 1) + Received = groupsDone * (K + 1) + 0
          BY <3>2 DEF Row
        <4> QED
          BY <1>0, <4>1, <4>2, SameRow
      <3>4. groupsDone # 0
        BY <1>3, <2>2, Rows
      <3>5. flush.kData > 0 /\ groupsDone = flush.g + 1
        BY <1>0, <3>3, <3>4 DEF NextGroup
      <3>6. Start(groupsDone) = Start(flush.g) + K
        BY <1>0, <3>5, Rows
      <3>7. flush.kData = K
        BY <3>1, <3>5, FlushCovers
      <3>8. Start(groupsDone) \in Nat
        BY <1>0, Rows
      <3> QED
        BY <1>3, <2>2, <3>5, <3>6, <3>7, <3>8
    <2> QED
      BY <1>0, <2>1, <2>2
  <1>5. flush.kData \in 1 .. K
    BY <1>4, FlushCovers
  <1> QED
    BY <1>0, <1>4, <1>5, GroupHolds

(* One group.  A flush means that writeLoop has nothing more to write, so  *)
(* the two seekWrites never overlap.                                       *)
LEMMA OneGroupApart ==
  ASSUME CommitInv, PlaceInv, StreamInv, GroupInv, ~ err, chunkIdx <= K
  PROVE  SeeksApart
  <1> SUFFICES ASSUME lpc = "write", ppc = "write" PROVE FALSE
    BY DEF SeeksApart
  <1>1. flush.kData > 0
    BY DEF StreamInv, FlushShape, Flushing
  <1>2. /\ flush.g \in Nat /\ flush.kData \in 1 .. K
        /\ Start(flush.g) + flush.kData <= Counted
        /\ flush.kData = K \/ Start(flush.g) + flush.kData = chunkIdx
    BY <1>1, FlushCovers
  <1>3. Counted < chunkIdx /\ chunkIdx \in Nat /\ Counted \in Nat
    BY DEF CommitInv, TypeInv, CallerTypeOK, LoopInv, LoopTypeOK, JobsInv, GoodJob, Counted
  <1>4. Start(flush.g) \in Nat /\ K \in Nat
    BY <1>2, Rows
  <1> QED
    BY <1>2, <1>3, <1>4

-----------------------------------------------------------------------------
(* The steps.                                                              *)

\* what the steps are about has its type
LEMMA VaultTypes ==
  ASSUME CommitInv
  PROVE  /\ spec \in LayoutSpecs /\ chunkIdx \in Nat /\ next \in Nat /\ pos \in Nat
         /\ win \in Nat /\ q \in Nat /\ Windows \in Nat \ {0} /\ K \in Nat \ {0}
         /\ ppc \in {"recv", "encode", "seek", "write", "done"}
         /\ lpc \in {"scan", "write", "hand", "flush", "done"}
         /\ flush \in ParityMsg /\ flush.kData \in Nat
         /\ cur \in Job \cup {NoJob}
  BY PipelineAssumption, Rows
  DEF CommitInv, TypeInv, CallerTypeOK, LoopInv, LoopTypeOK, ParityInv, ParityTypeOK,
      SharedTypeOK, ParityMsg

\* a calm state has only calm states before it
LEMMA CalmBefore ==
  ASSUME CommitInv, [Next]_vars, Calm'
  PROVE  Calm
  <1>1. ~ err
    BY ErrorStays DEF Calm
  <1>2. cpc # "failed"
    <2>1. CASE cpc = "failed"
      <3>1. UNCHANGED cpc
        <4>1. ~ (UserCalls \/ CallerRuns)
          BY <2>1
          DEF UserCalls, CallerRuns, Write, Close, FillChunk, EnqueueChunk, WriteReturns,
              DrainCloseEncode, DrainCloseOut, DrainFlushLast, DrainClosePar, DrainReturns,
              SeekTrailer, WriteTrailer
        <4> QED
          BY <4>1
          DEF Next, CallAfterClose, vars, Worker, WorkerFrame, WriteLoop, LoopFrame,
              ParityLoop, ParityFrame, callerVars
      <3> QED
        BY <2>1, <3>1 DEF Calm
    <2> QED
      BY <2>1
  <1> QED
    BY <1>1, <1>2 DEF Calm

\* parityLoop's counters keep their bounds
LEMMA ParityPlaceStep ==
  ASSUME CommitInv, StreamInv, ParityPlace, [Next]_vars
  PROVE  ParityPlace'
  <1>0. /\ spec \in LayoutSpecs /\ win \in Nat /\ q \in Nat /\ Windows \in Nat \ {0}
        /\ flush.kData \in Nat
    BY VaultTypes
  <1>1. CASE UNCHANGED <<spec, ppc, flush, win, q>>
    BY <1>1 DEF ParityPlace, Flushing
  <1>2. CASE ParityLoop
    <2>0. UNCHANGED spec
      BY <1>2 DEF ParityLoop, ParityFrame
    <2>1. CASE ParityReceiveBlob \/ ParitySeek \/ ParityExit
      BY <2>0, <2>1
      DEF ParityReceiveBlob, ParitySeek, ParityExit, ReleaseGroup, groupVars, ParityPlace,
          Flushing
    <2>2. CASE ParityReceiveFlush
      BY <1>0, <2>0, <2>2
      DEF ParityReceiveFlush, ReleaseGroup, groupVars, ParityPlace, Flushing
    <2>3. CASE ParityEncode
      <3>1. Flushing /\ flush.kData > 0
        BY <2>3 DEF ParityEncode, Flushing, StreamInv, FlushShape
      <3>2. 0 < ParityCountFor(spec, flush.kData)
        BY <1>0, <3>1, LayoutAssumption
        DEF ParityCountFor, Lesser, LayoutSpecs, SpecV2, SpecV3
      <3> QED
        BY <2>0, <2>3, <3>1, <3>2 DEF ParityEncode, ReleaseGroup, ParityPlace, Flushing
    <2>4. CASE ParityWrite
      BY <1>0, <2>0, <2>4 DEF ParityWrite, ReleaseGroup, ParityPlace, Flushing
    <2> QED
      BY <1>2, <2>1, <2>2, <2>3, <2>4 DEF ParityLoop
  <1>3. ~ ParityLoop => UNCHANGED <<spec, ppc, flush, win, q>>
    BY DEF Next, UserCalls, CallerRuns, CallerFrame, CallAfterClose, vars, Worker, WorkerFrame,
           WriteLoop, LoopFrame, parityVars, groupVars
  <1> QED
    BY <1>1, <1>2, <1>3

\* a step that leaves the file position alone
LEMMA PosKept ==
  ASSUME PosInv, UNCHANGED <<spec, pos>>,
         lpc' = "write" => lpc = "write" /\ UNCHANGED cur,
         ppc' = "write" => ppc = "write" /\ UNCHANGED <<q, win, flush>>,
         cpc' = "writeTrailer" => cpc = "writeTrailer" /\ UNCHANGED chunkIdx
  PROVE  PosInv'
  <1>1. lpc' = "write" => pos' = (DataBlobOffset(spec, cur.idx) * Windows + 0)'
    BY DEF PosInv
  <1>2. ppc' = "write" =>
          pos' = (ParityBlobOffset(spec, flush.g, flush.kData, q) * Windows + win)'
    BY DEF PosInv
  <1>3. cpc' = "writeTrailer" => pos' = End'
    BY DEF PosInv, End
  <1> QED
    BY <1>1, <1>2, <1>3 DEF PosInv

(* Who calls Seek is alone between Seek and Write, before the step and     *)
(* after it, and the trailer comes when both loops have ended.             *)
LEMMA PosStep ==
  ASSUME CommitInv, CommitInv', Calm, Calm', SeeksApart, SeeksApart', PosInv, [Next]_vars
  PROVE  PosInv'
  <1>0. ~ err' /\ cpc' # "failed"
    BY DEF Calm
  <1>1. CASE UNCHANGED vars \/ CallAfterClose
    <2>1. UNCHANGED <<spec, pos, lpc, cur, ppc, q, win, flush, cpc, chunkIdx>>
      BY <1>1 DEF CallAfterClose, vars, callerVars, loopVars, parityVars, groupVars, fileVars
    <2> QED
      BY <2>1, PosKept
  <1>2. CASE UserCalls \/ (CallerRuns /\ ~ SeekTrailer /\ ~ WriteTrailer)
    <2>1. UNCHANGED <<spec, pos, lpc, cur, ppc, q, win, flush>>
      BY <1>2
      DEF UserCalls, CallerRuns, CallerFrame, loopVars, parityVars, groupVars, fileVars,
          Write, Close, FillChunk, EnqueueChunk, WriteReturns,
          DrainCloseEncode, DrainCloseOut, DrainFlushLast, DrainClosePar, DrainReturns
    <2>2. cpc' # "writeTrailer"
      BY <1>2
      DEF UserCalls, CallerRuns, Write, Close, FillChunk, EnqueueChunk, WriteReturns,
          DrainCloseEncode, DrainCloseOut, DrainFlushLast, DrainClosePar, DrainReturns,
          CallerGoes
    <2> QED
      BY <2>1, <2>2, PosKept
  <1>3. CASE CallerRuns /\ (SeekTrailer \/ WriteTrailer)
    <2>1. cpc \in AfterParity /\ UNCHANGED <<spec, lpc, ppc, chunkIdx>>
      BY <1>3 DEF CallerRuns, CallerFrame, SeekTrailer, WriteTrailer, TrailerFault, CallerGoes,
                  loopVars, parityVars, AfterParity, Trailing
    <2>2. lpc' = "done" /\ ppc' = "done"
      BY <2>1 DEF CommitInv, OrderInv, AfterLoop
    <2>3. CASE SeekTrailer
      <3>1. pos' = TotalBlobCount(spec, chunkIdx) * Windows + 0
        BY <1>0, <2>3 DEF SeekTrailer, Seek, TrailerFault, CallerGoes
      <3>2. TotalBlobCount(spec, chunkIdx) * Windows \in Nat
        <4>1. TotalBlobCount(spec, chunkIdx) \in Nat /\ Windows \in Nat
          BY VaultTypes, OffsetsAreNat
        <4> QED
          BY <4>1, SMT
      <3>3. pos' = End'
        BY <2>1, <3>1, <3>2 DEF End
      <3> QED
        BY <2>2, <3>3 DEF PosInv
    <2>4. CASE WriteTrailer
      <3>1. cpc' # "writeTrailer"
        BY <2>4 DEF WriteTrailer, TrailerFault, CallerGoes
      <3> QED
        BY <2>2, <3>1 DEF PosInv
    <2> QED
      BY <1>3, <2>3, <2>4
  <1>4. CASE \E w \in Workers : Worker(w)
    <2>1. UNCHANGED <<spec, pos, lpc, cur, ppc, q, win, flush, cpc, chunkIdx>>
      BY <1>4 DEF Worker, WorkerFrame, callerVars, loopVars, parityVars, groupVars, fileVars
    <2> QED
      BY <2>1, PosKept
  <1>5. CASE WriteLoop
    <2>1. /\ UNCHANGED <<spec, ppc, q, win, flush, cpc, chunkIdx>>
          /\ cpc # "writeTrailer"
      BY <1>5, Running
      DEF WriteLoop, LoopFrame, callerVars, parityVars, groupVars, AfterParity, Trailing,
          CommitInv
    <2>2. CASE LoopSeek
      <3>1. PICK j \in Ready : pos' = DataBlobOffset(spec, j.idx) * Windows + 0 /\ cur' = j
                                 /\ lpc' = "write"
        BY <1>0, <2>2 DEF LoopSeek, Fault, Seek
      <3>2. ppc' # "write"
        BY <3>1 DEF SeeksApart
      <3>3. pos' = (DataBlobOffset(spec, cur.idx) * Windows + 0)'
        BY <2>1, <3>1
      <3> QED
        BY <2>1, <3>2, <3>3 DEF PosInv
    <2>3. CASE LoopWrite
      <3>1. ppc' # "write" /\ lpc' # "write"
        BY <2>1, <2>3 DEF SeeksApart, LoopWrite, LoopAdvances
      <3> QED
        BY <2>1, <3>1 DEF PosInv
    <2>4. CASE LoopReceive \/ LoopSkipFailed \/ LoopHandOver \/ LoopFlushGroup \/ LoopExit
      <3>1. UNCHANGED pos /\ (lpc' = "write" => lpc = "write" /\ UNCHANGED cur)
        BY <2>4 DEF LoopReceive, LoopSkipFailed, LoopHandOver, LoopFlushGroup, LoopExit,
                    LoopAdvances, fileVars
      <3> QED
        BY <2>1, <3>1, PosKept
    <2> QED
      BY <1>5, <2>2, <2>3, <2>4 DEF WriteLoop
  <1>6. CASE ParityLoop
    <2>1. /\ UNCHANGED <<spec, lpc, cur, cpc, chunkIdx>>
          /\ cpc # "writeTrailer"
      BY <1>6, Running
      DEF ParityLoop, ParityFrame, callerVars, loopVars, AfterParity, Trailing, CommitInv
    <2>2. CASE ParitySeek
      <3>1. /\ pos' = ParityBlobOffset(spec, flush.g, flush.kData, q) * Windows + win
            /\ UNCHANGED <<q, win, flush>> /\ ppc' = "write"
        BY <1>0, <2>2 DEF ParitySeek, Fault, Seek, groupVars
      <3>2. lpc' # "write"
        BY <3>1 DEF SeeksApart
      <3>3. pos' = (ParityBlobOffset(spec, flush.g, flush.kData, q) * Windows + win)'
        BY <2>1, <3>1
      <3> QED
        BY <2>1, <3>2, <3>3 DEF PosInv
    <2>3. CASE ParityWrite
      <3>1. ppc' # "write" /\ lpc' # "write"
        BY <2>1, <2>3 DEF SeeksApart, ParityWrite, ReleaseGroup
      <3> QED
        BY <2>1, <3>1 DEF PosInv
    <2>4. CASE ParityReceiveBlob \/ ParityReceiveFlush \/ ParityEncode \/ ParityExit
      <3>1. UNCHANGED pos /\ ppc' # "write"
        BY <2>4 DEF ParityReceiveBlob, ParityReceiveFlush, ParityEncode, ParityExit,
                    ReleaseGroup, fileVars
      <3> QED
        BY <2>1, <3>1, PosKept
    <2> QED
      BY <1>6, <2>2, <2>3, <2>4 DEF ParityLoop
  <1> QED
    BY <1>1, <1>2, <1>3, <1>4, <1>5, <1>6 DEF Next

-----------------------------------------------------------------------------
(* The file.                                                               *)

\* a step that writes nothing, and after which nothing more counts as written
LEMMA FileKept ==
  ASSUME FileParts, UNCHANGED <<spec, chunkIdx, disk>>,
         cpc' = "committed" <=> cpc = "committed",
         cpc' = "committed" => UNCHANGED plainSize,
         \A b \in Blobs(spec, chunkIdx), w \in 0 .. Windows - 1 :
           Written(b, w)' <=> Written(b, w)
  PROVE  FileParts'
  <1>1. Blobs(spec, chunkIdx)' = Blobs(spec, chunkIdx) /\ End' = End
    BY DEF End
  <1>2. /\ \A b, w : Place(b, w)' = Place(b, w) /\ UnitOf(b, w)' = UnitOf(b, w)
    BY DEF Place, UnitOf
  <1>3. OnDisk'
    BY <1>1, <1>2 DEF FileParts, OnDisk
  <1>4. NothingElse'
    BY <1>1, <1>2 DEF FileParts, NothingElse
  <1>5. TrailerOnDisk'
    BY <1>1 DEF FileParts, TrailerOnDisk
  <1> QED
    BY <1>3, <1>4, <1>5 DEF FileParts

\* a step that writes some windows of a blob, at their place
LEMMA FileGrows ==
  ASSUME FileParts, UNCHANGED <<spec, chunkIdx>>, cpc # "committed", cpc' # "committed",
         spec \in LayoutSpecs, chunkIdx \in Nat \ {0}, pos \in Nat,
         NEW x \in Blobs(spec, chunkIdx), NEW v \in Nat, NEW block, Len(block) \in Nat,
         v + Len(block) <= Windows, pos = Place(x, v), WriteBlock(block),
         \A k \in 0 .. Len(block) - 1 : block[k + 1] = UnitOf(x, v + k),
         \A b \in Blobs(spec, chunkIdx), w \in 0 .. Windows - 1 :
           Written(b, w)' <=> Written(b, w) \/ (b = x /\ v <= w /\ w < v + Len(block))
  PROVE  FileParts'
  <1> DEFINE L == Len(block)
  <1>0. Windows \in Nat \ {0}
    BY PipelineAssumption
  <1>1. /\ disk' = [u \in DOMAIN disk' |-> disk'[u]]
        /\ DOMAIN disk' = DOMAIN disk \cup (pos .. pos + L - 1)
        /\ \A k \in 0 .. L - 1 : disk'[pos + k] = block[k + 1]
        /\ \A u \in DOMAIN disk : u \notin pos .. pos + L - 1 => disk'[u] = disk[u]
    BY WriteLeaves
  <1>2. Blobs(spec, chunkIdx)' = Blobs(spec, chunkIdx) /\ End' = End
    BY DEF End
  <1>3. \A b, w : Place(b, w)' = Place(b, w) /\ UnitOf(b, w)' = UnitOf(b, w)
    BY DEF Place, UnitOf
  <1>4. ASSUME NEW k \in 0 .. L - 1
        PROVE  v + k \in 0 .. Windows - 1 /\ Place(x, v + k) = pos + k
    <2>1. BlobOffset(spec, chunkIdx, x) \in Nat
      BY <1>0, PlacesDiffer
    <2>2. BlobOffset(spec, chunkIdx, x) * Windows \in Nat
      BY <1>0, <2>1, SMT
    <2>3. pos = BlobOffset(spec, chunkIdx, x) * Windows + v
      BY DEF Place
    <2>4. Place(x, v + k) = BlobOffset(spec, chunkIdx, x) * Windows + (v + k)
      BY DEF Place
    <2>5. v + k \in 0 .. Windows - 1
      BY <1>0, <1>4
    <2> QED
      BY <2>2, <2>3, <2>4, <2>5
  <1> HIDE DEF L
  <1>5. ASSUME NEW b \in Blobs(spec, chunkIdx), NEW w \in 0 .. Windows - 1,
               Place(b, w) \in pos .. pos + L - 1
        PROVE  b = x /\ w - v \in 0 .. L - 1 /\ w = v + (w - v)
    <2>1. Place(b, w) - pos \in 0 .. L - 1 /\ Place(b, w) = pos + (Place(b, w) - pos)
      <3>1. L \in Nat
        BY DEF L
      <3> QED
        BY <1>5, <3>1
    <2>2. PICK k \in 0 .. L - 1 : Place(b, w) = pos + k
      BY <2>1
    <2>3. v + k \in 0 .. Windows - 1 /\ Place(b, w) = Place(x, v + k)
      BY <1>4, <2>2
    <2>4. b = x /\ w = v + k
      BY <2>3, PlacesDiffer DEF Place
    <2> QED
      BY <2>4
  <1>6. OnDisk'
    <2>1. SUFFICES ASSUME NEW b \in Blobs(spec, chunkIdx), NEW w \in 0 .. Windows - 1,
                          Written(b, w)'
                   PROVE  /\ Place(b, w) \in DOMAIN disk'
                          /\ disk'[Place(b, w)] = UnitOf(b, w)
      BY <1>2, <1>3 DEF OnDisk
    <2>2. CASE Place(b, w) \in pos .. pos + L - 1
      <3>1. PICK k \in 0 .. L - 1 : b = x /\ w = v + k
        BY <1>5, <2>2
      <3>2. Place(b, w) = pos + k
        BY <1>4, <3>1
      <3>3. disk'[pos + k] = UnitOf(b, w)
        BY <1>1, <3>1 DEF L
      <3> QED
        BY <1>1, <2>2, <3>2, <3>3
    <2>3. CASE Place(b, w) \notin pos .. pos + L - 1
      <3>1. ~ (b = x /\ v <= w /\ w < v + Len(block))
        <4>1. SUFFICES ASSUME b = x, v <= w, w < v + Len(block) PROVE FALSE
          OBVIOUS
        <4>2. w - v \in 0 .. L - 1 /\ v + (w - v) = w
          BY <4>1 DEF L
        <4>3. Place(x, w) = pos + (w - v)
          BY <1>4, <4>2
        <4>4. pos + (w - v) \in pos .. pos + L - 1
          BY <4>2 DEF L
        <4> QED
          BY <2>3, <4>1, <4>3, <4>4
      <3>2. Written(b, w)
        BY <2>1, <3>1
      <3>3. Place(b, w) \in DOMAIN disk /\ disk[Place(b, w)] = UnitOf(b, w)
        BY <3>2 DEF FileParts, OnDisk
      <3> QED
        BY <1>1, <2>3, <3>3
    <2> QED
      BY <2>2, <2>3
  <1>7. NothingElse'
    <2>1. SUFFICES ASSUME NEW u \in DOMAIN disk'
                   PROVE  \E b \in Blobs(spec, chunkIdx), w \in 0 .. Windows - 1 :
                            Written(b, w)' /\ u = Place(b, w)
      BY <1>2, <1>3 DEF NothingElse
    <2>2. CASE u \in DOMAIN disk
      <3>1. PICK b \in Blobs(spec, chunkIdx), w \in 0 .. Windows - 1 :
                   Written(b, w) /\ u = Place(b, w)
        BY <2>2 DEF FileParts, NothingElse
      <3> QED
        BY <3>1
    <2>3. CASE u \in pos .. pos + L - 1
      <3>1. u - pos \in 0 .. L - 1 /\ u = pos + (u - pos)
        BY <2>3 DEF L
      <3>2. PICK k \in 0 .. L - 1 : u = pos + k
        BY <3>1
      <3>3. v + k \in 0 .. Windows - 1 /\ Place(x, v + k) = u
        BY <1>4, <3>2
      <3>4. Written(x, v + k)'
        <4>1. v <= v + k /\ v + k < v + Len(block)
          BY <3>2 DEF L
        <4> QED
          BY <3>3, <4>1
      <3> QED
        BY <3>3, <3>4
    <2> QED
      BY <1>1, <2>1, <2>2, <2>3
  <1>8. TrailerOnDisk'
    BY DEF TrailerOnDisk
  <1> QED
    BY <1>1, <1>6, <1>7, <1>8 DEF FileParts

(* A chunk is added: what is written is in groups that are full, so it and *)
(* the places of its blobs stay.                                           *)
LEMMA FileEnqueue ==
  ASSUME CommitInv, PlaceInv, StreamInv, GroupInv, Calm, Calm', FileParts,
         EnqueueChunk, CallerFrame
  PROVE  FileParts'
  <1>0. /\ chunkIdx \in Nat /\ next \in Nat /\ spec \in LayoutSpecs
        /\ Counted \in Nat /\ Counted <= chunkIdx /\ flush.kData \in Nat
    BY VaultTypes DEF CommitInv, CountInv, Counted
  <1>1. /\ chunkIdx' = chunkIdx + 1 /\ cpc \in {"write", "drain"}
        /\ cpc # "committed" /\ cpc' # "committed"
        /\ UNCHANGED <<spec, disk, flush, ppc, win, q, next, lpc>>
    BY DEF EnqueueChunk, CallerFrame, loopVars, parityVars, groupVars, fileVars
  <1>2. \A b, w : Written(b, w)' <=> Written(b, w)
    BY <1>1 DEF Written, Counted, Flushing
  <1>3. ASSUME flush.kData > 0
        PROVE  flush.g \in Nat /\ Start(flush.g) + K <= chunkIdx
    <2>1. ~ FlushedLast
      BY <1>1 DEF FlushedLast, AfterLoop, AfterParity, Trailing
    <2>2. /\ flush.g \in Nat /\ flush.kData = K /\ Start(flush.g) + flush.kData <= Counted
      BY <1>3, <2>1, FlushCovers DEF Calm
    <2>3. Start(flush.g) \in Nat /\ K \in Nat
      BY <2>2, Rows
    <2> QED
      BY <1>0, <2>2, <2>3
  <1>4. ASSUME NEW n \in {chunkIdx, chunkIdx'}, NEW b \in Blobs(spec, n),
               NEW w, Written(b, w)
        PROVE  /\ b \in Blobs(spec, chunkIdx) /\ b \in Blobs(spec, chunkIdx')
               /\ Place(b, w)' = Place(b, w) /\ UnitOf(b, w)' = UnitOf(b, w)
    <2>1. CASE b[1] = "data"
      <3>1. PICK i \in 0 .. n - 1 : b = <<"data", i>>
        BY <2>1, VaultBlobs
      <3>2. i < Counted
        BY <1>4, <3>1 DEF Written
      <3>3. i \in 0 .. chunkIdx - 1 /\ i \in 0 .. chunkIdx' - 1
        BY <1>0, <1>1, <3>2
      <3>4. b \in Blobs(spec, chunkIdx) /\ b \in Blobs(spec, chunkIdx')
        BY <3>1, <3>3, VaultBlobs
      <3>5. Place(b, w)' = Place(b, w) /\ UnitOf(b, w)' = UnitOf(b, w)
        BY <1>1, <3>1 DEF Place, BlobOffset, UnitOf
      <3> QED
        BY <3>4, <3>5
    <2>2. CASE b[1] # "data"
      <3>1. PICK g \in 0 .. GroupCount(n) - 1 :
                   \E x \in 0 .. GroupParity(spec, g, n) - 1 : b = <<"parity", g, x>>
        BY <2>2, VaultBlobs
      <3>2. PICK x \in 0 .. GroupParity(spec, g, n) - 1 : b = <<"parity", g, x>>
        BY <3>1
      <3>3. flush.kData > 0 /\ g <= flush.g /\ g \in Nat /\ flush.g \in Nat
        <4>1. flush.kData > 0 /\ (g < flush.g \/ g = flush.g)
          BY <1>4, <2>2, <3>2 DEF Written
        <4>2. flush.g \in Nat
          BY <1>3, <4>1
        <4> QED
          BY <4>1, <4>2
      <3>4. Start(g) + K <= chunkIdx
        <4>1. Start(flush.g) + K <= chunkIdx /\ Start(g) \in Nat /\ Start(flush.g) \in Nat
              /\ K \in Nat
          BY <1>3, <3>3, Rows
        <4>2. g < flush.g => Start(g) + K <= Start(flush.g)
          BY <3>3, RowsApart
        <4> QED
          BY <1>0, <3>3, <4>1, <4>2
      <3>5. /\ g \in 0 .. GroupCount(chunkIdx) - 1 /\ g \in 0 .. GroupCount(chunkIdx') - 1
            /\ DataChunksInGroup(g, chunkIdx) = K /\ DataChunksInGroup(g, chunkIdx') = K
        <4>1. K \in 1 .. K /\ Start(g) \in Nat
          BY <3>3, Rows
        <4>2. g \in 0 .. GroupCount(chunkIdx) - 1 /\ DataChunksInGroup(g, chunkIdx) = K
          BY <1>0, <3>3, <3>4, <4>1, GroupHolds
        <4>3. chunkIdx + 1 \in Nat /\ Start(g) + K <= chunkIdx + 1
          BY <1>0, <3>4, <4>1
        <4>4. /\ g \in 0 .. GroupCount(chunkIdx + 1) - 1
              /\ DataChunksInGroup(g, chunkIdx + 1) = K
          BY <3>3, <4>1, <4>3, GroupHolds
        <4> QED
          BY <1>1, <4>2, <4>4
      <3>6. /\ GroupParity(spec, g, chunkIdx) = GroupParity(spec, g, chunkIdx')
        BY <3>5 DEF GroupParity
      <3>7. x \in 0 .. GroupParity(spec, g, chunkIdx) - 1
        BY <3>2, <3>6
      <3>8. b \in Blobs(spec, chunkIdx) /\ b \in Blobs(spec, chunkIdx')
        BY <3>2, <3>5, <3>6, <3>7, VaultBlobs
      <3>9. Place(b, w)' = Place(b, w) /\ UnitOf(b, w)' = UnitOf(b, w)
        BY <1>1, <3>2, <3>5 DEF Place, BlobOffset, UnitOf
      <3> QED
        BY <3>8, <3>9
    <2> QED
      BY <2>1, <2>2
  <1>5. OnDisk'
    <2>1. SUFFICES ASSUME NEW b \in Blobs(spec, chunkIdx'), NEW w \in 0 .. Windows - 1,
                          Written(b, w)'
                   PROVE  /\ Place(b, w)' \in DOMAIN disk
                          /\ disk[Place(b, w)'] = UnitOf(b, w)'
      BY <1>1 DEF OnDisk
    <2>2. Written(b, w)
      BY <1>2, <2>1
    <2>3. /\ b \in Blobs(spec, chunkIdx)
          /\ Place(b, w)' = Place(b, w) /\ UnitOf(b, w)' = UnitOf(b, w)
      BY <1>4, <2>2
    <2> QED
      BY <2>2, <2>3 DEF FileParts, OnDisk
  <1>6. NothingElse'
    <2>1. SUFFICES ASSUME NEW u \in DOMAIN disk
                   PROVE  \E b \in Blobs(spec, chunkIdx'), w \in 0 .. Windows - 1 :
                            Written(b, w)' /\ u = Place(b, w)'
      BY <1>1 DEF NothingElse
    <2>2. PICK b \in Blobs(spec, chunkIdx), w \in 0 .. Windows - 1 :
                 Written(b, w) /\ u = Place(b, w)
      BY <1>1 DEF FileParts, NothingElse
    <2>3. b \in Blobs(spec, chunkIdx') /\ Place(b, w)' = Place(b, w)
      BY <1>4, <2>2
    <2> QED
      BY <1>2, <2>2, <2>3
  <1>7. TrailerOnDisk'
    BY <1>1 DEF TrailerOnDisk
  <1> QED
    BY <1>1, <1>5, <1>6, <1>7 DEF FileParts

\* the trailer is written after every blob
LEMMA FileTrailer ==
  ASSUME CommitInv, Calm, Calm', PosInv, FileParts, WriteTrailer, CallerFrame
  PROVE  FileParts'
  <1>1. /\ cpc = "writeTrailer" /\ cpc' = "committed"
        /\ WriteBlock(<<TrailerUnit(chunkIdx, plainSize)>>)
        /\ UNCHANGED <<spec, chunkIdx, plainSize, next, lpc, flush, ppc, win, q>>
    BY DEF WriteTrailer, TrailerFault, Calm, CallerGoes, CallerFrame, loopVars, countVars,
           parityVars, groupVars
  <1>2. pos = End /\ pos \in Nat /\ spec \in LayoutSpecs /\ chunkIdx \in Nat
    BY <1>1, VaultTypes DEF PosInv
  <1>3. /\ disk' = [u \in DOMAIN disk' |-> disk'[u]]
        /\ DOMAIN disk' = DOMAIN disk \cup {End}
        /\ disk'[End] = TrailerUnit(chunkIdx, plainSize)
        /\ \A u \in DOMAIN disk : u # End => disk'[u] = disk[u]
    <2> DEFINE block == <<TrailerUnit(chunkIdx, plainSize)>>
    <2>1. Len(block) = 1 /\ block[1] = TrailerUnit(chunkIdx, plainSize)
      OBVIOUS
    <2> HIDE DEF block
    <2>2. /\ disk' = [u \in DOMAIN disk' |-> disk'[u]]
          /\ DOMAIN disk' = DOMAIN disk \cup (pos .. pos + Len(block) - 1)
          /\ \A k \in 0 .. Len(block) - 1 : disk'[pos + k] = block[k + 1]
          /\ \A u \in DOMAIN disk : u \notin pos .. pos + Len(block) - 1 => disk'[u] = disk[u]
      <3>1. Len(block) \in Nat /\ WriteBlock(block)
        BY <1>1, <2>1 DEF block
      <3> QED
        BY <1>2, <3>1, WriteLeaves
    <2>3. pos .. pos + Len(block) - 1 = {pos} /\ pos + 0 = pos /\ 0 \in 0 .. Len(block) - 1
      BY <1>2, <2>1
    <2> QED
      BY <1>2, <2>1, <2>2, <2>3
  <1>4. \A b, w : /\ Place(b, w)' = Place(b, w) /\ UnitOf(b, w)' = UnitOf(b, w)
                  /\ Written(b, w)' <=> Written(b, w)
    BY <1>1 DEF Place, UnitOf, Written, Counted, Flushing
  <1>5. Blobs(spec, chunkIdx)' = Blobs(spec, chunkIdx) /\ End' = End
    BY <1>1 DEF End
  <1>6. \A b \in Blobs(spec, chunkIdx), w \in 0 .. Windows - 1 : Place(b, w) # End
    <2>1. CASE chunkIdx = 0
      BY <1>2, <2>1, EmptyVault
    <2>2. CASE chunkIdx # 0
      <3>1. SUFFICES ASSUME NEW b \in Blobs(spec, chunkIdx), NEW w \in 0 .. Windows - 1
                     PROVE  Place(b, w) # End
        OBVIOUS
      <3>2. Place(b, w) \in 0 .. End - 1 /\ End \in Nat
        BY <1>2, <2>2, PlacesDiffer DEF Place, End
      <3> QED
        BY <3>2
    <2> QED
      BY <2>1, <2>2
  <1>7. OnDisk'
    BY <1>3, <1>4, <1>5, <1>6 DEF FileParts, OnDisk
  <1>8. NothingElse'
    <2>1. SUFFICES ASSUME NEW u \in DOMAIN disk', u # End
                   PROVE  \E b \in Blobs(spec, chunkIdx), w \in 0 .. Windows - 1 :
                            Written(b, w)' /\ u = Place(b, w)'
      BY <1>1, <1>5 DEF NothingElse
    <2>2. PICK b \in Blobs(spec, chunkIdx), w \in 0 .. Windows - 1 :
                 Written(b, w) /\ u = Place(b, w)
      BY <1>1, <1>3, <2>1 DEF FileParts, NothingElse
    <2> QED
      BY <1>4, <2>2
  <1>9. TrailerOnDisk'
    BY <1>1, <1>3, <1>5 DEF TrailerOnDisk
  <1> QED
    BY <1>3, <1>7, <1>8, <1>9 DEF FileParts

\* writeLoop: a data blob counts as written when it is
LEMMA FileLoop ==
  ASSUME CommitInv, Calm, Calm', PosInv, FileParts, WriteLoop
  PROVE  FileParts'
  <1>0. ~ err /\ ~ err'
    BY DEF Calm
  <1>1. /\ UNCHANGED <<spec, chunkIdx, cpc, flush, ppc, win, q>>
        /\ cpc # "committed" /\ cpc' # "committed"
    BY Running DEF WriteLoop, LoopFrame, callerVars, parityVars, groupVars, CommitInv,
                   AfterParity, Trailing
  <1>2. next \in Nat /\ chunkIdx \in Nat /\ spec \in LayoutSpecs /\ pos \in Nat
        /\ Windows \in Nat \ {0}
    BY VaultTypes
  <1>3. ASSUME UNCHANGED <<disk, Counted>> PROVE FileParts'
    <2>1. \A b, w : Written(b, w)' <=> Written(b, w)
      BY <1>1, <1>3 DEF Written, Flushing
    <2> QED
      BY <1>1, <1>3, <2>1, FileKept
  <1>4. CASE LoopReceive \/ LoopSeek \/ LoopHandOver \/ LoopFlushGroup \/ LoopExit
    <2>1. UNCHANGED <<disk, Counted>>
      BY <1>0, <1>4
      DEF LoopReceive, LoopSeek, LoopHandOver, LoopFlushGroup, LoopExit, LoopAdvances, Fault,
          Seek, fileVars, Counted
    <2> QED
      BY <1>3, <2>1
  <1>5. CASE LoopSkipFailed
    <2>1. PICK j \in pending : j.failed
      BY <1>5 DEF LoopSkipFailed, Ready
    <2> QED
      BY <1>0, <2>1 DEF CommitInv, JobsInv, GoodJob
  <1>6. CASE LoopWrite
    <2>1. /\ lpc = "write" /\ lpc' = "hand" /\ WriteBlock(DataBlock(cur.idx))
          /\ UNCHANGED next
      BY <1>0, <1>6 DEF LoopWrite, Fault
    <2>2. cur.idx = next /\ next < chunkIdx
      BY <2>1 DEF CommitInv, JobsInv, GoodJob
    <2> DEFINE x == <<"data", next>>
    <2>3. x \in Blobs(spec, chunkIdx)
      BY <1>2, <2>2, VaultBlobs
    <2>4. pos = Place(x, 0)
      BY <2>1, <2>2 DEF PosInv, Place, BlobOffset
    <2>5. /\ Len(DataBlock(next)) = Windows
          /\ \A k \in 0 .. Windows - 1 : DataBlock(next)[k + 1] = UnitOf(x, 0 + k)
      <3>1. Len(DataBlock(next)) = Windows
        BY <1>2, SMT DEF DataBlock
      <3>2. ASSUME NEW k \in 0 .. Windows - 1 PROVE DataBlock(next)[k + 1] = UnitOf(x, 0 + k)
        <4>1. k + 1 \in 1 .. Windows /\ (k + 1) - 1 = k /\ 0 + k = k
          BY <1>2
        <4>2. DataBlock(next)[k + 1] = DataUnit(next, k)
          BY <4>1 DEF DataBlock
        <4> QED
          BY <4>1, <4>2 DEF UnitOf
      <3> QED
        BY <3>1, <3>2
    <2>6. ASSUME NEW b \in Blobs(spec, chunkIdx), NEW w \in 0 .. Windows - 1
          PROVE  Written(b, w)' <=> Written(b, w) \/ (b = x /\ 0 <= w /\ w < 0 + Windows)
      <3>1. Counted' = next + 1 /\ Counted = next
        BY <2>1 DEF Counted
      <3>2. CASE b[1] = "data"
        <4>1. PICK i \in 0 .. chunkIdx - 1 : b = <<"data", i>>
          BY <3>2, VaultBlobs
        <4>2. /\ Written(b, w) <=> i < next
              /\ Written(b, w)' <=> i < next + 1
              /\ b = x <=> i = next
          BY <3>1, <4>1 DEF Written
        <4> QED
          BY <1>2, <4>1, <4>2
      <3>3. CASE b[1] # "data"
        <4>1. b # x /\ (Written(b, w)' <=> Written(b, w))
          BY <1>1, <3>3 DEF Written, Flushing
        <4> QED
          BY <4>1
      <3> QED
        BY <3>2, <3>3
    <2> HIDE DEF x
    <2>7. WriteBlock(DataBlock(next))
      BY <2>1, <2>2
    <2>8. chunkIdx \in Nat \ {0}
      BY <1>2, <2>2
    <2> QED
      BY <1>1, <1>2, <2>3, <2>4, <2>5, <2>6, <2>7, <2>8, FileGrows
  <1> QED
    BY <1>4, <1>5, <1>6 DEF WriteLoop

\* parityLoop: it writes the parity of the group it was flushed, window by window
LEMMA FileParity ==
  ASSUME CommitInv, PlaceInv, StreamInv, StreamInv', GroupInv, ParityPlace,
         Calm, Calm', PosInv, FileParts, ParityLoop
  PROVE  FileParts'
  <1>0. ~ err /\ ~ err'
    BY DEF Calm
  <1>1. /\ UNCHANGED <<spec, chunkIdx, cpc, next, lpc, Counted>>
        /\ cpc # "committed" /\ cpc' # "committed"
    BY Running DEF ParityLoop, ParityFrame, callerVars, loopVars, CommitInv,
                   AfterParity, Trailing, Counted
  <1>2. /\ chunkIdx \in Nat /\ spec \in LayoutSpecs /\ pos \in Nat /\ win \in Nat /\ q \in Nat
        /\ Windows \in Nat \ {0} /\ flush.kData \in Nat /\ flush.g \in Nat
    BY VaultTypes, StreamTypes DEF ParityMsg
  <1>3. ASSUME UNCHANGED disk,
               \A b \in Blobs(spec, chunkIdx), w \in 0 .. Windows - 1 :
                 b[1] # "data" => (Written(b, w)' <=> Written(b, w))
        PROVE  FileParts'
    <2>1. \A b \in Blobs(spec, chunkIdx), w \in 0 .. Windows - 1 :
            Written(b, w)' <=> Written(b, w)
      BY <1>1, <1>3 DEF Written
    <2> QED
      BY <1>1, <1>3, <2>1, FileKept
  <1>4. CASE ParityReceiveBlob \/ ParitySeek \/ ParityExit
    <2>1. UNCHANGED disk /\ \A b, w : b[1] # "data" => (Written(b, w)' <=> Written(b, w))
      BY <1>0, <1>4
      DEF ParityReceiveBlob, ParitySeek, ParityExit, groupVars, fileVars, Fault, Seek,
          Written, Flushing
    <2> QED
      BY <1>3, <2>1
  <1>5. ASSUME NEW b \in Blobs(spec, chunkIdx), b[1] # "data"
        PROVE  \E g, n \in Nat : b = <<"parity", g, n>>
    <2>1. PICK g \in 0 .. GroupCount(chunkIdx) - 1 :
                 \E n \in 0 .. GroupParity(spec, g, chunkIdx) - 1 : b = <<"parity", g, n>>
      BY <1>5, VaultBlobs
    <2>2. PICK n \in 0 .. GroupParity(spec, g, chunkIdx) - 1 : b = <<"parity", g, n>>
      BY <2>1
    <2>3. g \in Nat /\ n \in Nat
      BY <2>1, <2>2
    <2> QED
      BY <2>2, <2>3
  <1>6. CASE ParityReceiveFlush
    <2>1. /\ ppc = "recv" /\ ppc' = "encode" /\ UNCHANGED <<win, disk>>
          /\ parCh # << >> /\ Head(parCh).flush /\ flush' = Head(parCh)
      BY <1>0, <1>6 DEF ParityReceiveFlush, ReleaseGroup, groupVars, fileVars
    <2>2. ~ Flushing /\ win = 0 /\ Flushing'
      BY <2>1 DEF Flushing, ParityPlace
    <2>3. flush' = FlushMsg(NextGroup, Len(blobs))
      <3>1. Head(parCh) = parCh[1]
        BY <2>1, StreamTypes
      <3> QED
        BY <2>1, <2>2, <3>1, HeadIsNext
    <2>4. flush'.kData > 0 /\ flush'.g = NextGroup
      BY <2>2, <2>3 DEF StreamInv, FlushShape, FlushMsg
    <2>5. ASSUME NEW b \in Blobs(spec, chunkIdx), NEW w \in 0 .. Windows - 1, b[1] # "data"
          PROVE  Written(b, w)' <=> Written(b, w)
      <3>1. PICK g, n \in Nat : b = <<"parity", g, n>>
        BY <1>5, <2>5
      <3>2. ~ (w < 0)
        BY <1>2
      <3>3. Written(b, w)' <=> g < NextGroup
        BY <2>1, <2>2, <2>4, <3>1, <3>2 DEF Written
      <3>4. Written(b, w) <=> flush.kData > 0 /\ (g < flush.g \/ g = flush.g)
        BY <2>2, <3>1 DEF Written
      <3>5. g < NextGroup <=> flush.kData > 0 /\ (g < flush.g \/ g = flush.g)
        BY <1>2, <3>1 DEF NextGroup
      <3> QED
        BY <3>3, <3>4, <3>5
    <2> QED
      BY <1>3, <2>1, <2>5
  <1>7. CASE ParityEncode
    <2>1. ppc = "encode" /\ ppc' = "seek" /\ q' = 0 /\ UNCHANGED <<win, flush, disk>>
      BY <1>0, <1>7 DEF ParityEncode, Fault, fileVars
    <2>2. ASSUME NEW b \in Blobs(spec, chunkIdx), NEW w, b[1] # "data"
          PROVE  Written(b, w)' <=> Written(b, w)
      <3>1. PICK g, n \in Nat : b = <<"parity", g, n>>
        BY <1>5, <2>2
      <3>2. ~ (b[3] < 0)
        BY <3>1
      <3> QED
        BY <2>1, <2>2, <3>2 DEF Written, Flushing
    <2> QED
      BY <1>3, <2>1, <2>2
  <1>8. CASE ParityWrite
    <2> DEFINE C == ParityCountFor(spec, flush.kData)
    <2>0. C \in Nat
      BY <1>2, OffsetsAreNat
    <2>1. /\ ppc = "write" /\ WriteBlock(<<ParityUnit(parOut, q, win)>>)
          /\ UNCHANGED flush
          /\ \/ q + 1 < C /\ q' = q + 1 /\ ppc' = "seek" /\ UNCHANGED win
             \/ /\ ~ (q + 1 < C) /\ win + 1 < Windows
                /\ win' = win + 1 /\ ppc' = "encode"
             \/ ~ (q + 1 < C) /\ ~ (win + 1 < Windows) /\ ppc' = "recv"
      <3>1. q + 1 < C \/ (q + 1 >= C /\ win + 1 < Windows) \/ (q + 1 >= C /\ ~ (win + 1 < Windows))
        <4> HIDE DEF C
        <4> QED
          BY <1>2, <2>0
      <3>2. q + 1 >= C => ~ (q + 1 < C)
        <4> HIDE DEF C
        <4> QED
          BY <1>2, <2>0
      <3>3. ~ (q + 1 < C) => q + 1 >= C
        <4> HIDE DEF C
        <4> QED
          BY <1>2, <2>0
      <3> HIDE DEF C
      <3> QED
        BY <1>0, <1>8, <3>1, <3>2, <3>3 DEF ParityWrite, ReleaseGroup, Fault, C
    <2>2. flush.kData > 0
      BY <2>1 DEF Flushing, StreamInv, FlushShape
    <2>3. /\ chunkIdx \in Nat \ {0} /\ flush.g \in 0 .. GroupCount(chunkIdx) - 1
          /\ DataChunksInGroup(flush.g, chunkIdx) = flush.kData
          /\ GroupParity(spec, flush.g, chunkIdx) = C
      BY <1>0, <2>2, FlushedGroup
    <2>4. q \in 0 .. C - 1 /\ win + 1 <= Windows
      <3>1. q < C /\ win < Windows
        BY <2>1 DEF ParityPlace, Flushing
      <3> HIDE DEF C
      <3> QED
        BY <1>2, <2>0, <3>1
    <2> HIDE DEF C
    <2> DEFINE x == <<"parity", flush.g, q>>
               block == <<ParityUnit(parOut, q, win)>>
    <2>5. x \in Blobs(spec, chunkIdx)
      BY <2>3, <2>4, VaultBlobs
    <2>6. pos = Place(x, win)
      BY <2>1, <2>3 DEF PosInv, Place, BlobOffset
    <2>7. Len(block) = 1 /\ \A k \in 0 .. 1 - 1 : block[k + 1] = UnitOf(x, win + k)
      <3>1. parOut = [i \in 1 .. flush.kData |-> Start(flush.g) + i - 1]
        BY <1>0, <2>1 DEF GroupInv, GroupParts, CodedChunks
      <3>2. UnitOf(x, win) = ParityUnit(parOut, q, win)
        BY <2>3, <3>1 DEF UnitOf
      <3>3. \A k \in 0 .. 1 - 1 : k = 0
        OBVIOUS
      <3>4. win + 0 = win /\ 0 + 1 = 1
        BY <1>2
      <3>5. Len(block) = 1 /\ block[1] = ParityUnit(parOut, q, win)
        OBVIOUS
      <3> HIDE DEF x, block
      <3> QED
        BY <3>2, <3>3, <3>4, <3>5
    <2>8. ASSUME NEW b \in Blobs(spec, chunkIdx), NEW w \in 0 .. Windows - 1
          PROVE  Written(b, w)' <=> Written(b, w) \/ (b = x /\ win <= w /\ w < win + 1)
      <3>1. CASE b[1] = "data"
        <4>1. b # x /\ (Written(b, w)' <=> Written(b, w))
          BY <1>1, <3>1 DEF Written
        <4> QED
          BY <4>1
      <3>2. CASE b[1] # "data"
        <4>1. PICK g \in 0 .. GroupCount(chunkIdx) - 1 :
                     \E n \in 0 .. GroupParity(spec, g, chunkIdx) - 1 : b = <<"parity", g, n>>
          BY <3>2, VaultBlobs
        <4>2. PICK n \in 0 .. GroupParity(spec, g, chunkIdx) - 1 : b = <<"parity", g, n>>
          BY <4>1
        <4>3. b = x <=> g = flush.g /\ n = q
          BY <4>2
        <4>4. CASE g # flush.g
          <5>1. Written(b, w)' <=> Written(b, w)
            BY <2>1, <4>2, <4>4 DEF Written
          <5> QED
            BY <4>3, <4>4, <5>1
        <4>5. CASE g = flush.g
          <5>1. n \in 0 .. C - 1
            BY <2>3, <4>2, <4>5
          <5>2. ~ (g < flush.g) /\ flush'.g = g /\ flush'.kData > 0 /\ ~ (g < flush'.g)
            BY <1>2, <2>1, <2>2, <4>5
          <5>3. Written(b, w) <=> w < win \/ (w = win /\ n < q)
            BY <2>1, <2>2, <4>2, <4>5, <5>2 DEF Written, Flushing
          <5>4. CASE q' = q + 1 /\ ppc' = "seek" /\ win' = win
            <6>1. Written(b, w)' <=> w < win \/ (w = win /\ n < q + 1)
              BY <4>2, <5>2, <5>4 DEF Written, Flushing
            <6> QED
              BY <1>2, <2>0, <4>3, <4>5, <5>1, <5>3, <6>1
          <5>5. CASE ~ (q + 1 < C) /\ win' = win + 1 /\ ppc' = "encode"
            <6>1. Written(b, w)' <=> w < win + 1
              BY <4>2, <5>2, <5>5 DEF Written, Flushing
            <6>2. n < q \/ n = q
              BY <1>2, <2>0, <5>1, <5>5
            <6> QED
              BY <1>2, <4>3, <4>5, <5>3, <6>1, <6>2
          <5>6. CASE ~ (q + 1 < C) /\ ~ (win + 1 < Windows) /\ ppc' = "recv"
            <6>1. Written(b, w)'
              BY <4>2, <5>2, <5>6 DEF Written, Flushing
            <6>2. n < q \/ n = q
              BY <1>2, <2>0, <5>1, <5>6
            <6>3. w <= win
              BY <1>2, <5>6
            <6> QED
              BY <1>2, <4>3, <4>5, <5>3, <6>1, <6>2, <6>3
          <5> QED
            BY <2>1, <5>4, <5>5, <5>6
        <4> QED
          BY <4>4, <4>5
      <3> QED
        BY <3>1, <3>2
    <2>9. WriteBlock(block)
      BY <2>1
    <2> HIDE DEF x, block
    <2>10. /\ Len(block) \in Nat /\ win + Len(block) <= Windows
           /\ \A k \in 0 .. Len(block) - 1 : block[k + 1] = UnitOf(x, win + k)
      BY <2>4, <2>7
    <2>11. \A b \in Blobs(spec, chunkIdx), w \in 0 .. Windows - 1 :
             Written(b, w)' <=> Written(b, w) \/ (b = x /\ win <= w /\ w < win + Len(block))
      BY <2>7, <2>8
    <2> QED
      BY <1>1, <1>2, <2>3, <2>5, <2>6, <2>9, <2>10, <2>11, FileGrows
  <1> QED
    BY <1>4, <1>6, <1>7, <1>8 DEF ParityLoop

LEMMA FileStep ==
  ASSUME CommitInv, PlaceInv, StreamInv, StreamInv', GroupInv, ParityPlace,
         Calm, Calm', PosInv, FileParts, [Next]_vars
  PROVE  FileParts'
  <1>1. CASE UNCHANGED vars \/ CallAfterClose
    <2>1. UNCHANGED <<spec, cpc, chunkIdx, disk, plainSize, next, lpc, flush, ppc, win, q>>
      BY <1>1 DEF CallAfterClose, vars, callerVars, loopVars, countVars, parityVars, groupVars,
                  fileVars
    <2>2. \A b, w : Written(b, w)' <=> Written(b, w)
      BY <2>1 DEF Written, Counted, Flushing
    <2> QED
      BY <2>1, <2>2, FileKept
  <1>2. CASE UserCalls \/ CallerRuns
    <2>1. UNCHANGED <<spec, next, lpc, plainSize, flush, ppc, win, q>>
      BY <1>2 DEF UserCalls, CallerRuns, CallerFrame, loopVars, countVars, parityVars, groupVars
    <2>2. \A b, w : Written(b, w)' <=> Written(b, w)
      BY <2>1 DEF Written, Counted, Flushing
    <2>3. CASE EnqueueChunk
      BY <1>2, <2>3, FileEnqueue DEF UserCalls, CallerRuns
    <2>4. CASE WriteTrailer
      BY <1>2, <2>4, FileTrailer DEF UserCalls, CallerRuns
    <2>5. CASE ~ EnqueueChunk /\ ~ WriteTrailer
      <3>1. /\ UNCHANGED <<disk, chunkIdx>>
            /\ cpc # "committed" /\ cpc' # "committed"
        BY <1>2, <2>5
        DEF UserCalls, CallerRuns, Write, Close, FillChunk, EnqueueChunk, WriteReturns,
            DrainCloseEncode, DrainCloseOut, DrainFlushLast, DrainClosePar, DrainReturns,
            SeekTrailer, TrailerFault, Seek, CallerGoes, fileVars
      <3> QED
        BY <2>1, <2>2, <3>1, FileKept
    <2> QED
      BY <2>3, <2>4, <2>5
  <1>3. CASE \E w \in Workers : Worker(w)
    <2>1. UNCHANGED <<spec, cpc, chunkIdx, disk, plainSize, next, lpc, flush, ppc, win, q>>
      BY <1>3 DEF Worker, WorkerFrame, callerVars, loopVars, countVars, parityVars, groupVars,
                  fileVars
    <2>2. \A b, w : Written(b, w)' <=> Written(b, w)
      BY <2>1 DEF Written, Counted, Flushing
    <2> QED
      BY <2>1, <2>2, FileKept
  <1> QED
    BY <1>1, <1>2, <1>3, FileLoop, FileParity DEF Next

LEMMA DiskStep ==
  ASSUME HandoverInv, HandoverInv', Calm => SeeksApart, (Calm => SeeksApart)',
         DiskInv, [Next]_vars
  PROVE  DiskInv'
  <1>1. ParityPlace'
    BY ParityPlaceStep DEF DiskInv, HandoverInv
  <1>2. ASSUME Calm' PROVE (PosInv /\ FileParts)'
    <2>1. Calm
      BY <1>2, CalmBefore DEF HandoverInv
    <2>2. PosInv /\ FileParts
      BY <2>1 DEF DiskInv
    <2>3. PosInv'
      BY <1>2, <2>1, <2>2, PosStep DEF HandoverInv
    <2>4. FileParts'
      BY <1>2, <2>1, <2>2, FileStep DEF HandoverInv, DiskInv
    <2> QED
      BY <2>3, <2>4
  <1> QED
    BY <1>1, <1>2 DEF DiskInv

LEMMA DiskInit ==
  ASSUME Init
  PROVE  DiskInv
  <1>1. /\ ppc = "recv" /\ win = 0 /\ lpc = "scan" /\ next = 0 /\ cpc = "idle"
        /\ flush.kData = 0 /\ chunkIdx = 0 /\ spec \in LayoutSpecs
    BY PipelineAssumption DEF Init, FlushMsg
  <1>2. DOMAIN disk = {} /\ disk = [u \in DOMAIN disk |-> disk[u]]
    <2>1. disk = << >>
      BY DEF Init
    <2> QED
      BY <2>1
  <1>3. Blobs(spec, chunkIdx) = {}
    BY <1>1, EmptyVault
  <1> QED
    BY <1>1, <1>2, <1>3
    DEF DiskInv, ParityPlace, Flushing, PosInv, FileParts, OnDisk, NothingElse, TrailerOnDisk

\* what Close leaves is the whole vault
LEMMA Committed ==
  ASSUME HandoverInv, DiskInv, cpc = "committed"
  PROVE  disk = WholeVault(chunkIdx, plainSize)
  <1> DEFINE n == chunkIdx
             b(u) == CHOOSE b \in Blobs(spec, n) : BlobOffset(spec, n, b) = u \div Windows
             V(u) == IF u = End THEN TrailerUnit(n, plainSize)
                     ELSE IF b(u)[1] = "data" THEN DataUnit(b(u)[2], u % Windows)
                     ELSE ParityUnit([i \in 1 .. DataChunksInGroup(b(u)[2], n) |->
                                        b(u)[2] * FileGroupChunks + i - 1],
                                     b(u)[3], u % Windows)
  <1>0. /\ spec \in LayoutSpecs /\ n \in Nat /\ Windows \in Nat \ {0} /\ next \in Nat
        /\ TotalBlobCount(spec, n) \in Nat /\ End \in Nat
    <2>1. spec \in LayoutSpecs /\ n \in Nat /\ Windows \in Nat \ {0} /\ next \in Nat
      BY VaultTypes DEF HandoverInv
    <2>2. TotalBlobCount(spec, n) \in Nat
      BY <2>1, OffsetsAreNat
    <2> QED
      BY <2>1, <2>2, SMT DEF End
  <1>1. Calm /\ cpc \in AfterParity
    BY DEF HandoverInv, Calm, CommitInv, CountInv, Trailing, AfterParity
  <1>2. FileParts /\ lpc = "done" /\ ppc = "done"
    BY <1>1 DEF DiskInv, HandoverInv, CommitInv, OrderInv, AfterLoop
  <1>3. ASSUME NEW x \in Blobs(spec, n), NEW w \in 0 .. Windows - 1
        PROVE  Place(x, w) \in DOMAIN disk /\ disk[Place(x, w)] = UnitOf(x, w)
    <2>1. Written(x, w)
      <3>1. n > 0
        <4>1. n # 0
          BY <1>0, <1>3, EmptyVault
        <4> QED
          BY <1>0, <4>1
      <3>2. flush.kData > 0 /\ flush.g = GroupCount(n) - 1 /\ ~ Flushing
        BY <1>1, <1>2, <3>1, FlushSeen DEF Flushing, HandoverInv, Calm
      <3>3. Counted = n
        BY <1>2 DEF Counted, HandoverInv, PlaceInv, AllTaken
      <3>4. x[1] = "data" => x[2] < n
        BY <1>0, <1>3, VaultBlobs
      <3>5. x[1] # "data" => x[2] < flush.g \/ x[2] = flush.g
        <4>1. SUFFICES ASSUME x[1] # "data" PROVE x[2] < flush.g \/ x[2] = flush.g
          OBVIOUS
        <4>2. PICK g \in 0 .. GroupCount(n) - 1 :
                     \E y \in 0 .. GroupParity(spec, g, n) - 1 : x = <<"parity", g, y>>
          BY <1>3, <4>1, VaultBlobs
        <4>3. x[2] = g
          BY <4>2
        <4>4. flush.g \in Nat
          BY StreamTypes DEF HandoverInv, ParityMsg
        <4> QED
          BY <3>2, <4>2, <4>3, <4>4
      <3> QED
        BY <3>2, <3>3, <3>4, <3>5 DEF Written
    <2> QED
      BY <1>2, <2>1 DEF FileParts, OnDisk
  <1>4. ASSUME NEW u \in 0 .. End, u # End
        PROVE  /\ b(u) \in Blobs(spec, n) /\ u % Windows \in 0 .. Windows - 1
               /\ Place(b(u), u % Windows) = u
    <2>1. /\ u \div Windows \in Nat /\ (u % Windows) \in 0 .. Windows - 1
          /\ u = (u \div Windows) * Windows + (u % Windows)
      <3>1. u \in Nat
        BY <1>0
      <3> QED
        BY <1>0, <3>1, DivMod
    <2> DEFINE d == u \div Windows
               r == u % Windows
               T == TotalBlobCount(spec, n)
    <2>2. d \in 0 .. T - 1
      <3>1. d * Windows + r < T * Windows
        <4>1. u < End
          BY <1>0, <1>4
        <4> QED
          BY <2>1, <4>1 DEF End
      <3>2. d \in Nat /\ r \in Nat /\ T \in Nat /\ Windows \in Nat
        BY <1>0, <2>1
      <3> HIDE DEF d, r, T
      <3>3. d * Windows \in Nat /\ T * Windows \in Nat
        BY <3>2, SMT
      <3>4. CASE T <= d
        <4>1. T < d => T * Windows + Windows <= d * Windows
          BY <3>2, ProductGap
        <4>2. T * Windows <= d * Windows
          BY <3>2, <3>3, <3>4, <4>1
        <4> QED
          BY <3>1, <3>2, <3>3, <4>2
      <3> QED
        BY <3>2, <3>4
    <2>3. \E x \in Blobs(spec, n) : BlobOffset(spec, n, x) = d
      <3>1. n \in Nat \ {0}
        <4>1. CASE n = 0
          BY <2>2, <4>1, <1>0, EmptyVault
        <4> QED
          BY <1>0, <4>1
      <3> QED
        BY <1>0, <2>2, <3>1, FileCovered
    <2>4. b(u) \in Blobs(spec, n) /\ BlobOffset(spec, n, b(u)) = d
      BY <2>3
    <2> QED
      BY <2>1, <2>4 DEF Place
  <1>5. ASSUME NEW u \in 0 .. End PROVE u \in DOMAIN disk /\ disk[u] = V(u)
    <2>1. CASE u = End
      BY <1>2, <2>1 DEF FileParts, TrailerOnDisk
    <2>2. CASE u # End
      <3> DEFINE x == b(u)
                 w == u % Windows
      <3>1. x \in Blobs(spec, n) /\ w \in 0 .. Windows - 1 /\ Place(x, w) = u
        BY <1>4, <2>2
      <3>2. u \in DOMAIN disk /\ disk[u] = UnitOf(x, w)
        BY <1>3, <3>1
      <3>3. V(u) = IF x[1] = "data" THEN DataUnit(x[2], w)
                   ELSE ParityUnit([i \in 1 .. DataChunksInGroup(x[2], n) |->
                                      x[2] * FileGroupChunks + i - 1], x[3], w)
        BY <2>2
      <3> HIDE DEF x, w, V
      <3>4. CASE x[1] = "data"
        BY <3>2, <3>3, <3>4 DEF UnitOf
      <3>5. CASE x[1] # "data"
        <4>1. Start(x[2]) = x[2] * FileGroupChunks
          BY DEF Start, K
        <4> QED
          BY <3>2, <3>3, <3>5, <4>1 DEF UnitOf
      <3> QED
        BY <3>2, <3>4, <3>5
    <2> QED
      BY <2>1, <2>2
  <1>6. ASSUME NEW u \in DOMAIN disk PROVE u \in 0 .. End
    <2>1. CASE u = End
      BY <1>0, <2>1
    <2>2. CASE u # End
      <3>1. PICK x \in Blobs(spec, n), w \in 0 .. Windows - 1 : u = Place(x, w)
        BY <1>2, <2>2 DEF FileParts, NothingElse
      <3>2. n \in Nat \ {0}
        BY <1>0, <3>1, EmptyVault
      <3>3. u \in 0 .. End - 1
        BY <1>0, <3>1, <3>2, PlacesDiffer DEF Place, End
      <3> QED
        BY <1>0, <3>3
    <2> QED
      BY <2>1, <2>2
  <1>7. disk = [u \in 0 .. End |-> V(u)]
    <2>1. DOMAIN disk = 0 .. End
      BY <1>5, <1>6
    <2>2. disk = [u \in DOMAIN disk |-> disk[u]]
      BY <1>2 DEF FileParts
    <2> HIDE DEF V
    <2> QED
      BY <1>5, <2>1, <2>2, Zenon
  <1> QED
    BY <1>7 DEF WholeVault, End

-----------------------------------------------------------------------------
(* The theorems about the file.                                            *)

LEMMA HandoverInit ==
  ASSUME Init
  PROVE  HandoverInv
  BY CommitInit, PlaceInit, OwnInit, StreamInit, GroupInit DEF HandoverInv

LEMMA HandoverStep ==
  ASSUME HandoverInv, [Next]_vars
  PROVE  HandoverInv'
  <1>1. CommitInv' /\ PlaceInv'
    BY CommitStep, PlaceStep DEF HandoverInv
  <1>2. OwnInv'
    BY OwnStep DEF HandoverInv
  <1>3. StreamInv'
    BY StreamStep DEF HandoverInv
  <1>4. GroupInv'
    BY GroupStep DEF HandoverInv
  <1> QED
    BY <1>1, <1>2, <1>3, <1>4 DEF HandoverInv

\* chunks are only ever added
LEMMA ChunksGrow ==
  ASSUME CommitInv, [Next]_vars
  PROVE  chunkIdx \in Nat /\ chunkIdx' \in Nat /\ chunkIdx <= chunkIdx'
  <1>0. chunkIdx \in Nat
    BY VaultTypes
  <1>1. CASE EnqueueChunk
    <2>1. chunkIdx' = chunkIdx + 1
      BY <1>1 DEF EnqueueChunk
    <2> QED
      BY <1>0, <2>1
  <1>2. CASE (UserCalls \/ CallerRuns) /\ ~ EnqueueChunk
    <2>1. UNCHANGED chunkIdx
      BY <1>2
      DEF UserCalls, CallerRuns, Write, Close, FillChunk, WriteReturns, CallerGoes,
          DrainCloseEncode, DrainCloseOut, DrainFlushLast, DrainClosePar, DrainReturns,
          SeekTrailer, WriteTrailer, TrailerFault
    <2> QED
      BY <1>0, <2>1
  <1>3. CASE ~ UserCalls /\ ~ CallerRuns
    <2>1. UNCHANGED chunkIdx
      BY <1>3
      DEF Next, CallAfterClose, vars, callerVars, Worker, WorkerFrame, WriteLoop, LoopFrame,
          ParityLoop, ParityFrame
    <2> QED
      BY <1>0, <2>1
  <1> QED
    BY <1>1, <1>2, <1>3

(* CompleteIfApart, for every vault: as long as no two seekWrites have     *)
(* overlapped, whenever Close returns nil every data blob, every parity    *)
(* blob and the trailer are at their place with the right content, and the *)
(* file holds nothing else.  What the workers, the channels and the two    *)
(* loops do to each other otherwise, and where they fail, does not matter. *)
THEOREM ApartVault == ApartSpec => []CompleteIfApart
  <1> DEFINE ApartInv == ~ overlapped => SeeksApart /\ DiskInv
  <1>1. ApartInit => HandoverInv /\ ApartInv
    <2>1. Init => SeeksApart
      BY DEF Init, SeeksApart
    <2> QED
      BY <2>1, HandoverInit, DiskInit DEF ApartInit
  <1>2. HandoverInv /\ [ApartNext]_apartVars => HandoverInv'
    BY HandoverStep DEF ApartNext, apartVars
  <1>3. HandoverInv /\ HandoverInv' /\ ApartInv /\ [ApartNext]_apartVars => ApartInv'
    <2> SUFFICES ASSUME HandoverInv, HandoverInv', ApartInv, [ApartNext]_apartVars,
                        ~ overlapped'
                 PROVE  SeeksApart' /\ DiskInv'
      OBVIOUS
    <2>1. ~ overlapped /\ SeeksApart' /\ [Next]_vars
      <3>1. CASE ApartNext
        BY <3>1 DEF ApartNext
      <3>2. CASE UNCHANGED apartVars
        <4>1. ~ overlapped /\ UNCHANGED vars
          BY <3>2 DEF apartVars
        <4>2. UNCHANGED <<lpc, ppc>>
          BY <4>1 DEF vars, loopVars, parityVars
        <4> QED
          BY <4>1, <4>2 DEF SeeksApart
      <3> QED
        BY <3>1, <3>2
    <2> QED
      BY <2>1, DiskStep
  <1>4. HandoverInv /\ ApartInv => CompleteIfApart
    BY Committed DEF VaultComplete, CompleteIfApart
  <1> QED
    BY <1>1, <1>2, <1>3, <1>4, PTL DEF ApartSpec

(* The same without the history: a behaviour of the pipeline in which no   *)
(* two seekWrites overlap, which is what a lock around the pair of calls   *)
(* would give, has a complete vault at every Close that returns nil.       *)
THEOREM VaultUnderLock == Spec /\ []SeeksApart => []VaultComplete
  <1>1. Init => HandoverInv /\ DiskInv
    BY HandoverInit, DiskInit
  <1>2. HandoverInv /\ [Next]_vars => HandoverInv'
    BY HandoverStep
  <1>3. HandoverInv /\ HandoverInv' /\ SeeksApart /\ SeeksApart' /\ DiskInv /\ [Next]_vars
          => DiskInv'
    BY DiskStep
  <1>4. HandoverInv /\ DiskInv => VaultComplete
    BY Committed DEF VaultComplete
  <1> QED
    BY <1>1, <1>2, <1>3, <1>4, PTL DEF Spec

(* VaultComplete without that premise, for a vault of at most one group:   *)
(* there the seekWrites cannot overlap.                                    *)
THEOREM OneGroupVault == Spec => [](chunkIdx <= FileGroupChunks => VaultComplete)
  <1> DEFINE Small == chunkIdx <= FileGroupChunks
             SmallApart == Small /\ Calm => SeeksApart
             SmallInv == Small => DiskInv
  <1>1. Init => HandoverInv /\ SmallInv
    BY HandoverInit, DiskInit
  <1>2. HandoverInv /\ [Next]_vars => HandoverInv'
    BY HandoverStep
  <1>3. HandoverInv => SmallApart
    BY OneGroupApart DEF HandoverInv, Calm, K
  <1>4. HandoverInv /\ HandoverInv' /\ SmallApart /\ SmallApart' /\ SmallInv /\ [Next]_vars
          => SmallInv'
    <2> SUFFICES ASSUME HandoverInv, HandoverInv', SmallApart, SmallApart', SmallInv,
                        [Next]_vars, Small'
                 PROVE  DiskInv'
      OBVIOUS
    <2>1. FileGroupChunks \in Nat
      BY LayoutAssumption
    <2>2. chunkIdx \in Nat /\ chunkIdx' \in Nat /\ chunkIdx <= chunkIdx'
      BY ChunksGrow DEF HandoverInv
    <2>3. Small
      BY <2>1, <2>2
    <2> QED
      BY <2>3, DiskStep
  <1>5. HandoverInv /\ SmallInv => (Small => VaultComplete)
    BY Committed DEF VaultComplete
  <1> HIDE DEF Small, SmallApart, SmallInv
  <1>6. Spec => [](Small => VaultComplete)
    BY <1>1, <1>2, <1>3, <1>4, <1>5, PTL DEF Spec
  <1> QED
    BY <1>6 DEF Small

-----------------------------------------------------------------------------
(* VaultWriter.  Until Close has written the trailer a reader finds no     *)
(* vault, and then it finds the vault of the accepted bytes.               *)
TrailerInv == \A u \in DOMAIN disk : disk[u].kind = "trailer" => cpc = "committed"
BytesInv == accepted + rest <= MaxBytes

\* the state of VaultWriter, and its steps
StateOf ==
    CASE cpc \in {"idle", "write"} -> "open"
      [] cpc \in {"committed", "failed"} -> cpc
      [] OTHER -> "closing"
NoVault == [chunkCount |-> -1, plainSize |-> -1, stored |-> {}]
ChunksFor(n) == (n + ChunkPlainSize - 1) \div ChunkPlainSize

\* what a step may write: nothing, or a block without a trailer
Blind ==
    \/ UNCHANGED disk
    \/ \E block : /\ Len(block) \in Nat /\ WriteBlock(block)
                  /\ \A k \in 1 .. Len(block) : block[k].kind # "trailer"

LEMMA BlindKeeps ==
  ASSUME pos \in Nat, TrailerInv, Blind, cpc = "committed" => cpc' = "committed"
  PROVE  TrailerInv'
  <1>1. CASE UNCHANGED disk
    BY <1>1 DEF TrailerInv
  <1>2. ASSUME NEW block, Len(block) \in Nat, WriteBlock(block),
               \A k \in 1 .. Len(block) : block[k].kind # "trailer"
        PROVE  TrailerInv'
    <2>1. /\ DOMAIN disk' = DOMAIN disk \cup (pos .. pos + Len(block) - 1)
          /\ \A k \in 0 .. Len(block) - 1 : disk'[pos + k] = block[k + 1]
          /\ \A u \in DOMAIN disk : u \notin pos .. pos + Len(block) - 1 => disk'[u] = disk[u]
      BY <1>2, WriteLeaves
    <2>2. ASSUME NEW u \in pos .. pos + Len(block) - 1 PROVE disk'[u].kind # "trailer"
      <3>1. /\ u - pos \in 0 .. Len(block) - 1 /\ pos + (u - pos) = u
            /\ (u - pos) + 1 \in 1 .. Len(block)
        BY <1>2, <2>2
      <3> QED
        BY <1>2, <2>1, <3>1
    <2> QED
      BY <2>1, <2>2 DEF TrailerInv
  <1> QED
    BY <1>1, <1>2 DEF Blind

LEMMA TearsBlind ==
  ASSUME NEW n \in Nat, TearFile(n)
  PROVE  Blind
  <1>1. CASE UNCHANGED fileVars
    BY <1>1 DEF Blind, fileVars
  <1>2. ASSUME NEW k \in 1 .. n, WriteBlock([u \in 1 .. k |-> TornUnit]) PROVE Blind
    <2> DEFINE block == [u \in 1 .. k |-> TornUnit]
    <2>1. Len(block) = k /\ k \in Nat
      BY SMT
    <2>2. \A i \in 1 .. k : block[i].kind # "trailer"
      BY DEF TornUnit
    <2> HIDE DEF block
    <2>3. WriteBlock(block)
      BY <1>2 DEF block
    <2> QED
      BY <2>1, <2>2, <2>3 DEF Blind
  <1> QED
    BY <1>1, <1>2 DEF TearFile

LEMMA TrailerStep ==
  ASSUME CommitInv, TrailerInv, [Next]_vars
  PROVE  TrailerInv'
  <1>0. pos \in Nat /\ Windows \in Nat
    BY VaultTypes
  <1>1. CASE WriteTrailer
    <2>1. CASE cpc' = "committed"
      BY <2>1 DEF TrailerInv
    <2>2. CASE cpc' # "committed"
      <3>1. TearFile(1) /\ cpc # "committed"
        BY <1>1, <2>2 DEF WriteTrailer, CallerGoes
      <3> QED
        BY <1>0, <3>1, TearsBlind, BlindKeeps
    <2> QED
      BY <2>1, <2>2
  <1>2. CASE (UserCalls \/ CallerRuns) /\ ~ WriteTrailer
    <2>1. UNCHANGED disk /\ cpc # "committed"
      BY <1>2
      DEF UserCalls, CallerRuns, Write, Close, FillChunk, EnqueueChunk, WriteReturns,
          DrainCloseEncode, DrainCloseOut, DrainFlushLast, DrainClosePar, DrainReturns,
          SeekTrailer, Seek, fileVars
    <2> QED
      BY <2>1 DEF TrailerInv
  <1>3. CASE UNCHANGED vars \/ CallAfterClose \/ \E w \in Workers : Worker(w)
    <2>1. UNCHANGED <<disk, cpc>>
      BY <1>3 DEF CallAfterClose, vars, fileVars, callerVars, Worker, WorkerFrame
    <2> QED
      BY <2>1 DEF TrailerInv
  <1>4. CASE WriteLoop
    <2>1. UNCHANGED cpc
      BY <1>4 DEF WriteLoop, LoopFrame, callerVars
    <2>2. CASE LoopWrite
      <3>1. CASE TearFile(Windows)
        BY <1>0, <2>1, <3>1, TearsBlind, BlindKeeps
      <3>2. CASE WriteBlock(DataBlock(cur.idx))
        <4>1. Len(DataBlock(cur.idx)) = Windows
          BY <1>0, SMT DEF DataBlock
        <4>2. \A k \in 1 .. Windows : DataBlock(cur.idx)[k].kind # "trailer"
          BY DEF DataBlock, DataUnit
        <4>3. Blind
          BY <1>0, <3>2, <4>1, <4>2 DEF Blind
        <4> QED
          BY <1>0, <2>1, <4>3, BlindKeeps
      <3> QED
        BY <2>2, <3>1, <3>2 DEF LoopWrite
    <2>3. CASE ~ LoopWrite
      <3>1. UNCHANGED disk
        BY <1>4, <2>3 DEF WriteLoop, LoopReceive, LoopSkipFailed, LoopSeek, LoopHandOver,
                          LoopFlushGroup, LoopExit, Seek, fileVars
      <3> QED
        BY <2>1, <3>1 DEF TrailerInv
    <2> QED
      BY <2>2, <2>3
  <1>5. CASE ParityLoop
    <2>1. UNCHANGED cpc
      BY <1>5 DEF ParityLoop, ParityFrame, callerVars
    <2>2. CASE ParityWrite
      <3>1. CASE TearFile(1)
        BY <1>0, <2>1, <3>1, TearsBlind, BlindKeeps
      <3>2. CASE WriteBlock(<<ParityUnit(parOut, q, win)>>)
        <4> DEFINE block == <<ParityUnit(parOut, q, win)>>
        <4>1. Len(block) = 1 /\ block[1].kind = "parity"
          BY DEF ParityUnit
        <4> HIDE DEF block
        <4>2. WriteBlock(block)
          BY <3>2 DEF block
        <4>3. \A k \in 1 .. Len(block) : k = 1
          BY <4>1
        <4>4. Blind
          BY <4>1, <4>2, <4>3 DEF Blind
        <4> QED
          BY <1>0, <2>1, <4>4, BlindKeeps
      <3> QED
        BY <2>2, <3>1, <3>2 DEF ParityWrite
    <2>3. CASE ~ ParityWrite
      <3>1. UNCHANGED disk
        BY <1>5, <2>3 DEF ParityLoop, ParityReceiveBlob, ParityReceiveFlush, ParityEncode,
                          ParitySeek, ParityExit, Seek, fileVars
      <3> QED
        BY <2>1, <3>1 DEF TrailerInv
    <2> QED
      BY <2>2, <2>3
  <1> QED
    BY <1>1, <1>2, <1>3, <1>4, <1>5 DEF Next

LEMMA BytesStep ==
  ASSUME CommitInv, BytesInv, [Next]_vars
  PROVE  BytesInv'
  <1>0. accepted \in Nat /\ rest \in Nat /\ chunkLen \in Nat /\ MaxBytes \in Nat
        /\ ChunkPlainSize \in Nat
    BY PipelineAssumption DEF CommitInv, TypeInv, CallerTypeOK
  <1>1. CASE UserCalls \/ CallerRuns
    <2>1. CASE \E n \in 1 .. MaxBytes : Write(n)
      <3>1. PICK n \in 1 .. MaxBytes : Write(n)
        BY <2>1
      <3> QED
        BY <1>0, <3>1 DEF Write, BytesInv
    <2>2. CASE FillChunk
      BY <1>0, <2>2 DEF FillChunk, Lesser, BytesInv
    <2>3. CASE ~ (\E n \in 1 .. MaxBytes : Write(n)) /\ ~ FillChunk
      <3>1. UNCHANGED <<accepted, rest>>
        BY <1>1, <2>3
        DEF UserCalls, CallerRuns, Close, EnqueueChunk, WriteReturns,
            DrainCloseEncode, DrainCloseOut, DrainFlushLast, DrainClosePar, DrainReturns,
            SeekTrailer, WriteTrailer, TrailerFault, CallerGoes
      <3> QED
        BY <3>1 DEF BytesInv
    <2> QED
      BY <2>1, <2>2, <2>3
  <1>2. ~ UserCalls /\ ~ CallerRuns => UNCHANGED <<accepted, rest>>
    BY DEF Next, CallAfterClose, vars, callerVars, Worker, WorkerFrame, WriteLoop, LoopFrame,
           ParityLoop, ParityFrame
  <1> QED
    BY <1>1, <1>2 DEF BytesInv

\* so many bytes make no more than one group
LEMMA FitsOneGroup ==
  ASSUME CommitInv, BytesInv, MaxBytes <= FileGroupChunks * ChunkPlainSize
  PROVE  chunkIdx <= K
  <1>0. /\ accepted \in Nat /\ rest \in Nat /\ chunkLen \in Nat /\ MaxBytes \in Nat
        /\ CPS \in Nat \ {0} /\ K \in Nat \ {0} /\ chunkIdx \in Nat
    BY PipelineAssumption, LayoutAssumption DEF CommitInv, TypeInv, CallerTypeOK, CPS, K
  <1>1. (chunkIdx - 1) * CPS < accepted /\ accepted <= K * CPS
    <2>1. (chunkIdx - 1) * CPS < accepted - chunkLen
      BY DEF CommitInv, CountInv, Enqueued
    <2>2. (chunkIdx - 1) * CPS \in Int /\ K * CPS \in Int
      BY <1>0, SMT
    <2>3. MaxBytes <= K * CPS
      BY DEF K, CPS
    <2> QED
      BY <1>0, <2>1, <2>2, <2>3 DEF BytesInv
  <1>2. CASE K < chunkIdx
    <2>1. K * CPS + CPS <= chunkIdx * CPS
      BY <1>0, <1>2, ProductGap
    <2>2. chunkIdx * CPS = (chunkIdx - 1) * CPS + CPS
      BY <1>0, SMT
    <2>3. (chunkIdx - 1) * CPS \in Int /\ K * CPS \in Int
      BY <1>0, SMT
    <2> QED
      BY <1>0, <1>1, <2>1, <2>2, <2>3
  <1> QED
    BY <1>0, <1>2

\* no trailer, no vault
LEMMA NothingFound ==
  ASSUME TrailerInv, cpc # "committed"
  PROVE  VaultFound = NoVault
  BY DEF TrailerInv, VaultFound, NoVault

\* the chunks that many bytes need
LEMMA ChunksCount ==
  ASSUME NEW d \in Nat \ {0}, NEW n \in Nat, NEW a \in Nat, (n - 1) * d < a, a <= n * d
  PROVE  (a + d - 1) \div d = n
  <1> DEFINE m == a + d - 1
  <1>1. n * d \in Nat /\ (n - 1) * d = n * d - d
    BY SMT
  <1>2. m \in Nat /\ m - n * d \in 0 .. d - 1 /\ n * d + (m - n * d) = m
    BY <1>1
  <1> HIDE DEF m
  <1>3. m \div d \in Nat /\ (m % d) \in 0 .. d - 1 /\ m = (m \div d) * d + (m % d)
    BY <1>2, DivMod
  <1>4. PICK x \in 0 .. d - 1 : n * d + x = m
    BY <1>2
  <1>5. PICK y \in Nat, z \in 0 .. d - 1 : y = m \div d /\ m = y * d + z
    BY <1>3
  <1>6. y = n
    BY <1>4, <1>5, SameRow
  <1> QED
    BY <1>5, <1>6 DEF m

\* what a reader finds after Close
LEMMA WholeFound ==
  ASSUME HandoverInv, DiskInv, CommitMeansAll, cpc = "committed"
  PROVE  VaultFound = [chunkCount |-> ChunksFor(accepted), plainSize |-> accepted,
                       stored |-> 0 .. ChunksFor(accepted) - 1]
  <1>0. spec \in LayoutSpecs /\ chunkIdx \in Nat
    BY VaultTypes DEF HandoverInv
  <1>1. Calm /\ FileParts /\ cpc \in AfterParity
    BY DEF DiskInv, Calm, HandoverInv, CommitInv, CountInv, Trailing, AfterParity
  <1>2. End \in DOMAIN disk /\ disk[End] = TrailerUnit(chunkIdx, plainSize)
    BY <1>1 DEF FileParts, TrailerOnDisk
  <1>3. ASSUME NEW i \in 0 .. chunkIdx - 1 PROVE Stored(i)
    <2>1. SUFFICES ASSUME NEW w \in 0 .. Windows - 1
                   PROVE  /\ Place(<<"data", i>>, w) \in DOMAIN disk
                          /\ disk[Place(<<"data", i>>, w)] = DataUnit(i, w)
      BY DEF Stored, Place, BlobOffset
    <2>2. <<"data", i>> \in Blobs(spec, chunkIdx)
      BY VaultBlobs
    <2>3. Counted = chunkIdx
      BY <1>1 DEF Counted, HandoverInv, PlaceInv, AllTaken, CommitInv, OrderInv, AfterLoop
    <2>4. Written(<<"data", i>>, w)
      BY <1>0, <2>3 DEF Written
    <2> QED
      BY <1>1, <2>2, <2>4 DEF FileParts, OnDisk, UnitOf
  <1>4. VaultFound = [chunkCount |-> chunkIdx, plainSize |-> plainSize,
                      stored |-> 0 .. chunkIdx - 1]
    <2>1. disk[End].kind = "trailer" /\ disk[End].chunkCount = chunkIdx
          /\ disk[End].plainSize = plainSize
      BY <1>2 DEF TrailerUnit
    <2>2. {i \in 0 .. chunkIdx - 1 : Stored(i)} = 0 .. chunkIdx - 1
      BY <1>3
    <2> QED
      BY <1>2, <2>1, <2>2 DEF VaultFound, End
  <1>5. plainSize = accepted /\ ChunksFor(accepted) = chunkIdx
    <2>1. /\ plainSize = accepted /\ (chunkIdx - 1) * CPS < accepted
          /\ accepted <= chunkIdx * CPS
      BY DEF CommitMeansAll, CPS
    <2>2. accepted \in Nat /\ CPS \in Nat \ {0}
      BY PipelineAssumption DEF HandoverInv, CommitInv, TypeInv, CallerTypeOK, CPS
    <2> QED
      BY <1>0, <2>1, <2>2, ChunksCount DEF ChunksFor, CPS
  <1> QED
    BY <1>4, <1>5

-----------------------------------------------------------------------------
\* the steps of VaultWriter, in terms of the pipeline
Accepts == \E n \in 1 .. MaxBytes :
    /\ StateOf = "open" /\ accepted' = accepted + n
    /\ StateOf' = StateOf /\ VaultFound' = VaultFound
Closes(to) == /\ StateOf' = to /\ accepted' = accepted
Stutters == StateOf' = StateOf /\ accepted' = accepted /\ VaultFound' = VaultFound
Simulated ==
    \/ Accepts
    \/ StateOf = "open" /\ Closes("closing") /\ VaultFound' = VaultFound
    \/ /\ StateOf = "closing" /\ Closes("committed")
       /\ VaultFound' = [chunkCount |-> ChunksFor(accepted), plainSize |-> accepted,
                         stored |-> 0 .. ChunksFor(accepted) - 1]
    \/ StateOf = "closing" /\ Closes("failed") /\ VaultFound' = VaultFound
    \/ Stutters

LEMMA SimulatedIs == Simulated <=> [Abstract!Next]_(Abstract!vwVars)
  <1>1. Accepts <=> \E n \in 1 .. MaxBytes : Abstract!Accept(n)
    BY DEF Accepts, Abstract!Accept, StateOf
  <1>2. StateOf = "open" /\ Closes("closing") /\ VaultFound' = VaultFound
          <=> Abstract!BeginClose
    BY DEF Closes, Abstract!BeginClose, StateOf
  <1>3. (/\ StateOf = "closing" /\ Closes("committed")
         /\ VaultFound' = [chunkCount |-> ChunksFor(accepted), plainSize |-> accepted,
                           stored |-> 0 .. ChunksFor(accepted) - 1])
          <=> Abstract!Commit
    BY DEF Closes, Abstract!Commit, Abstract!VaultOf, Abstract!ChunksFor, ChunksFor, StateOf
  <1>4. StateOf = "closing" /\ Closes("failed") /\ VaultFound' = VaultFound
          <=> Abstract!Fail
    BY DEF Closes, Abstract!Fail, StateOf
  <1>5. Stutters <=> UNCHANGED (Abstract!vwVars)
    BY DEF Stutters, Abstract!vwVars, StateOf
  <1> QED
    BY <1>1, <1>2, <1>3, <1>4, <1>5 DEF Simulated, Abstract!Next, Abstract!EndClose

\* a step that neither accepts bytes nor ends Close
LEMMA Unseen ==
  ASSUME TrailerInv, TrailerInv', UNCHANGED <<accepted, StateOf>>,
         cpc # "committed", cpc' # "committed"
  PROVE  Simulated
  <1>1. VaultFound = NoVault
    BY NothingFound
  <1>2. VaultFound' = NoVault
    BY DEF TrailerInv, VaultFound, NoVault
  <1> QED
    BY <1>1, <1>2 DEF Simulated, Stutters

LEMMA VaultStep ==
  ASSUME CommitInv, TrailerInv, TrailerInv', BytesInv, [Next]_vars,
         cpc' = "committed" =>
           VaultFound' = [chunkCount |-> ChunksFor(accepted'), plainSize |-> accepted',
                          stored |-> 0 .. ChunksFor(accepted') - 1]
  PROVE  Simulated
  <1>0. /\ accepted \in Nat /\ rest \in Nat /\ chunkLen \in 0 .. ChunkPlainSize
        /\ ChunkPlainSize \in Nat /\ MaxBytes \in Nat
    BY PipelineAssumption DEF CommitInv, TypeInv, CallerTypeOK
  <1>1. cpc # "committed" => VaultFound = NoVault
    BY NothingFound
  <1>2. cpc' # "committed" => VaultFound' = NoVault
    BY DEF TrailerInv, VaultFound, NoVault
  <1>3. CASE UNCHANGED vars \/ CallAfterClose
    <2>1. UNCHANGED vars
      BY <1>3 DEF CallAfterClose
    <2>2. UNCHANGED <<StateOf, accepted, VaultFound>>
      BY <2>1 DEF vars, callerVars, loopVars, fileVars, StateOf, VaultFound, Stored
    <2> QED
      BY <2>2 DEF Simulated, Stutters
  <1>4. CASE (\E w \in Workers : Worker(w)) \/ WriteLoop \/ ParityLoop
    <2>1. UNCHANGED <<cpc, accepted>>
      BY <1>4 DEF Worker, WorkerFrame, WriteLoop, LoopFrame, ParityLoop, ParityFrame, callerVars
    <2>2. cpc # "committed"
      BY <1>4, Running DEF CommitInv, AfterParity, Trailing
    <2> QED
      BY <2>1, <2>2, Unseen DEF StateOf
  <1>5. CASE CallerRuns /\ FillChunk
    <2>1. cpc = "write" /\ UNCHANGED cpc
      BY <1>5 DEF FillChunk
    <2>2. PICK n \in 1 .. MaxBytes : accepted' = accepted + n
      <3> DEFINE n == Lesser(ChunkPlainSize - chunkLen, rest)
      <3>1. rest > 0 /\ chunkLen < ChunkPlainSize /\ accepted' = accepted + n
        BY <1>5 DEF FillChunk
      <3>2. rest <= MaxBytes
        BY <1>0 DEF BytesInv
      <3>3. n \in 1 .. MaxBytes
        BY <1>0, <3>1, <3>2 DEF Lesser
      <3> QED
        BY <3>1, <3>3
    <2>3. StateOf = "open" /\ StateOf' = StateOf /\ VaultFound' = VaultFound
      BY <1>1, <1>2, <2>1 DEF StateOf
    <2> QED
      BY <2>2, <2>3 DEF Simulated, Accepts
  <1>6. CASE UserCalls /\ Close
    <2>1. cpc = "idle" /\ cpc' = "drain" /\ accepted' = accepted
      BY <1>6 DEF Close, CallerGoes
    <2>2. StateOf = "open" /\ Closes("closing") /\ VaultFound' = VaultFound
      BY <1>1, <1>2, <2>1 DEF StateOf, Closes
    <2> QED
      BY <2>2 DEF Simulated
  <1>7. CASE CallerRuns /\ (DrainReturns \/ SeekTrailer \/ WriteTrailer)
    <2>1. /\ cpc \in {"waitParity", "seekTrailer", "writeTrailer"} /\ accepted' = accepted
          /\ cpc' \in {"failed", "seekTrailer", "writeTrailer", "committed"}
      BY <1>7 DEF DrainReturns, SeekTrailer, WriteTrailer, TrailerFault, CallerGoes
    <2>2. StateOf = "closing"
      BY <2>1 DEF StateOf
    <2>3. CASE cpc' = "failed"
      <3>1. StateOf' = "failed" /\ VaultFound' = VaultFound
        BY <1>1, <1>2, <2>1, <2>3 DEF StateOf
      <3> QED
        BY <2>1, <2>2, <3>1 DEF Simulated, Closes
    <2>4. CASE cpc' = "committed"
      <3>1. StateOf' = "committed"
        BY <2>4 DEF StateOf
      <3> QED
        BY <2>1, <2>2, <2>4, <3>1 DEF Simulated, Closes
    <2>5. CASE cpc' \in {"seekTrailer", "writeTrailer"}
      <3>1. StateOf' = StateOf
        BY <2>2, <2>5 DEF StateOf
      <3> QED
        BY <2>1, <2>5, <3>1, Unseen
    <2> QED
      BY <2>1, <2>3, <2>4, <2>5
  <1>8. CASE \/ UserCalls /\ ~ Close
             \/ CallerRuns /\ ~ FillChunk /\ ~ DrainReturns /\ ~ SeekTrailer /\ ~ WriteTrailer
    <2>1. accepted' = accepted
      BY <1>8
      DEF UserCalls, CallerRuns, Write, EnqueueChunk, WriteReturns, CallerGoes,
          DrainCloseEncode, DrainCloseOut, DrainFlushLast, DrainClosePar
    <2>2. \/ cpc \in {"idle", "write"} /\ cpc' \in {"idle", "write"}
          \/ /\ cpc \in {"drain", "waitWorkers", "waitLoop", "closePar"}
             /\ cpc' \in {"drain", "waitWorkers", "waitLoop", "closePar", "waitParity"}
      BY <1>8
      DEF UserCalls, CallerRuns, Write, EnqueueChunk, WriteReturns, CallerGoes,
          DrainCloseEncode, DrainCloseOut, DrainFlushLast, DrainClosePar
    <2>3. StateOf' = StateOf /\ cpc # "committed" /\ cpc' # "committed"
      BY <2>2 DEF StateOf
    <2> QED
      BY <2>1, <2>3, Unseen
  <1> QED
    BY <1>3, <1>4, <1>5, <1>6, <1>7, <1>8 DEF Next

\* the implementation, from the one premise that both theorems establish
LEMMA ImplementsIfApart ==
  Spec /\ [](Calm => SeeksApart) => Abstract!Init /\ [][Abstract!Next]_(Abstract!vwVars)
  <1> DEFINE Facts == HandoverInv /\ TrailerInv /\ BytesInv
             Apart == Calm => SeeksApart
             Found ==
               cpc = "committed" =>
                 VaultFound = [chunkCount |-> ChunksFor(accepted), plainSize |-> accepted,
                               stored |-> 0 .. ChunksFor(accepted) - 1]
  <1>1. Init => Facts /\ DiskInv /\ Abstract!Init
    <2> SUFFICES ASSUME Init PROVE Facts /\ DiskInv /\ Abstract!Init
      OBVIOUS
    <2>1. DOMAIN disk = {}
      BY DEF Init
    <2>2. TrailerInv /\ BytesInv
      BY <2>1, PipelineAssumption DEF Init, TrailerInv, BytesInv
    <2>3. cpc = "idle" /\ accepted = 0 /\ VaultFound = NoVault
      BY <2>2, NothingFound DEF Init
    <2>4. Abstract!Init
      BY <2>3 DEF Abstract!Init, Abstract!NoVault, NoVault
    <2> QED
      BY <2>2, <2>4, HandoverInit, DiskInit
  <1>2. Facts /\ [Next]_vars => Facts'
    BY HandoverStep, TrailerStep, BytesStep DEF HandoverInv
  <1>3. Facts /\ Facts' /\ Apart /\ Apart' /\ DiskInv /\ [Next]_vars => DiskInv'
    BY DiskStep
  <1>4. Facts /\ DiskInv /\ CommitMeansAll => Found
    BY WholeFound
  <1>5. Facts /\ Facts' /\ Found' /\ [Next]_vars => [Abstract!Next]_(Abstract!vwVars)
    BY VaultStep, SimulatedIs DEF HandoverInv
  <1> HIDE DEF Facts, Apart, Found
  <1>6. Spec /\ []Apart => Abstract!Init /\ [][Abstract!Next]_(Abstract!vwVars)
    BY <1>1, <1>2, <1>3, <1>4, <1>5, CommitIsHonest, PTL DEF Spec
  <1> QED
    BY <1>6 DEF Apart

(* The pipeline implements VaultWriter as long as no two seekWrites        *)
(* overlap: whatever else the goroutines do, a user sees bytes accepted,   *)
(* and a Close that either commits the vault of exactly those bytes, every *)
(* chunk at its place, or fails and leaves no trailer.  This is            *)
(* ImplementsVaultWriter without its liveness, that Close returns.         *)
THEOREM PipelineIsVaultWriterApart ==
  Spec /\ []SeeksApart => Abstract!Init /\ [][Abstract!Next]_(Abstract!vwVars)
  <1>1. SeeksApart => (Calm => SeeksApart)
    OBVIOUS
  <1> QED
    BY <1>1, ImplementsIfApart, PTL

(* And it implements VaultWriter without that premise when what may be     *)
(* written fits in one group.                                              *)
THEOREM PipelineIsVaultWriter ==
  MaxBytes <= FileGroupChunks * ChunkPlainSize
    => (Spec => Abstract!Init /\ [][Abstract!Next]_(Abstract!vwVars))
  <1> SUFFICES ASSUME MaxBytes <= FileGroupChunks * ChunkPlainSize
               PROVE  Spec => Abstract!Init /\ [][Abstract!Next]_(Abstract!vwVars)
    OBVIOUS
  <1> DEFINE Facts == HandoverInv /\ BytesInv
  <1>1. Init => Facts
    <2>1. Init => BytesInv
      BY PipelineAssumption DEF Init, BytesInv
    <2> QED
      BY <2>1, HandoverInit
  <1>2. Facts /\ [Next]_vars => Facts'
    BY HandoverStep, BytesStep DEF HandoverInv
  <1>3. Facts => (Calm => SeeksApart)
    <2> SUFFICES ASSUME Facts, Calm PROVE SeeksApart
      OBVIOUS
    <2>1. chunkIdx <= K
      BY FitsOneGroup DEF HandoverInv
    <2> QED
      BY <2>1, OneGroupApart DEF HandoverInv, Calm
  <1> HIDE DEF Facts
  <1> QED
    BY <1>1, <1>2, <1>3, ImplementsIfApart, PTL DEF Spec
=============================================================================
