------------------------------- MODULE Layout -------------------------------
(***************************************************************************)
(* The layout arithmetic of internal/layout/layout.go: how many groups a   *)
(* vault of chunkCount chunks has, and at which offset every data and      *)
(* parity blob lives.                                                      *)
(*                                                                         *)
(* Every offset the package computes is a multiple of BlobDiskSize, so     *)
(* this module counts in blobs: an offset here is the package's offset     *)
(* divided by BlobDiskSize.                                                *)
(***************************************************************************)
EXTENDS Integers

CONSTANTS
    FileGroupChunks,    \* data blobs of a full group (128 in the code)
    FileParityShards    \* parity blobs of a v2 group (64 in the code)

ASSUME LayoutAssumption ==
    /\ FileGroupChunks \in Nat \ {0}
    /\ FileParityShards \in 1..FileGroupChunks

Lesser(a, b) == IF a <= b THEN a ELSE b

(***************************************************************************)
(* layout.Spec: the format version and the cap on the parity of a group.   *)
(* A manifest has version 2 or 3 and, in version 3, a cap between 1 and    *)
(* FileParityShards (WithFileParity, Manifest.validateRSDual).             *)
(***************************************************************************)
SpecV2 == [Version |-> 2, M2Cap |-> FileParityShards]
SpecV3(m2cap) == [Version |-> 3, M2Cap |-> m2cap]
LayoutSpecs == {SpecV2} \cup {SpecV3(m) : m \in 1..FileParityShards}

BlobsPerFullGroup == FileGroupChunks + FileParityShards

GroupCount(chunkCount) ==
    IF chunkCount = 0 THEN 0 ELSE ((chunkCount - 1) \div FileGroupChunks) + 1

LastGroupChunks(chunkCount) ==
    chunkCount - (GroupCount(chunkCount) - 1) * FileGroupChunks

\* mutant: every group is taken for the last one
DataChunksAsLast(g, chunkCount) == LastGroupChunks(chunkCount)

DataChunksInGroup(g, chunkCount) ==
    IF g = GroupCount(chunkCount) - 1
    THEN LastGroupChunks(chunkCount)
    ELSE FileGroupChunks

groupSpan(s) ==
    IF s.Version >= 3 THEN FileGroupChunks + s.M2Cap ELSE BlobsPerFullGroup

ParityCountFor(s, kData) ==
    IF s.Version >= 3 THEN Lesser(s.M2Cap, kData) ELSE FileParityShards

GroupParity(s, g, chunkCount) ==
    ParityCountFor(s, DataChunksInGroup(g, chunkCount))

\* mutant: a v2 group starts with its data
DataBlobOffsetDataFirst(s, i) ==
    (i \div FileGroupChunks) * groupSpan(s) + (i % FileGroupChunks)

DataBlobOffset(s, i) ==
    (i \div FileGroupChunks) * groupSpan(s)
      + (IF s.Version >= 3 THEN 0 ELSE FileParityShards)
      + (i % FileGroupChunks)

ParityBlobOffset(s, g, kData, q) ==
    g * groupSpan(s) + (IF s.Version >= 3 THEN kData ELSE 0) + q

\* mutant: the last group is counted with the cap, not with its own parity
TotalBlobCountCapped(s, chunkCount) ==
    IF chunkCount = 0 THEN 0
    ELSE (GroupCount(chunkCount) - 1) * groupSpan(s)
           + LastGroupChunks(chunkCount) + s.M2Cap

TotalBlobCount(s, chunkCount) ==
    IF chunkCount = 0 THEN 0
    ELSE (GroupCount(chunkCount) - 1) * groupSpan(s)
           + LastGroupChunks(chunkCount)
           + ParityCountFor(s, LastGroupChunks(chunkCount))

(***************************************************************************)
(* The blobs of a vault: <<"data", i>> is data blob i, <<"parity", g, q>>  *)
(* the q-th parity blob of group g.  BlobOffset is the offset the writer   *)
(* and the reader use for it.                                              *)
(***************************************************************************)
DataBlobs(chunkCount) == {<<"data", i>> : i \in 0 .. chunkCount - 1}

ParityBlobs(s, chunkCount) ==
    UNION {{<<"parity", g, q>> : q \in 0 .. GroupParity(s, g, chunkCount) - 1} :
             g \in 0 .. GroupCount(chunkCount) - 1}

Blobs(s, chunkCount) == DataBlobs(chunkCount) \cup ParityBlobs(s, chunkCount)

BlobOffset(s, chunkCount, b) ==
    IF b[1] = "data"
    THEN DataBlobOffset(s, b[2])
    ELSE ParityBlobOffset(s, b[2], DataChunksInGroup(b[2], chunkCount), b[3])

(***************************************************************************)
(* The blobs a writer can already have put in the file when it has         *)
(* accepted chunkCount chunks and more may follow: every data blob, and    *)
(* the parity of the groups that are full (writeLoop flushes a group the   *)
(* moment it has FileGroupChunks chunks).                                  *)
(***************************************************************************)
SettledBlobs(s, chunkCount) ==
    DataBlobs(chunkCount)
      \cup {b \in ParityBlobs(s, chunkCount) :
              (b[2] + 1) * FileGroupChunks <= chunkCount}
=============================================================================
