---------------------------- MODULE LayoutProofs ----------------------------
(***************************************************************************)
(* The properties of LayoutGrowth hold for every FileGroupChunks,          *)
(* FileParityShards, layout spec and number of chunks.  What they say      *)
(* about the arithmetic is proved in LayoutLemmas.                         *)
(***************************************************************************)
EXTENDS LayoutGrowth, LayoutLemmas, FiniteSetTheorems

\* the state of LayoutGrowth: a spec of layout.Spec and a number of chunks
GrowthTypeOK == spec \in LayoutSpecs /\ chunkCount \in Nat

\* Every reachable state of a growing vault has the expected type.
THEOREM GrowthType == GrowthSpec => []GrowthTypeOK
  <1>1. Init => GrowthTypeOK
    BY GrowthAssumption DEF Init, GrowthTypeOK
  <1>2. GrowthTypeOK /\ [Next]_vars => GrowthTypeOK'
    BY DEF GrowthTypeOK, Next, AddChunk, vars
  <1> QED
    BY <1>1, <1>2, PTL DEF GrowthSpec

(* For every FileGroupChunks, FileParityShards, layout spec and number of  *)
(* chunks, the blobs of a vault occupy the places before the trailer, all  *)
(* of them and no other (DataBlobOffset, ParityBlobOffset, TotalBlobCount  *)
(* of layout.go).                                                          *)
THEOREM FileIsFilled == GrowthSpec => []BlobsFillFile
  <1>1. GrowthTypeOK => BlobsFillFile
    <2> SUFFICES ASSUME GrowthTypeOK
                 PROVE  Offsets(Blobs(spec, chunkCount))
                          = 0 .. TotalBlobCount(spec, chunkCount) - 1
      BY DEF BlobsFillFile
    <2>1. CASE chunkCount = 0
      BY <2>1, EmptyVault DEF GrowthTypeOK, Offsets
    <2>2. CASE chunkCount # 0
      <3>1. spec \in LayoutSpecs /\ chunkCount \in Nat \ {0}
        BY <2>2 DEF GrowthTypeOK
      <3>2. \A b \in Blobs(spec, chunkCount) :
              BlobOffset(spec, chunkCount, b) \in 0 .. TotalBlobCount(spec, chunkCount) - 1
        BY <3>1, OffsetInFile
      <3>3. \A u \in 0 .. TotalBlobCount(spec, chunkCount) - 1 :
              \E b \in Blobs(spec, chunkCount) : BlobOffset(spec, chunkCount, b) = u
        BY <3>1, FileCovered
      <3> QED
        BY <3>2, <3>3 DEF Offsets
    <2> QED
      BY <2>1, <2>2
  <1> QED
    BY <1>1, GrowthType, PTL

(* For all of them, no two blobs of a vault share an offset, so no blob is *)
(* written over another one.                                               *)
THEOREM OffsetsAreDistinct == GrowthSpec => []BlobsDisjoint
  <1>1. GrowthTypeOK => BlobsDisjoint
    <2> DEFINE B == Blobs(spec, chunkCount)
               D == DataBlobs(chunkCount)
               R == ParityBlobs(spec, chunkCount)
               T == 0 .. TotalBlobCount(spec, chunkCount) - 1
               off(b) == BlobOffset(spec, chunkCount, b)
    <2> SUFFICES ASSUME GrowthTypeOK
                 PROVE  Cardinality(Offsets(B)) = chunkCount + Cardinality(R)
      BY DEF BlobsDisjoint
    <2>1. CASE chunkCount = 0
      <3>1. B = {} /\ R = {}
        BY <2>1, EmptyVault DEF GrowthTypeOK, Blobs
      <3>2. Offsets(B) = {}
        BY <3>1 DEF Offsets
      <3> QED
        BY <2>1, <3>1, <3>2, FS_EmptySet
    <2>2. CASE chunkCount # 0
      <3>1. spec \in LayoutSpecs /\ chunkCount \in Nat \ {0}
        BY <2>2 DEF GrowthTypeOK
      <3>2. TotalBlobCount(spec, chunkCount) \in Nat
        BY <3>1, OffsetsAreNat
      <3>3. IsFiniteSet(T)
        BY <3>2, FS_Interval
      <3> DEFINE f == [b \in B |-> off(b)]
      <3>4. f \in Injection(B, T)
        <4>1. f \in [B -> T]
          BY <3>1, OffsetInFile
        <4>2. \A a, b \in B : f[a] = f[b] => a = b
          BY <3>1, OffsetsDiffer
        <4> QED
          BY <4>1, <4>2 DEF Injection, IsInjective
      <3>5. IsFiniteSet(B)
        BY <3>3, <3>4, FS_Injection
      <3>6. Cardinality(Offsets(B)) = Cardinality(B)
        <4>1. f \in Bijection(B, Offsets(B))
          <5>1. f \in [B -> Offsets(B)]
            BY DEF Offsets
          <5>2. \A a, b \in B : f[a] = f[b] => a = b
            BY <3>4 DEF Injection, IsInjective
          <5>3. \A u \in Offsets(B) : \E b \in B : f[b] = u
            BY DEF Offsets
          <5> QED
            BY <5>1, <5>2, <5>3 DEF Bijection, Injection, Surjection, IsInjective
        <4> QED
          BY <4>1, <3>5, FS_Bijection DEF ExistsBijection
      <3>7. Cardinality(D) = chunkCount /\ IsFiniteSet(D)
        <4> DEFINE S == 0 .. chunkCount - 1
                   h == [i \in S |-> <<"data", i>>]
        <4>1. IsFiniteSet(S) /\ Cardinality(S) = chunkCount
          BY <3>1, FS_Interval
        <4>2. h \in Bijection(S, D)
          <5>1. h \in [S -> D]
            BY DEF DataBlobs
          <5>2. \A i, j \in S : h[i] = h[j] => i = j
            OBVIOUS
          <5>3. \A d \in D : \E i \in S : h[i] = d
            BY DEF DataBlobs
          <5> QED
            BY <5>1, <5>2, <5>3 DEF Bijection, Injection, Surjection, IsInjective
        <4> HIDE DEF S, h
        <4> QED
          BY <4>1, <4>2, FS_Bijection DEF ExistsBijection
      <3>8. B = D \cup R /\ D \cap R = {}
        BY DEF Blobs, DataBlobs, ParityBlobs
      <3>9. IsFiniteSet(R) /\ Cardinality(R) \in Nat
        BY <3>5, <3>8, FS_Subset, FS_CardinalityType
      <3>10. Cardinality(D \cap R) = 0
        BY <3>8, FS_EmptySet
      <3>11. Cardinality(B) = Cardinality(D) + Cardinality(R) - Cardinality(D \cap R)
        BY <3>7, <3>8, <3>9, FS_Union
      <3> HIDE DEF B, D, R
      <3> QED
        BY <3>1, <3>6, <3>7, <3>9, <3>10, <3>11, SMT
    <2> QED
      BY <2>1, <2>2
  <1> QED
    BY <1>1, GrowthType, PTL

(* For all of them, a blob that the pipeline can have written before it    *)
(* knows the number of chunks stays where it is when a chunk is added, and *)
(* no new blob comes on top of it.                                         *)
THEOREM SettledStay == GrowthSpec => SettledBlobsStay
  <1> DEFINE settled == SettledBlobs(spec, chunkCount)
             added   == Blobs(spec, chunkCount') \ settled
             Stay    == /\ settled \subseteq Blobs(spec, chunkCount')
                        /\ \A b \in settled :
                             /\ BlobOffset(spec, chunkCount', b)
                                  = BlobOffset(spec, chunkCount, b)
                             /\ \A a \in added :
                                  BlobOffset(spec, chunkCount', a)
                                    # BlobOffset(spec, chunkCount, b)
  <1>1. GrowthTypeOK /\ [Next]_vars => [Stay]_vars
    <2> SUFFICES ASSUME GrowthTypeOK, AddChunk
                 PROVE  Stay
      BY DEF Next
    <2>1. /\ spec \in LayoutSpecs /\ chunkCount \in Nat
          /\ chunkCount' = chunkCount + 1 /\ chunkCount + 1 \in Nat \ {0}
      BY DEF GrowthTypeOK, AddChunk
    <2>2. ASSUME NEW b \in settled
          PROVE  /\ b \in Blobs(spec, chunkCount')
                 /\ BlobOffset(spec, chunkCount', b) = BlobOffset(spec, chunkCount, b)
      BY <2>1, SettledKeep
    <2>3. ASSUME NEW b \in settled, NEW a \in added
          PROVE  BlobOffset(spec, chunkCount', a) # BlobOffset(spec, chunkCount, b)
      <3>1. a # b /\ a \in Blobs(spec, chunkCount')
        OBVIOUS
      <3>2. BlobOffset(spec, chunkCount', a) # BlobOffset(spec, chunkCount', b)
        BY <2>1, <2>2, <3>1, OffsetsDiffer
      <3> QED
        BY <2>2, <3>2
    <2> HIDE DEF settled, added
    <2> QED
      BY <2>2, <2>3
  <1> QED
    BY <1>1, GrowthType, PTL DEF GrowthSpec, SettledBlobsStay
=============================================================================
