---------------------------- MODULE LayoutGrowth ----------------------------
(***************************************************************************)
(* A vault that grows by one chunk at a time under one layout spec: the    *)
(* arithmetic of Layout evaluated at every size.  The state is the spec    *)
(* of the file, fixed by NewWriter, and the number of chunks the writer    *)
(* has accepted (Pipeline.chunkIdx).                                       *)
(***************************************************************************)
EXTENDS Layout, FiniteSets

CONSTANT
    GrowthSpecs,    \* the layout specs looked at, a subset of LayoutSpecs
    MaxChunks       \* bound on the chunks of the vault

ASSUME GrowthAssumption ==
    /\ GrowthSpecs \subseteq LayoutSpecs
    /\ MaxChunks \in Nat

VARIABLES spec, chunkCount

vars == <<spec, chunkCount>>

Init ==
    /\ spec \in GrowthSpecs
    /\ chunkCount = 0

AddChunk ==
    /\ chunkCount < MaxChunks
    /\ chunkCount' = chunkCount + 1
    /\ UNCHANGED spec

Next == AddChunk

GrowthSpec == Init /\ [][Next]_vars

-----------------------------------------------------------------------------
Offsets(blobs) == {BlobOffset(spec, chunkCount, b) : b \in blobs}

(* No two blobs of a vault share an offset: a data or parity blob written  *)
(* at DataBlobOffset or ParityBlobOffset never lands on another one, in    *)
(* either layout and with a short last group.                              *)
BlobsDisjoint ==
    Cardinality(Offsets(Blobs(spec, chunkCount)))
      = chunkCount + Cardinality(ParityBlobs(spec, chunkCount))

(* The blobs fill the positions 0 .. TotalBlobCount - 1 exactly, so the    *)
(* trailer that closeRSDual writes at TotalBlobCount overwrites no blob    *)
(* and leaves no hole, and the size Validate computes is the size of the   *)
(* file.                                                                   *)
BlobsFillFile ==
    Offsets(Blobs(spec, chunkCount))
      = 0 .. TotalBlobCount(spec, chunkCount) - 1

(* Appending a chunk moves no blob that may already be in the file and     *)
(* puts no new blob on top of one: data blobs and the parity of full       *)
(* groups keep their offset (this is what lets writeLoop and parityLoop    *)
(* write before the number of chunks is known).                            *)
SettledBlobsStay ==
    [][ LET settled == SettledBlobs(spec, chunkCount)
            added   == Blobs(spec, chunkCount') \ settled
        IN  /\ settled \subseteq Blobs(spec, chunkCount')
            /\ \A b \in settled :
                 /\ BlobOffset(spec, chunkCount', b)
                      = BlobOffset(spec, chunkCount, b)
                 /\ \A a \in added :
                      BlobOffset(spec, chunkCount', a)
                        # BlobOffset(spec, chunkCount, b)
      ]_vars
=============================================================================
