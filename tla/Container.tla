----------------------------- MODULE Container -----------------------------
(***************************************************************************)
(* The body of an rs-dual vault on disk and the read path over it:         *)
(* internal/engine/container.go and window.go.                             *)
(*                                                                         *)
(* A blob is ShardsPerBlob slots of a payload and its tag.  A slot is      *)
(*    Bad      the tag does not match the payload (both are damage the     *)
(*             code cannot tell apart), or                                 *)
(*    a value  the tag matches: True for the payload the writer computed,  *)
(*             Wrong for any other payload.                                *)
(* A parity column of a group is the Reed-Solomon code of the column of    *)
(* the group's data blobs, so its value is the sequence of the data values *)
(* it encodes.                                                             *)
(***************************************************************************)
EXTENDS Layout, Sequences, FiniteSets

CONSTANTS
    DataShards, ParityShards,   \* slots of a blob (256 and 128 in the code)
    WindowCols,                 \* columns of a window (32)
    ChunkCount,                 \* chunks of the vault
    LastUsed,                   \* data slots of the last chunk GCM covers
    VaultSpec                   \* its layout spec

ASSUME ContainerAssumption ==
    /\ DataShards \in Nat \ {0} /\ ParityShards \in Nat \ {0}
    /\ WindowCols \in Nat \ {0}
    /\ ChunkCount \in Nat \ {0}
    /\ LastUsed \in 1..DataShards
    /\ VaultSpec \in LayoutSpecs

VARIABLES
    data,       \* data[i][s]: slot s of data blob i
    parity      \* parity[g][p][s]: slot s of the p-th parity blob of group g

bodyVars == <<data, parity>>

Bad == "bad"
True == "true"
Wrong == "wrong"

Slots == 0 .. DataShards + ParityShards - 1
Windows == 0 .. (Cardinality(Slots) - 1) \div WindowCols
WindowSlots(w) == {s \in Slots : s \div WindowCols = w}

Chunks == 0 .. ChunkCount - 1
Groups == 0 .. GroupCount(ChunkCount) - 1
DataChunks(g) == DataChunksInGroup(g, ChunkCount)
ParityOf(g) == GroupParity(VaultSpec, g, ChunkCount)
GroupOf(i) == i \div FileGroupChunks
ChunksOf(g) == {i \in Chunks : GroupOf(i) = g}

\* the code of the column s of group g as the data blobs stand
BadColumn == << >>
Column(g, s) == [i \in 1..DataChunks(g) |-> data[g * FileGroupChunks + i - 1][s]]
TrueColumn(g) == [i \in 1..DataChunks(g) |-> True]

-----------------------------------------------------------------------------
(* A blob in memory is a function from slots to values.                    *)

\* GatherBlob: the slots whose tag does not verify
BadSlots(blob) == {s \in Slots : blob[s] = Bad}

\* RepairIntra: up to ParityShards erasures, exact when the rest is true (the
\* library looks at DataShards of them only, so this may call Wrong what is exact)
Repairable(blob) == Cardinality(BadSlots(blob)) \in 1..ParityShards

RepairIntra(blob) ==
    LET exact == \A s \in Slots \ BadSlots(blob) : blob[s] = True
    IN  [s \in Slots |-> IF blob[s] # Bad THEN blob[s]
                         ELSE IF exact THEN True ELSE Wrong]

\* DecodeChunk: header checks and GCM cover the slots that hold the ciphertext
UsedSlots(i) == IF i = ChunkCount - 1 THEN 0 .. LastUsed - 1 ELSE 0 .. DataShards - 1
Decodes(i, blob) == \A s \in UsedSlots(i) : blob[s] = True

-----------------------------------------------------------------------------
(* RebuildMissing(g, missing): every window of every other blob is read;   *)
(* a window with a bad slot is an erasure, and so is a missing blob.       *)
\* mutant: readWindow takes a column without looking at its tags
AnyDataWindow(i, w) == TRUE
DataWindowOK(i, w) == \A s \in WindowSlots(w) : data[i][s] # Bad
ParityWindowOK(g, p, w) == \A s \in WindowSlots(w) : parity[g][p][s] # BadColumn

UsableData(g, missing, w) == {i \in ChunksOf(g) \ missing : DataWindowOK(i, w)}
UsableParity(g, w) == {p \in 0 .. ParityOf(g) - 1 : ParityWindowOK(g, p, w)}

Erasures(g, missing, w) ==
    DataChunks(g) + ParityOf(g)
      - Cardinality(UsableData(g, missing, w)) - Cardinality(UsableParity(g, w))

\* mutant: erasures >= m is already too many
CanRebuildBelow(g, missing) ==
    /\ Cardinality(missing) \in 1..ParityOf(g)
    /\ \A w \in Windows : Erasures(g, missing, w) < ParityOf(g)

CanRebuild(g, missing) ==
    /\ Cardinality(missing) \in 1..ParityOf(g)
    /\ \A w \in Windows : Erasures(g, missing, w) <= ParityOf(g)

(* Reconstruct of one column: the decoder takes the first DataChunks(g)    *)
(* usable shards, data before parity.  When the parity among them encodes  *)
(* the data among them it returns what that parity encodes, and otherwise  *)
(* something else.                                                         *)
RebuiltSlot(g, missing, i, s) ==
    LET w == s \div WindowCols
        usable == UsableData(g, missing, w)
        need == DataChunks(g) - Cardinality(usable)
        taken == {p \in UsableParity(g, w) :
                    Cardinality({o \in UsableParity(g, w) : o < p}) < need}
        codes == {parity[g][p][s] : p \in taken}
        at(c) == c - g * FileGroupChunks + 1
        agrees(y) == \A c \in usable : y[at(c)] = data[c][s]
    IN  IF \E y \in codes : codes = {y} /\ agrees(y) /\ y[at(i)] = True
        THEN True ELSE Wrong

RebuiltBlob(g, missing, i) == [s \in Slots |-> RebuiltSlot(g, missing, i, s)]

-----------------------------------------------------------------------------
(* LoadChunk (Reader.ReadChunkAt): gather, repair inside the blob, else    *)
(* rebuild from the group, then decode.  Loads(i) says it returns the      *)
(* plaintext; what it returns is authenticated, so it is the right one.    *)
Loads(i) ==
    IF BadSlots(data[i]) = {} THEN Decodes(i, data[i])
    ELSE IF Repairable(data[i]) THEN Decodes(i, RepairIntra(data[i]))
    ELSE /\ CanRebuild(GroupOf(i), {i})
         /\ Decodes(i, RebuiltBlob(GroupOf(i), {i}, i))

BodyTypeOK ==
    /\ data \in [Chunks -> [Slots -> {Bad, True, Wrong}]]
    /\ DOMAIN parity = Groups
    /\ \A g \in Groups :
         /\ DOMAIN parity[g] = 0 .. ParityOf(g) - 1
         /\ \A p \in DOMAIN parity[g] : \A s \in Slots :
              parity[g][p][s] = BadColumn
                \/ parity[g][p][s] \in [1..DataChunks(g) -> {True, Wrong}]

\* the body as the writer left it
IntactBody ==
    /\ data = [i \in Chunks |-> [s \in Slots |-> True]]
    /\ parity = [g \in Groups |-> [p \in 0 .. ParityOf(g) - 1 |->
                   [s \in Slots |-> TrueColumn(g)]]]
=============================================================================
