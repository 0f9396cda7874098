----------------------------- MODULE Plaintext -----------------------------
(***************************************************************************)
(* The plaintext of a vault as a Reader offers it (reader.go).  A byte is  *)
(* represented by its position, and the plaintext comes in units: the      *)
(* chunks of an rs-dual vault, or everything at once (gcm-only and         *)
(* rs-strong).                                                             *)
(***************************************************************************)
EXTENDS Integers, Sequences

CONSTANTS
    ChunkPlainSize,     \* bytes of a full chunk
    PlainSize           \* Manifest.PlainSize

ASSUME PlaintextAssumption ==
    /\ ChunkPlainSize \in Nat \ {0}
    /\ PlainSize \in Nat

VARIABLE
    singleBlob          \* the scheme is gcm-only or rs-strong, see the manifest

Lesser(a, b) == IF a <= b THEN a ELSE b

\* the bytes from position a up to, not including, position b
Bytes(a, b) == [k \in 1 .. (IF a < b THEN b - a ELSE 0) |-> a + k - 1]

\* the valid indexes of ReadChunkAt
Units == IF singleBlob THEN {0}
         ELSE 0 .. (PlainSize + ChunkPlainSize - 1) \div ChunkPlainSize - 1

UnitStart(u) == IF singleBlob THEN 0 ELSE u * ChunkPlainSize
UnitAt(pos) == IF singleBlob THEN 0 ELSE pos \div ChunkPlainSize

PlainOf(u) ==
    IF singleBlob THEN Bytes(0, PlainSize)
    ELSE Bytes(UnitStart(u), Lesser(UnitStart(u + 1), PlainSize))

(* What a call returns: the bytes, the error, and the unit that could not  *)
(* be read (-1 for any other outcome).                                     *)
Returned(data, err, unit) == [data |-> data, err |-> err, unit |-> unit]
=============================================================================
