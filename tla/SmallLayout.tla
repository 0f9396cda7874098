---------------------------- MODULE SmallLayout ----------------------------
(***************************************************************************)
(* The sizes of a vault of the two small-file schemes                      *)
(* (internal/layout/layout.go).  Unlike those of an rs-dual vault they     *)
(* depend on the length of the plaintext, byte by byte.                    *)
(***************************************************************************)
EXTENDS Integers

CONSTANTS
    HeaderSize,         \* of the rs-strong blob (32 in the code)
    GCMHeaderSize,      \* of the gcm-only body, magic and nonce (16)
    TagSize,            \* of a GCM tag and of a shard tag (16)
    KStrong, MStrong    \* data and parity slots of rs-strong (32 and 64)

ASSUME SmallLayoutAssumption ==
    /\ HeaderSize \in Nat \ {0} /\ GCMHeaderSize \in Nat \ {0}
    /\ TagSize \in Nat \ {0}
    /\ KStrong \in Nat \ {0} /\ MStrong \in Nat \ {0}

StrongSlots == KStrong + MStrong

GCMOnlyPayloadSize(plainSize) == GCMHeaderSize + plainSize + TagSize

\* ceil(n / d)
CeilDiv(n, d) == (n + d - 1) \div d

\* header, ciphertext and tag: the bytes of the data area that mean something
StrongDataLen(plainSize) == HeaderSize + plainSize + TagSize

StrongShardSize(plainSize) == CeilDiv(StrongDataLen(plainSize), KStrong)

(* The data slots that hold any of these bytes.  The rest of the data area *)
(* is zero padding, in the last of them and in whole slots after it.       *)
UsedSlots(plainSize) == CeilDiv(StrongDataLen(plainSize), StrongShardSize(plainSize))
=============================================================================
