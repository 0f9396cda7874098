----------------------------- MODULE MCReader -----------------------------
(* Small instances of Reader for TLC: three bytes in chunks of two.        *)
EXTENDS ReaderProps

CONSTANTS c1, c2

ReadAt(at, len) == [op |-> "ReadAt", at |-> at, len |-> len]
ReadChunkAt(i) == [op |-> "ReadChunkAt", at |-> i, len |-> 0]

\* up to the end, across it, beyond it, a whole chunk, one that is not there, refused
MCCalls == {ReadAt(1, 2), ReadAt(2, 2), ReadAt(3, 1), ReadAt(-1, 1), ReadAt(1, 0),
            ReadChunkAt(0), ReadChunkAt(2)}
=============================================================================
