---------------------------- MODULE VaultWriter ----------------------------
(***************************************************************************)
(* What Writer promises its user, with no goroutine in sight: bytes are    *)
(* accepted until Close; Close ends in one of two ways.  Either the vault  *)
(* is committed, and then its manifest counts exactly the accepted bytes   *)
(* and every chunk is stored at its place, or Close fails and there is no  *)
(* manifest, so no reader can open the file.                               *)
(***************************************************************************)
EXTENDS Integers

CONSTANTS ChunkPlainSize, MaxBytes

VARIABLES
    state,     \* "open", "closing", "committed" or "failed"
    bytes,     \* plaintext bytes accepted
    vault      \* what a reader finds: the manifest and the chunks in place

vwVars == <<state, bytes, vault>>

NoVault == [chunkCount |-> -1, plainSize |-> -1, stored |-> {}]

\* ceil(n / ChunkPlainSize)
ChunksFor(n) == (n + ChunkPlainSize - 1) \div ChunkPlainSize

VaultOf(n) == [chunkCount |-> ChunksFor(n), plainSize |-> n,
               stored |-> 0 .. ChunksFor(n) - 1]

Init == state = "open" /\ bytes = 0 /\ vault = NoVault

Accept(n) ==
    /\ state = "open"
    /\ bytes' = bytes + n
    /\ UNCHANGED <<state, vault>>

BeginClose ==
    /\ state = "open"
    /\ state' = "closing"
    /\ UNCHANGED <<bytes, vault>>

Commit ==
    /\ state = "closing"
    /\ state' = "committed"
    /\ vault' = VaultOf(bytes)
    /\ UNCHANGED bytes

Fail ==
    /\ state = "closing"
    /\ state' = "failed"
    /\ UNCHANGED <<bytes, vault>>

EndClose == Commit \/ Fail

Next == (\E n \in 1..MaxBytes : Accept(n)) \/ BeginClose \/ EndClose

\* a Close that was called returns
Spec == Init /\ [][Next]_vwVars /\ WF_vwVars(EndClose)
=============================================================================
