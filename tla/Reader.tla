------------------------------ MODULE Reader ------------------------------
(***************************************************************************)
(* reader.go: any number of goroutines call ReadAt and ReadChunkAt of one  *)
(* Reader.  In an rs-dual vault a chunk is looked up in a cache of one     *)
(* chunk, loaded when it is not there and then cached; cacheMu is held for *)
(* the look-up and for the update, not between them and not while a caller *)
(* copies from the chunk.  In a single-blob vault the first caller loads   *)
(* everything, holding cacheMu.                                            *)
(*                                                                         *)
(* Meanwhile units of the medium become unreadable and readable again.     *)
(* What LoadChunk and LoadAll return is authenticated: the plaintext, or   *)
(* an error.                                                               *)
(*                                                                         *)
(* Slices refer to buffers, and a caller may write to a slice it was       *)
(* given: one that it shares with the cache would show.                    *)
(***************************************************************************)
EXTENDS Plaintext, FiniteSets

CONSTANTS
    Callers, NoCaller,
    MaxBufs,            \* buffers for loaded plaintext
    Calls               \* the calls a caller may make

ASSUME ReaderAssumption ==
    /\ NoCaller \notin Callers /\ Callers \cap 0..MaxBufs = {}
    /\ Calls \subseteq [op : {"ReadAt", "ReadChunkAt"}, at : Int, len : Nat]
    \* the buffers never run out: every caller and the cache refer to one,
    \* and a slice given to a caller might be one as well
    /\ IsFiniteSet(Callers)
    /\ MaxBufs \in Nat /\ MaxBufs > 2 * Cardinality(Callers) + 1

VARIABLES
    readable,           \* the units that can be read from the medium
    lock,               \* who holds cacheMu from one step to the next
    cacheIdx, cachePlain, allLoaded, allPlain,
    content,            \* content[b]: the bytes in buffer b, content[c]: in c's own
    pc, call,           \* where each caller is, and in which call
    got,                \* p[:n] of its ReadAt
    plain,              \* its local variable plain
    out,                \* the slice its last ReadChunkAt returned
    result              \* what its last call returned

cacheVars  == <<cacheIdx, cachePlain, allLoaded, allPlain>>
callerVars == <<pc, call, got, plain, out, result>>
vars == <<singleBlob, readable, lock, cacheVars, content, callerVars>>

Bufs == 1..MaxBufs
NoBuf == 0              \* a nil slice

\* cloneInto copies to a buffer that is the caller's own, named like the caller
Slices == Bufs \cup Callers

NoCall == [op |-> "none", at |-> 0, len |-> 0]
NoResult == Returned(<< >>, "none", -1)
Junk == <<-1>>

Init ==
    /\ singleBlob \in BOOLEAN
    /\ readable = Units
    /\ lock = NoCaller
    /\ cacheIdx = -1 /\ cachePlain = NoBuf /\ allLoaded = FALSE /\ allPlain = NoBuf
    /\ content = [b \in Slices |-> << >>]
    /\ pc = [c \in Callers |-> "idle"] /\ call = [c \in Callers |-> NoCall]
    /\ got = [c \in Callers |-> << >>] /\ result = [c \in Callers |-> NoResult]
    /\ plain = [c \in Callers |-> NoBuf] /\ out = [c \in Callers |-> NoBuf]

-----------------------------------------------------------------------------
\* a unit is damaged, or cannot be read for a time, or a Scrub has repaired it
MediumChanges ==
    /\ \E u \in Units :
         readable' = IF u \in readable THEN readable \ {u} ELSE readable \cup {u}
    /\ UNCHANGED <<lock, cacheVars, content, callerVars>>

(* A load allocates a buffer nothing refers to, whichever, and clears what *)
(* else nothing refers to any more.                                        *)
Referenced == {cachePlain, allPlain} \cup {plain[c] : c \in Callers}
                \cup {out[c] : c \in Callers}
NewBuf == CHOOSE b \in Bufs : b \notin Referenced
Allocate(bytes) ==
    content' = [b \in Slices |-> CASE b = NewBuf -> bytes
                                 [] b # NewBuf /\ b \in Referenced -> content[b]
                                 [] OTHER -> << >>]

-----------------------------------------------------------------------------
Goes(c, to) == pc' = [pc EXCEPT ![c] = to]

\* the position of the next byte of a ReadAt, and the unit a call is about
Abs(c) == call[c].at + Len(got[c])
Unit(c) == IF call[c].op = "ReadChunkAt" THEN call[c].at ELSE UnitAt(Abs(c))

(* The slice the caller was given before is the buf of this call, or it    *)
(* has no more use for it.                                                 *)
Call(c, k) ==
    /\ pc[c] = "idle"
    /\ Goes(c, "enter")
    /\ call' = [call EXCEPT ![c] = k]
    /\ got' = [got EXCEPT ![c] = << >>]
    /\ result' = [result EXCEPT ![c] = NoResult]
    /\ out' = [out EXCEPT ![c] = NoBuf]
    /\ content' = [content EXCEPT ![c] = << >>]
    /\ UNCHANGED <<readable, lock, cacheVars, plain>>

Returns(c, data, err, unit) ==
    /\ Goes(c, "idle")
    /\ call' = [call EXCEPT ![c] = NoCall]
    /\ got' = [got EXCEPT ![c] = << >>]
    /\ plain' = [plain EXCEPT ![c] = NoBuf]
    /\ result' = [result EXCEPT ![c] = Returned(data, err, unit)]

\* the checks at the head of both functions
Enter(c) ==
    /\ pc[c] = "enter"
    /\ \/ /\ call[c].op = "ReadAt" /\ call[c].at < 0
          /\ Returns(c, << >>, "negative", -1)
       \/ /\ call[c].op = "ReadAt" /\ call[c].at >= 0 /\ call[c].len = 0
          /\ Returns(c, << >>, "nil", -1)
       \/ /\ call[c].op = "ReadChunkAt" /\ call[c].at \notin Units
          /\ Returns(c, << >>, "range", -1)
       \/ /\ IF call[c].op = "ReadAt" THEN call[c].at >= 0 /\ call[c].len > 0
                                      ELSE call[c].at \in Units
          /\ Goes(c, "lookup") /\ UNCHANGED <<call, got, plain, result>>
    /\ UNCHANGED <<readable, lock, cacheVars, content, out>>

\* mutant: abs > PlainSize
AtEndPast(c) == /\ call[c].op = "ReadAt" /\ ~singleBlob
                /\ Len(got[c]) = call[c].len \/ Abs(c) > PlainSize

\* the end of the loop of an rs-dual ReadAt
AtEnd(c) == /\ call[c].op = "ReadAt" /\ ~singleBlob
            /\ Len(got[c]) = call[c].len \/ Abs(c) >= PlainSize

ReadAtEnds(c) ==
    /\ pc[c] = "lookup" /\ AtEnd(c)
    /\ Returns(c, got[c], IF Len(got[c]) < call[c].len THEN "EOF" ELSE "nil", -1)
    /\ UNCHANGED <<readable, lock, cacheVars, content, out>>

Hit(c) == cacheIdx = Unit(c) /\ cachePlain # NoBuf

\* cached(idx), and the first look of loadAllPlain: under the read lock
Lookup(c) ==
    /\ pc[c] = "lookup" /\ ~AtEnd(c) /\ lock = NoCaller
    /\ \/ ~singleBlob /\ Hit(c) /\ plain' = [plain EXCEPT ![c] = cachePlain]
          /\ Goes(c, "copy")
       \/ ~singleBlob /\ ~Hit(c) /\ Goes(c, "load") /\ UNCHANGED plain
       \/ singleBlob /\ allLoaded /\ plain' = [plain EXCEPT ![c] = allPlain]
          /\ Goes(c, "copy")
       \/ singleBlob /\ ~allLoaded /\ Goes(c, "lock") /\ UNCHANGED plain
    /\ UNCHANGED <<readable, lock, cacheVars, content, call, got, out, result>>

\* mutant: the err that is tested is a shadowed one
LoadChunkIgnoresError(c) ==
    /\ pc[c] = "load"
    /\ \/ /\ Unit(c) \in readable
          /\ Allocate(PlainOf(Unit(c))) /\ plain' = [plain EXCEPT ![c] = NewBuf]
       \/ Unit(c) \notin readable /\ UNCHANGED <<content, plain>>
    /\ Goes(c, "cache")
    /\ UNCHANGED <<readable, lock, cacheVars, call, got, out, result>>

\* LoadChunk, with no lock; ReadChunkAt has the same lines
LoadChunk(c) ==
    /\ pc[c] = "load"
    /\ \/ /\ Unit(c) \in readable
          /\ Allocate(PlainOf(Unit(c))) /\ plain' = [plain EXCEPT ![c] = NewBuf]
          /\ Goes(c, "cache") /\ UNCHANGED <<call, got, result>>
       \/ /\ Unit(c) \notin readable
          /\ Returns(c, got[c], "failed", Unit(c)) /\ UNCHANGED content
    /\ UNCHANGED <<readable, lock, cacheVars, out>>

\* mutant: the old cache buffer is overwritten
CacheChunkInPlace(c) ==
    /\ pc[c] = "cache" /\ lock = NoCaller
    /\ cacheIdx' = Unit(c)
    /\ IF cachePlain = NoBuf
       THEN cachePlain' = plain[c] /\ UNCHANGED content
       ELSE /\ content' = [content EXCEPT ![cachePlain] = content[plain[c]]]
            /\ UNCHANGED cachePlain
    /\ Goes(c, "copy")
    /\ UNCHANGED <<readable, lock, allLoaded, allPlain, call, got, plain, out, result>>

CacheChunk(c) ==
    /\ pc[c] = "cache" /\ lock = NoCaller
    /\ cacheIdx' = Unit(c) /\ cachePlain' = plain[c]
    /\ Goes(c, "copy")
    /\ UNCHANGED <<readable, lock, allLoaded, allPlain, content, call, got,
                   plain, out, result>>

\* mutant: no second look under the lock
LockWithoutSecondLook(c) ==
    /\ pc[c] = "lock" /\ lock = NoCaller
    /\ lock' = c /\ Goes(c, "loadAll")
    /\ UNCHANGED <<readable, cacheVars, content, call, got, plain, out, result>>

\* loadAllPlain takes the lock and looks again
LockAll(c) ==
    /\ pc[c] = "lock" /\ lock = NoCaller
    /\ \/ /\ allLoaded /\ plain' = [plain EXCEPT ![c] = allPlain]
          /\ Goes(c, "copy") /\ UNCHANGED lock
       \/ /\ ~allLoaded /\ lock' = c
          /\ Goes(c, "loadAll") /\ UNCHANGED plain
    /\ UNCHANGED <<readable, cacheVars, content, call, got, out, result>>

\* LoadAll under the lock, which is released in either case
LoadAll(c) ==
    /\ pc[c] = "loadAll"
    /\ lock' = NoCaller
    /\ \/ /\ 0 \in readable
          /\ Allocate(PlainOf(0)) /\ plain' = [plain EXCEPT ![c] = NewBuf]
          /\ allPlain' = NewBuf /\ allLoaded' = TRUE
          /\ Goes(c, "copy") /\ UNCHANGED <<call, got, result>>
       \/ /\ 0 \notin readable
          /\ Returns(c, << >>, "failed", 0)
          /\ UNCHANGED <<content, allPlain, allLoaded>>
    /\ UNCHANGED <<readable, cacheIdx, cachePlain, out>>

\* copy(p[n:], plain[inOff:]), behind what p holds already
Copied(c) ==
    LET src   == content[plain[c]]
        inOff == Abs(c) - UnitStart(Unit(c))
        n     == Lesser(call[c].len - Len(got[c]), Len(src) - inOff)
    IN  got[c] \o SubSeq(src, inOff + 1, inOff + n)

\* the copy; then the next turn of the loop, or the end of readAtSmall
CopyRange(c) ==
    /\ pc[c] = "copy" /\ call[c].op = "ReadAt"
    /\ \/ /\ ~singleBlob
          /\ got' = [got EXCEPT ![c] = Copied(c)]
          /\ plain' = [plain EXCEPT ![c] = NoBuf]
          /\ Goes(c, "lookup") /\ UNCHANGED <<call, result>>
       \/ /\ singleBlob /\ call[c].at >= Len(content[plain[c]])
          /\ Returns(c, << >>, "EOF", -1)
       \/ /\ singleBlob /\ call[c].at < Len(content[plain[c]])
          /\ Returns(c, Copied(c),
                     IF Len(Copied(c)) < call[c].len THEN "EOF" ELSE "nil", -1)
    /\ UNCHANGED <<readable, lock, cacheVars, content, out>>

\* mutant: the internal slice is returned when there is no buf
CopyShares(c) ==
    /\ pc[c] = "copy" /\ call[c].op = "ReadChunkAt"
    /\ out' = [out EXCEPT ![c] = plain[c]]
    /\ Returns(c, content[plain[c]], "nil", -1)
    /\ UNCHANGED <<readable, lock, cacheVars, content>>

\* cloneInto: into buf or, when that is too small, into a new buffer
CopyChunk(c) ==
    /\ pc[c] = "copy" /\ call[c].op = "ReadChunkAt"
    /\ content' = [content EXCEPT ![c] = content[plain[c]]]
    /\ out' = [out EXCEPT ![c] = c]
    /\ Returns(c, content[plain[c]], "nil", -1)
    /\ UNCHANGED <<readable, lock, cacheVars>>

\* the slice that was returned belongs to the caller
Scribble(c) ==
    /\ pc[c] = "idle" /\ out[c] # NoBuf
    /\ content' = [content EXCEPT ![out[c]] = Junk]
    /\ UNCHANGED <<readable, lock, cacheVars, callerVars>>

-----------------------------------------------------------------------------
\* the steps of a call in progress: those that never wait, and those that may
Runs(c) ==
    /\ \/ Enter(c) \/ ReadAtEnds(c) \/ LoadChunk(c) \/ LoadAll(c)
       \/ CopyRange(c) \/ CopyChunk(c)
    /\ UNCHANGED singleBlob
Locks(c) ==
    /\ Lookup(c) \/ CacheChunk(c) \/ LockAll(c)
    /\ UNCHANGED singleBlob

Next ==
    /\ \/ MediumChanges
       \/ \E c \in Callers :
            \/ Runs(c) \/ Locks(c) \/ Scribble(c)
            \/ \E k \in Calls : Call(c, k)
    /\ UNCHANGED singleBlob

Spec == Init /\ [][Next]_vars

(* The scheduler runs a goroutine that is not blocked, and sync.RWMutex    *)
(* does not starve one that waits: Unlock lets in every reader that waits, *)
(* and a writer that has waited long gets the mutex first.                 *)
Fairness == \A c \in Callers : WF_vars(Runs(c)) /\ SF_vars(Locks(c))

FairSpec == Spec /\ Fairness
=============================================================================
