---------------------------- MODULE ReaderProps ----------------------------
(***************************************************************************)
(* What a Reader shared by several callers has to guarantee.               *)
(***************************************************************************)
EXTENDS Reader

(* The state of every caller has its type.  What could break it: a load    *)
(* that has no buffer to go to, a copy before there is anything to copy.   *)
TypeOK ==
    /\ singleBlob \in BOOLEAN
    /\ readable \subseteq Units
    /\ lock \in Callers \cup {NoCaller}
    /\ cacheIdx \in Int /\ cachePlain \in Bufs \cup {NoBuf}
    /\ allLoaded \in BOOLEAN /\ allPlain \in Bufs \cup {NoBuf}
    /\ content \in [Slices -> Seq(Int)]
    /\ pc \in [Callers -> {"idle", "enter", "lookup", "load", "cache", "lock",
                           "loadAll", "copy"}]
    /\ call \in [Callers -> Calls \cup {NoCall}]
    /\ got \in [Callers -> Seq(Int)]
    /\ plain \in [Callers -> Bufs \cup {NoBuf}]
    /\ out \in [Callers -> Slices \cup {NoBuf}]
    /\ \A c \in Callers : (plain[c] # NoBuf) = (pc[c] \in {"cache", "copy"})

(* The index and the bytes of the cache belong together, whichever callers *)
(* raced to fill it, and so do the call and the bytes of a caller that is  *)
(* about to copy from the cache without a lock.  Whatever callers write    *)
(* to the slices they were given does not reach either (ReadChunkAt: the   *)
(* result has no alias in the cache).                                      *)
CacheIsTrue ==
    /\ cachePlain # NoBuf => content[cachePlain] = PlainOf(cacheIdx)
    /\ allLoaded => content[allPlain] = PlainOf(0)
    /\ \A c \in Callers : plain[c] # NoBuf => content[plain[c]] = PlainOf(Unit(c))

(* A single-blob vault is loaded once: loads exclude each other, and after *)
(* one has succeeded the medium is never read again.                       *)
LoadedOnce ==
    /\ \A c \in Callers : pc[c] = "loadAll" => lock = c /\ ~allLoaded
    /\ lock # NoCaller => pc[lock] = "loadAll"

\* the Reader implements PlainFile: right bytes or an error, and it returns
Abstract == INSTANCE PlainFile

ImplementsPlainFile == Abstract!Spec
=============================================================================
