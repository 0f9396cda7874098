---------------------------- MODULE ReaderProofs ----------------------------
(***************************************************************************)
(* The lock of a single-blob Reader, the bytes in the cache, and what      *)
(* every call returns, for any number of callers and calls.                *)
(***************************************************************************)
EXTENDS ReaderProps, FiniteSetTheorems, SequenceTheorems, TLAPS

(* LoadedOnce, with what it rests on: the lock has an owner or none, and   *)
(* every caller is somewhere.                                              *)
LockInv ==
    /\ lock \in Callers \cup {NoCaller}
    /\ DOMAIN pc = Callers
    /\ LoadedOnce

\* no caller holds the lock of a Reader just opened
LEMMA LockInit == Init => LockInv
  BY ReaderAssumption DEF Init, LockInv, LoadedOnce

(* A caller that takes and releases no lock, and is not loading, moves     *)
(* anywhere but to the load.                                               *)
LEMMA MovesFreely ==
  ASSUME LockInv, NEW c \in Callers, NEW to, to # "loadAll",
         pc[c] # "loadAll", Goes(c, to), UNCHANGED <<lock, allLoaded>>
  PROVE  LockInv'
  BY DEF LockInv, LoadedOnce, Goes

\* Every step preserves LockInv.
LEMMA LockStep == LockInv /\ [Next]_vars => LockInv'
<1> SUFFICES ASSUME LockInv, [Next]_vars PROVE LockInv'
  OBVIOUS
<1> USE DEF cacheVars
<1>1. CASE MediumChanges
  BY <1>1 DEF MediumChanges, callerVars, LockInv, LoadedOnce
<1>2. ASSUME NEW c \in Callers, Runs(c) PROVE LockInv'
  <2>1. CASE Enter(c)
    BY <2>1, MovesFreely DEF Enter, Returns
  <2>2. CASE ReadAtEnds(c)
    BY <2>2, MovesFreely DEF ReadAtEnds, Returns
  <2>3. CASE LoadChunk(c)
    BY <2>3, MovesFreely DEF LoadChunk, Returns
  <2>4. CASE LoadAll(c)
    <3>1. pc[c] = "loadAll" /\ lock' = NoCaller
      BY <2>4 DEF LoadAll
    <3>2. PICK to \in {"copy", "idle"} : Goes(c, to)
      BY <2>4 DEF LoadAll, Returns
    <3>3. \A d \in Callers : pc'[d] # "loadAll"
      BY <3>1, <3>2 DEF LockInv, LoadedOnce, Goes
    <3> QED
      BY <3>1, <3>2, <3>3 DEF LockInv, LoadedOnce, Goes
  <2>5. CASE CopyRange(c)
    BY <2>5, MovesFreely DEF CopyRange, Returns
  <2>6. CASE CopyChunk(c)
    BY <2>6, MovesFreely DEF CopyChunk, Returns
  <2> QED
    BY <1>2, <2>1, <2>2, <2>3, <2>4, <2>5, <2>6 DEF Runs
<1>3. ASSUME NEW c \in Callers, Locks(c) PROVE LockInv'
  <2>1. CASE Lookup(c)
    BY <2>1, MovesFreely DEF Lookup
  <2>2. CASE CacheChunk(c)
    BY <2>2, MovesFreely DEF CacheChunk
  <2>3. CASE LockAll(c)
    <3>1. CASE UNCHANGED lock
      <4>1. Goes(c, "copy") /\ pc[c] = "lock" /\ UNCHANGED allLoaded
        BY <2>3, <3>1, ReaderAssumption DEF LockAll
      <4> QED
        BY <3>1, <4>1, MovesFreely
    <3>2. CASE ~allLoaded /\ lock' = c /\ Goes(c, "loadAll")
      <4>1. lock = NoCaller /\ UNCHANGED allLoaded
        BY <2>3 DEF LockAll
      <4>2. \A d \in Callers : pc[d] # "loadAll"
        BY <4>1, ReaderAssumption DEF LockInv, LoadedOnce
      <4> QED
        BY <3>2, <4>1, <4>2 DEF LockInv, LoadedOnce, Goes
    <3> QED
      BY <2>3, <3>1, <3>2 DEF LockAll
  <2> QED
    BY <1>3, <2>1, <2>2, <2>3 DEF Locks
<1>4. ASSUME NEW c \in Callers, Scribble(c) PROVE LockInv'
  BY <1>4 DEF Scribble, callerVars, LockInv, LoadedOnce
<1>5. ASSUME NEW c \in Callers, NEW k \in Calls, Call(c, k) PROVE LockInv'
  BY <1>5, MovesFreely DEF Call
<1>6. CASE UNCHANGED vars
  BY <1>6 DEF vars, callerVars, LockInv, LoadedOnce
<1> QED
  BY <1>1, <1>2, <1>3, <1>4, <1>5, <1>6 DEF Next

(* LoadedOnce holds for any number of callers: the second look of          *)
(* loadAllPlain, under the write lock, is what it rests on.                *)
THEOREM LoadsOnce == Spec => []LoadedOnce
<1>1. LockInv => LoadedOnce
  BY DEF LockInv
<1> QED
  BY LockInit, LockStep, <1>1, PTL DEF Spec

-----------------------------------------------------------------------------
(* The types and the cache.                                                *)

\* a call past the checks at its head is one that passed them
Admitted(c) ==
    /\ call[c].op = "ReadAt" => call[c].at >= 0
    /\ call[c].op = "ReadChunkAt" => call[c].at \in Units

Types ==
    /\ singleBlob \in BOOLEAN
    /\ readable \subseteq Units
    /\ lock \in Callers \cup {NoCaller}
    /\ cacheIdx \in Int /\ cachePlain \in Bufs \cup {NoBuf}
    /\ allLoaded \in BOOLEAN /\ allPlain \in Bufs \cup {NoBuf}
    /\ content \in [Slices -> Seq(Int)]
    /\ pc \in [Callers -> {"idle", "enter", "lookup", "load", "cache", "lock",
                           "loadAll", "copy"}]
    /\ call \in [Callers -> Calls \cup {NoCall}]
    /\ got \in [Callers -> Seq(Int)]
    /\ plain \in [Callers -> Bufs \cup {NoBuf}]
    /\ out \in [Callers -> Slices \cup {NoBuf}]

SharedInv ==
    /\ cachePlain # NoBuf => content[cachePlain] = PlainOf(cacheIdx)
    /\ allLoaded => allPlain \in Bufs /\ content[allPlain] = PlainOf(0)

\* of one caller; a slice it was given is its own
OwnInv(c) ==
    /\ (plain[c] # NoBuf) = (pc[c] \in {"cache", "copy"})
    /\ out[c] \in {NoBuf, c}
    /\ pc[c] \notin {"idle", "enter"} => Admitted(c)
    /\ pc[c] \in {"lock", "loadAll"} => singleBlob
    /\ plain[c] # NoBuf => content[plain[c]] = PlainOf(Unit(c))

(* TypeOK and CacheIsTrue, with what they rest on.                         *)
CacheInv == Types /\ SharedInv /\ \A c \in Callers : OwnInv(c)

\* a caller's own buffer is none of the Reader's
LEMMA BufsAreShared ==
  ASSUME NEW c \in Callers
  PROVE  c \notin Bufs /\ c # NoBuf /\ c \in Slices /\ NoBuf \notin Bufs
  BY ReaderAssumption, SMT DEF Bufs, NoBuf, Slices

LEMMA BytesType ==
  ASSUME NEW a \in Int, NEW b \in Int
  PROVE  /\ Bytes(a, b) \in Seq(Int)
         /\ Len(Bytes(a, b)) = IF a < b THEN b - a ELSE 0
  <1> DEFINE n == IF a < b THEN b - a ELSE 0
  <1>1. n \in Nat /\ \A k \in 1 .. n : a + k - 1 \in Int
    BY SMT
  <1>2. Bytes(a, b) \in [1 .. n -> Int]
    BY <1>1, Zenon DEF Bytes
  <1> QED
    BY <1>1, <1>2, SMT DEF Bytes

LEMMA PlainType ==
  ASSUME NEW u \in Int, singleBlob \in BOOLEAN
  PROVE  PlainOf(u) \in Seq(Int)
  <1>1. /\ UnitStart(u) \in Int /\ UnitStart(u + 1) \in Int
        /\ Lesser(UnitStart(u + 1), PlainSize) \in Int /\ 0 \in Int /\ PlainSize \in Int
    BY PlaintextAssumption, SMT DEF UnitStart, Lesser
  <1> QED
    BY <1>1, BytesType, Zenon DEF PlainOf

(* The buffers never run out: the cache refers to at most two, and every   *)
(* caller to one.                                                          *)
LEMMA BufferFree ==
  ASSUME NEW c \in Callers, \A d \in Callers : out[d] \in {NoBuf, d}
  PROVE  NewBuf \in Bufs /\ NewBuf \notin Referenced
  <1> DEFINE P == {plain[d] : d \in Callers}
             C == {cachePlain, allPlain}
             f == [d \in Callers |-> plain[d]]
  <1>1. f \in Surjection(Callers, P)
    BY Zenon DEF Surjection
  <1>2. IsFiniteSet(P) /\ Cardinality(P) <= Cardinality(Callers)
    BY <1>1, ReaderAssumption, FS_Surjection, Zenon
  <1>3. IsFiniteSet(C) /\ Cardinality(C) <= 2
    <2>1. IsFiniteSet({cachePlain}) /\ Cardinality({cachePlain}) = 1
      BY FS_Singleton, Zenon
    <2>2. IsFiniteSet({allPlain}) /\ Cardinality({allPlain}) = 1
      BY FS_Singleton, Zenon
    <2>3. C = {cachePlain} \cup {allPlain}
      BY Zenon
    <2>4. /\ IsFiniteSet(C)
          /\ Cardinality(C) = 1 + 1 - Cardinality({cachePlain} \cap {allPlain})
      <3>1. /\ IsFiniteSet({cachePlain} \cup {allPlain})
            /\ Cardinality({cachePlain} \cup {allPlain}) =
                 Cardinality({cachePlain}) + Cardinality({allPlain})
                   - Cardinality({cachePlain} \cap {allPlain})
        BY <2>1, <2>2, FS_Union, Zenon
      <3> QED
        BY <2>1, <2>2, <2>3, <3>1, Zenon
    <2>5. Cardinality({cachePlain} \cap {allPlain}) \in Nat
      BY <2>1, FS_Intersection, FS_CardinalityType, Zenon
    <2> QED
      BY <2>4, <2>5, SMT
  <1>4. /\ IsFiniteSet(C \cup P)
        /\ Cardinality(C \cup P) <= 2 + Cardinality(Callers)
    <2>1. /\ IsFiniteSet(C \cup P)
          /\ Cardinality(C \cup P) = Cardinality(C) + Cardinality(P) - Cardinality(C \cap P)
      BY <1>2, <1>3, FS_Union
    <2>2. /\ Cardinality(C) \in Nat /\ Cardinality(P) \in Nat
          /\ Cardinality(C \cap P) \in Nat /\ Cardinality(Callers) \in Nat
      BY <1>2, <1>3, ReaderAssumption, FS_Intersection, FS_CardinalityType, Zenon
    <2> QED
      BY <1>2, <1>3, <2>1, <2>2, SMT
  <1>5. ~(Bufs \subseteq C \cup P)
    <2>1. IsFiniteSet(Bufs) /\ Cardinality(Bufs) = MaxBufs
      BY ReaderAssumption, FS_Interval, SMT DEF Bufs
    <2>2. Cardinality(Callers) \in Nat
      BY ReaderAssumption, FS_CardinalityType, Zenon
    <2>3. MaxBufs > 2 + Cardinality(Callers)
      <3>1. Cardinality(Callers) # 0
        BY ReaderAssumption, FS_EmptySet
      <3> QED
        BY <2>2, <3>1, ReaderAssumption, SMT
    <2>4. Cardinality(C \cup P) \in Nat
      BY <1>4, FS_CardinalityType, Zenon
    <2>5. Bufs \subseteq C \cup P => Cardinality(Bufs) <= Cardinality(C \cup P)
      BY <1>4, FS_Subset, Zenon
    <2> QED
      BY <1>4, <2>1, <2>2, <2>3, <2>4, <2>5, ReaderAssumption, SMT
  <1>6. PICK b \in Bufs : b \notin C \cup P
    BY <1>5, Zenon
  <1>7. b \notin Referenced
    BY <1>6, BufsAreShared, Zenon DEF Referenced
  <1> QED
    BY <1>7, Zenon DEF NewBuf

(* A load puts the bytes in a buffer of its own, and leaves alone those    *)
(* that somebody still refers to.                                          *)
LEMMA Allocated ==
  ASSUME CacheInv, NEW c \in Callers, NEW bytes \in Seq(Int), Allocate(bytes)
  PROVE  /\ NewBuf \in Bufs /\ content' \in [Slices -> Seq(Int)]
         /\ content'[NewBuf] = bytes
         /\ cachePlain # NoBuf => content'[cachePlain] = content[cachePlain]
         /\ allPlain # NoBuf => content'[allPlain] = content[allPlain]
         /\ \A d \in Callers : plain[d] # NoBuf => content'[plain[d]] = content[plain[d]]
  <1>1. NewBuf \in Bufs /\ NewBuf \notin Referenced
    BY BufferFree, Zenon DEF CacheInv, OwnInv
  <1>2. << >> \in Seq(Int)
    BY SMT
  <1>3. content' \in [Slices -> Seq(Int)]
    BY <1>2, SMT DEF Allocate, CacheInv, Types
  <1>4. content'[NewBuf] = bytes
    BY <1>1, Zenon DEF Allocate, Slices
  <1>5. \A b \in Bufs \cap Referenced : content'[b] = content[b]
    BY <1>1, Zenon DEF Allocate, Slices
  <1>6. /\ cachePlain # NoBuf => cachePlain \in Bufs
        /\ allPlain # NoBuf => allPlain \in Bufs
        /\ \A d \in Callers : plain[d] # NoBuf => plain[d] \in Bufs
    BY Zenon DEF CacheInv, Types
  <1>7. /\ cachePlain \in Referenced /\ allPlain \in Referenced
        /\ \A d \in Callers : plain[d] \in Referenced
    BY Zenon DEF Referenced
  <1> QED
    BY <1>1, <1>3, <1>4, <1>5, <1>6, <1>7, Zenon

(* What one caller does changes nothing for the others, if it leaves the   *)
(* buffers they copy from alone.                                           *)
LEMMA OneCaller ==
  ASSUME CacheInv, NEW c \in Callers, UNCHANGED singleBlob,
         Types', SharedInv', OwnInv(c)',
         \A d \in Callers \ {c} :
           /\ pc'[d] = pc[d] /\ call'[d] = call[d] /\ got'[d] = got[d]
           /\ plain'[d] = plain[d] /\ out'[d] = out[d]
           /\ plain[d] # NoBuf => content'[plain[d]] = content[plain[d]]
  PROVE  CacheInv'
  <1> SUFFICES ASSUME NEW d \in Callers, d # c PROVE OwnInv(d)'
    BY Zenon DEF CacheInv
  <1>1. OwnInv(d)
    BY Zenon DEF CacheInv
  <1>2. Unit(d)' = Unit(d)
    BY SMT DEF Unit, UnitAt, Abs
  <1>3. PlainOf(Unit(d))' = PlainOf(Unit(d))
    BY <1>2, SMT DEF PlainOf, UnitStart
  <1>4. Admitted(d)' = Admitted(d)
    BY SMT DEF Admitted, Units
  <1> QED
    BY <1>1, <1>3, <1>4, SMT DEF OwnInv

\* A caller that returns without touching a buffer keeps the invariant.
LEMMA ReturnKeeps ==
  ASSUME CacheInv, NEW c \in Callers, NEW data, NEW err, NEW unit,
         Returns(c, data, err, unit),
         UNCHANGED <<singleBlob, readable, cacheVars, content, out>>,
         lock' \in Callers \cup {NoCaller}
  PROVE  CacheInv'
  <1>1. Types'
    <2>1. Units' = Units
      BY Zenon DEF Units
    <2>2. << >> \in Seq(Int)
      BY SMT
    <2> QED
      BY <2>1, <2>2, SMT DEF Returns, Goes, CacheInv, Types, cacheVars
  <1>2. SharedInv'
    BY SMT DEF CacheInv, SharedInv, cacheVars, PlainOf, UnitStart
  <1>3. OwnInv(c)'
    BY SMT DEF Returns, Goes, CacheInv, Types, OwnInv
  <1>4. \A d \in Callers \ {c} :
           /\ pc'[d] = pc[d] /\ call'[d] = call[d] /\ got'[d] = got[d]
           /\ plain'[d] = plain[d] /\ out'[d] = out[d]
           /\ plain[d] # NoBuf => content'[plain[d]] = content[plain[d]]
    BY SMT DEF Returns, Goes, CacheInv, Types
  <1> QED
    BY <1>1, <1>2, <1>3, <1>4, OneCaller

\* Nothing is cached, given out or under way in a Reader just opened.
LEMMA CacheInit == Init => CacheInv
  <1> SUFFICES ASSUME Init PROVE CacheInv
    OBVIOUS
  <1>1. << >> \in Seq(Int) /\ NoBuf = 0
    BY SMT DEF NoBuf
  <1>2. Types
    <2>1. lock \in Callers \cup {NoCaller} /\ cacheIdx \in Int
      BY SMT DEF Init
    <2>2. /\ content \in [Slices -> Seq(Int)] /\ got \in [Callers -> Seq(Int)]
          /\ plain \in [Callers -> Bufs \cup {NoBuf}] /\ out \in [Callers -> Slices \cup {NoBuf}]
      BY <1>1, Zenon DEF Init
    <2>3. /\ pc \in [Callers -> {"idle", "enter", "lookup", "load", "cache", "lock",
                                 "loadAll", "copy"}]
          /\ call \in [Callers -> Calls \cup {NoCall}]
      BY Zenon DEF Init
    <2> QED
      BY <2>1, <2>2, <2>3, Zenon DEF Init, Types
  <1>3. SharedInv
    BY SMT DEF Init, SharedInv
  <1>4. \A c \in Callers : OwnInv(c)
    BY SMT DEF Init, OwnInv
  <1> QED
    BY <1>2, <1>3, <1>4, Zenon DEF CacheInv

(* A caller that only moves, or begins to refer to a buffer with its       *)
(* bytes.                                                                  *)
LEMMA MoveKeeps ==
  ASSUME CacheInv, NEW c \in Callers, Admitted(c), pc[c] \notin {"cache", "copy"},
         \/ /\ plain' = plain
            /\ \/ Goes(c, "lookup") \/ Goes(c, "load")
               \/ singleBlob /\ (Goes(c, "lock") \/ Goes(c, "loadAll"))
         \/ \E b \in Bufs : /\ plain' = [plain EXCEPT ![c] = b] /\ Goes(c, "copy")
                            /\ content[b] = PlainOf(Unit(c)),
         lock' \in Callers \cup {NoCaller},
         UNCHANGED <<singleBlob, readable, cacheVars, content, call, got, out>>
  PROVE  CacheInv'
  <1>1. Types'
    <2>1. Units' = Units
      BY Zenon DEF Units
    <2>2. plain' \in [Callers -> Bufs \cup {NoBuf}]
      BY Zenon DEF CacheInv, Types
    <2>3. pc' \in [Callers -> {"idle", "enter", "lookup", "load", "cache", "lock",
                              "loadAll", "copy"}]
      <3>1. PICK to \in {"lookup", "load", "lock", "loadAll", "copy"} : Goes(c, to)
        BY Zenon
      <3> QED
        BY <3>1, SMT DEF Goes, CacheInv, Types
    <2> QED
      BY <2>1, <2>2, <2>3, Zenon DEF CacheInv, Types, cacheVars
  <1>2. SharedInv'
    BY SMT DEF CacheInv, SharedInv, cacheVars, PlainOf, UnitStart
  <1>3. OwnInv(c)'
    <2>1. PlainOf(Unit(c))' = PlainOf(Unit(c))
      BY SMT DEF PlainOf, UnitStart, Unit, UnitAt, Abs
    <2>2. Admitted(c)' = Admitted(c)
      BY SMT DEF Admitted, Units
    <2>3. /\ plain[c] = NoBuf /\ out'[c] \in {NoBuf, c}
          /\ pc \in [Callers -> {"idle", "enter", "lookup", "load", "cache", "lock",
                                 "loadAll", "copy"}]
          /\ plain \in [Callers -> Bufs \cup {NoBuf}]
      BY SMT DEF CacheInv, Types, OwnInv
    <2>4. CASE plain' = plain
      <3>1. /\ pc'[c] \in {"lookup", "load", "lock", "loadAll"}
            /\ pc'[c] \in {"lock", "loadAll"} => singleBlob'
        <4>1. CASE \E b \in Bufs : plain' = [plain EXCEPT ![c] = b]
          BY <2>3, <2>4, <4>1, BufsAreShared, SMT
        <4> QED
          BY <2>3, <4>1, SMT DEF Goes
      <3> QED
        BY <2>1, <2>2, <2>3, <2>4, <3>1, SMT DEF OwnInv
    <2>5. ASSUME NEW b \in Bufs, plain' = [plain EXCEPT ![c] = b], Goes(c, "copy"),
                 content[b] = PlainOf(Unit(c))
          PROVE  OwnInv(c)'
      <3>1. pc'[c] = "copy" /\ plain'[c] = b /\ b # NoBuf
        BY <2>3, <2>5, BufsAreShared, Zenon DEF Goes
      <3> QED
        BY <2>1, <2>2, <2>3, <2>5, <3>1, SMT DEF OwnInv
    <2> QED
      BY <2>4, <2>5, Zenon
  <1>4. \A d \in Callers \ {c} :
           /\ pc'[d] = pc[d] /\ call'[d] = call[d] /\ got'[d] = got[d]
           /\ plain'[d] = plain[d] /\ out'[d] = out[d]
           /\ plain[d] # NoBuf => content'[plain[d]] = content[plain[d]]
    BY SMT DEF Goes, CacheInv, Types
  <1> QED
    BY <1>1, <1>2, <1>3, <1>4, OneCaller

\* the unit of an admitted call is a number
LEMMA UnitType ==
  ASSUME CacheInv, NEW c \in Callers
  PROVE  /\ Unit(c) \in Int /\ PlainOf(Unit(c)) \in Seq(Int)
         /\ PlainOf(0) \in Seq(Int)
         /\ singleBlob => PlainOf(Unit(c)) = PlainOf(0)
  <1>1. call[c].at \in Int /\ got[c] \in Seq(Int) /\ singleBlob \in BOOLEAN
    BY ReaderAssumption, SMT DEF CacheInv, Types, NoCall
  <1>2. Abs(c) \in Int
    BY <1>1, SMT DEF Abs
  <1>3. Unit(c) \in Int
    BY <1>1, <1>2, PlaintextAssumption, SMT DEF Unit, UnitAt
  <1>4. PlainOf(Unit(c)) \in Seq(Int) /\ PlainOf(0) \in Seq(Int)
    BY <1>1, <1>3, PlainType, SMT
  <1>5. singleBlob => PlainOf(Unit(c)) = PlainOf(0)
    BY Zenon DEF PlainOf
  <1> QED
    BY <1>3, <1>4, <1>5, Zenon

LEMMA EnterKeeps ==
  ASSUME CacheInv, NEW c \in Callers, Enter(c), UNCHANGED singleBlob
  PROVE  CacheInv'
  <1>1. ASSUME NEW err, Returns(c, << >>, err, -1) PROVE CacheInv'
    BY <1>1, ReturnKeeps, SMT DEF Enter, CacheInv, Types
  <1>2. CASE /\ IF call[c].op = "ReadAt" THEN call[c].at >= 0 /\ call[c].len > 0
                                          ELSE call[c].at \in Units
             /\ Goes(c, "lookup") /\ UNCHANGED <<call, got, plain, result>>
    <2>1. Admitted(c) /\ pc[c] \notin {"cache", "copy"}
      BY <1>2, SMT DEF Admitted, Enter
    <2>2. lock' \in Callers \cup {NoCaller} /\ plain' = plain
          /\ UNCHANGED <<singleBlob, readable, cacheVars, content, call, got, out>>
      BY <1>2, Zenon DEF Enter, CacheInv, Types
    <2>3. Goes(c, "lookup")
      BY <1>2, Zenon
    <2> QED
      BY <2>1, <2>2, <2>3, MoveKeeps, Zenon
  <1> QED
    BY <1>1, <1>2 DEF Enter

LEMMA LookupKeeps ==
  ASSUME CacheInv, NEW c \in Callers, Lookup(c), UNCHANGED singleBlob
  PROVE  CacheInv'
  <1>1. Admitted(c) /\ pc[c] \notin {"cache", "copy"}
    BY SMT DEF Lookup, CacheInv, OwnInv
  <1>2. /\ UNCHANGED <<singleBlob, readable, cacheVars, content, call, got, out>>
        /\ lock' \in Callers \cup {NoCaller}
    BY Zenon DEF Lookup, CacheInv, Types
  <1>3. CASE plain' = plain /\ (Goes(c, "load") \/ (singleBlob /\ Goes(c, "lock")))
    BY <1>1, <1>2, <1>3, MoveKeeps, Zenon
  <1>4. CASE /\ Hit(c) /\ plain' = [plain EXCEPT ![c] = cachePlain] /\ Goes(c, "copy")
    <2>1. cachePlain \in Bufs /\ content[cachePlain] = PlainOf(Unit(c))
      BY <1>4, Zenon DEF Hit, CacheInv, Types, SharedInv
    <2> QED
      BY <1>1, <1>2, <1>4, <2>1, MoveKeeps, Zenon
  <1>5. CASE /\ singleBlob /\ allLoaded /\ plain' = [plain EXCEPT ![c] = allPlain]
             /\ Goes(c, "copy")
    <2>1. allPlain \in Bufs /\ content[allPlain] = PlainOf(Unit(c))
      BY <1>5, UnitType, Zenon DEF CacheInv, SharedInv
    <2> QED
      BY <1>1, <1>2, <1>5, <2>1, MoveKeeps, Zenon
  <1>6. \/ plain' = plain /\ (Goes(c, "load") \/ (singleBlob /\ Goes(c, "lock")))
        \/ Hit(c) /\ plain' = [plain EXCEPT ![c] = cachePlain] /\ Goes(c, "copy")
        \/ singleBlob /\ allLoaded /\ plain' = [plain EXCEPT ![c] = allPlain]
             /\ Goes(c, "copy")
    BY Zenon DEF Lookup
  <1> QED
    BY <1>3, <1>4, <1>5, <1>6, Zenon

LEMMA LockAllKeeps ==
  ASSUME CacheInv, NEW c \in Callers, LockAll(c), UNCHANGED singleBlob
  PROVE  CacheInv'
  <1>1. Admitted(c) /\ pc[c] \notin {"cache", "copy"} /\ singleBlob
    BY SMT DEF LockAll, CacheInv, OwnInv
  <1>2. /\ UNCHANGED <<singleBlob, readable, cacheVars, content, call, got, out>>
        /\ lock' \in Callers \cup {NoCaller}
    BY Zenon DEF LockAll, CacheInv, Types
  <1>3. CASE Goes(c, "loadAll") /\ plain' = plain
    BY <1>1, <1>2, <1>3, MoveKeeps, Zenon
  <1>4. CASE allLoaded /\ plain' = [plain EXCEPT ![c] = allPlain] /\ Goes(c, "copy")
    <2>1. allPlain \in Bufs /\ content[allPlain] = PlainOf(Unit(c))
      BY <1>1, <1>4, UnitType, Zenon DEF CacheInv, SharedInv
    <2> QED
      BY <1>1, <1>2, <1>4, <2>1, MoveKeeps, Zenon
  <1> QED
    BY <1>3, <1>4, Zenon DEF LockAll

\* the bytes loaded are those of the unit, and the caller has them for itself
LEMMA LoadChunkKeeps ==
  ASSUME CacheInv, NEW c \in Callers, LoadChunk(c), UNCHANGED singleBlob
  PROVE  CacheInv'
  <1>1. CASE Returns(c, got[c], "failed", Unit(c)) /\ UNCHANGED content
    <2>1. /\ UNCHANGED <<singleBlob, readable, cacheVars, content, out>>
          /\ lock' \in Callers \cup {NoCaller}
      BY <1>1, Zenon DEF LoadChunk, CacheInv, Types
    <2> QED
      BY <1>1, <2>1, ReturnKeeps, Zenon
  <1>2. CASE /\ Allocate(PlainOf(Unit(c))) /\ plain' = [plain EXCEPT ![c] = NewBuf]
             /\ Goes(c, "cache") /\ UNCHANGED <<call, got, result>>
    <2>1. /\ UNCHANGED <<readable, lock, cacheVars, out, call, got>>
          /\ Admitted(c)
      BY <1>2, SMT DEF LoadChunk, CacheInv, OwnInv
    <2>2. PlainOf(Unit(c)) \in Seq(Int)
      BY UnitType, Zenon
    <2>3. /\ NewBuf \in Bufs /\ content' \in [Slices -> Seq(Int)]
          /\ content'[NewBuf] = PlainOf(Unit(c))
          /\ cachePlain # NoBuf => content'[cachePlain] = content[cachePlain]
          /\ allPlain # NoBuf => content'[allPlain] = content[allPlain]
          /\ \A d \in Callers : plain[d] # NoBuf => content'[plain[d]] = content[plain[d]]
      BY <1>2, <2>2, Allocated, Zenon
    <2>4. /\ Units' = Units /\ PlainOf(Unit(c))' = PlainOf(Unit(c))
          /\ Admitted(c)' = Admitted(c)
      BY <2>1, SMT DEF PlainOf, UnitStart, Unit, UnitAt, Abs, Admitted, Units
    <2>5. /\ pc' \in [Callers -> {"idle", "enter", "lookup", "load", "cache", "lock",
                                  "loadAll", "copy"}]
          /\ plain' \in [Callers -> Bufs \cup {NoBuf}]
          /\ pc'[c] = "cache" /\ plain'[c] = NewBuf
      BY <1>2, <2>3, SMT DEF Goes, CacheInv, Types
    <2>6. Types'
      BY <2>1, <2>3, <2>4, <2>5, Zenon DEF CacheInv, Types, cacheVars
    <2>7. SharedInv'
      BY <2>1, <2>3, BufsAreShared, SMT DEF CacheInv, SharedInv, cacheVars, PlainOf, UnitStart
    <2>8. OwnInv(c)'
      BY <2>1, <2>3, <2>4, <2>5, BufsAreShared, SMT DEF CacheInv, OwnInv
    <2>9. \A d \in Callers \ {c} :
             /\ pc'[d] = pc[d] /\ call'[d] = call[d] /\ got'[d] = got[d]
             /\ plain'[d] = plain[d] /\ out'[d] = out[d]
             /\ plain[d] # NoBuf => content'[plain[d]] = content[plain[d]]
      BY <1>2, <2>1, <2>3, SMT DEF Goes, CacheInv, Types
    <2> QED
      BY <2>6, <2>7, <2>8, <2>9, OneCaller
  <1> QED
    BY <1>1, <1>2, Zenon DEF LoadChunk

\* index and bytes go into the cache together
LEMMA CacheChunkKeeps ==
  ASSUME CacheInv, NEW c \in Callers, CacheChunk(c), UNCHANGED singleBlob
  PROVE  CacheInv'
  <1>1. /\ cacheIdx' = Unit(c) /\ cachePlain' = plain[c] /\ Goes(c, "copy")
        /\ UNCHANGED <<readable, lock, allLoaded, allPlain, content, call, got, plain, out>>
        /\ pc[c] = "cache" /\ Admitted(c) /\ plain[c] # NoBuf
        /\ content[plain[c]] = PlainOf(Unit(c)) /\ out[c] \in {NoBuf, c}
    BY SMT DEF CacheChunk, CacheInv, OwnInv
  <1>2. Unit(c) \in Int
    BY UnitType, Zenon
  <1>3. /\ Units' = Units /\ PlainOf(Unit(c))' = PlainOf(Unit(c))
        /\ Admitted(c)' = Admitted(c) /\ PlainOf(0)' = PlainOf(0)
        /\ \A u \in Int : PlainOf(u)' = PlainOf(u)
    BY <1>1, SMT DEF PlainOf, UnitStart, Unit, UnitAt, Abs, Admitted, Units
  <1>4. /\ pc' \in [Callers -> {"idle", "enter", "lookup", "load", "cache", "lock",
                                "loadAll", "copy"}]
        /\ pc'[c] = "copy" /\ \A d \in Callers \ {c} : pc'[d] = pc[d]
    BY <1>1, SMT DEF Goes, CacheInv, Types
  <1>5. Types'
    BY <1>1, <1>2, <1>3, <1>4, Zenon DEF CacheInv, Types
  <1>6. SharedInv'
    BY <1>1, <1>2, <1>3, SMT DEF CacheInv, SharedInv, PlainOf, UnitStart
  <1>7. OwnInv(c)'
    BY <1>1, <1>3, <1>4, SMT DEF OwnInv
  <1> QED
    BY <1>1, <1>4, <1>5, <1>6, <1>7, OneCaller

LEMMA LoadAllKeeps ==
  ASSUME CacheInv, NEW c \in Callers, LoadAll(c), UNCHANGED singleBlob
  PROVE  CacheInv'
  <1>1. CASE Returns(c, << >>, "failed", 0) /\ UNCHANGED <<content, allPlain, allLoaded>>
    <2>1. /\ UNCHANGED <<singleBlob, readable, cacheVars, content, out>>
          /\ lock' \in Callers \cup {NoCaller}
      BY <1>1, Zenon DEF LoadAll, cacheVars
    <2> QED
      BY <1>1, <2>1, ReturnKeeps, Zenon
  <1>2. CASE /\ Allocate(PlainOf(0)) /\ plain' = [plain EXCEPT ![c] = NewBuf]
             /\ allPlain' = NewBuf /\ allLoaded' = TRUE
             /\ Goes(c, "copy") /\ UNCHANGED <<call, got, result>>
    <2>1. /\ UNCHANGED <<readable, cacheIdx, cachePlain, out, call, got>>
          /\ lock' = NoCaller /\ Admitted(c) /\ singleBlob /\ out[c] \in {NoBuf, c}
      BY <1>2, SMT DEF LoadAll, CacheInv, OwnInv
    <2>2. PlainOf(0) \in Seq(Int) /\ PlainOf(Unit(c)) = PlainOf(0)
      BY <2>1, UnitType, Zenon
    <2>3. /\ NewBuf \in Bufs /\ content' \in [Slices -> Seq(Int)]
          /\ content'[NewBuf] = PlainOf(0)
          /\ cachePlain # NoBuf => content'[cachePlain] = content[cachePlain]
          /\ \A d \in Callers : plain[d] # NoBuf => content'[plain[d]] = content[plain[d]]
      BY <1>2, <2>2, Allocated, Zenon
    <2>4. /\ Units' = Units /\ PlainOf(Unit(c))' = PlainOf(Unit(c))
          /\ PlainOf(0)' = PlainOf(0) /\ PlainOf(cacheIdx)' = PlainOf(cacheIdx)
          /\ Admitted(c)' = Admitted(c)
      BY <2>1, SMT DEF PlainOf, UnitStart, Unit, UnitAt, Abs, Admitted, Units
    <2>5. /\ pc' \in [Callers -> {"idle", "enter", "lookup", "load", "cache", "lock",
                                  "loadAll", "copy"}]
          /\ plain' \in [Callers -> Bufs \cup {NoBuf}]
          /\ pc'[c] = "copy" /\ plain'[c] = NewBuf
      BY <1>2, <2>3, SMT DEF Goes, CacheInv, Types
    <2>6. Types'
      BY <1>2, <2>1, <2>3, <2>4, <2>5, Zenon DEF CacheInv, Types
    <2>7. SharedInv'
      BY <1>2, <2>1, <2>3, <2>4, Zenon DEF CacheInv, SharedInv
    <2>8. OwnInv(c)'
      BY <2>1, <2>2, <2>3, <2>4, <2>5, BufsAreShared, SMT DEF OwnInv
    <2>9. \A d \in Callers \ {c} :
             /\ pc'[d] = pc[d] /\ call'[d] = call[d] /\ got'[d] = got[d]
             /\ plain'[d] = plain[d] /\ out'[d] = out[d]
             /\ plain[d] # NoBuf => content'[plain[d]] = content[plain[d]]
      BY <1>2, <2>1, <2>3, SMT DEF Goes, CacheInv, Types
    <2> QED
      BY <2>6, <2>7, <2>8, <2>9, OneCaller
  <1> QED
    BY <1>1, <1>2, Zenon DEF LoadAll

\* the caller's own buffer is not one anybody copies from
LEMMA OwnSliceWritten ==
  ASSUME CacheInv, NEW c \in Callers, NEW bytes \in Seq(Int),
         content' = [content EXCEPT ![c] = bytes]
  PROVE  /\ content' \in [Slices -> Seq(Int)]
         /\ \A b \in Bufs : content'[b] = content[b]
  BY BufsAreShared, SMT DEF CacheInv, Types, Slices

LEMMA CopyChunkKeeps ==
  ASSUME CacheInv, NEW c \in Callers, CopyChunk(c), UNCHANGED singleBlob
  PROVE  CacheInv'
  <1>1. /\ content' = [content EXCEPT ![c] = content[plain[c]]]
        /\ out' = [out EXCEPT ![c] = c] /\ UNCHANGED <<readable, lock, cacheVars>>
        /\ Returns(c, content[plain[c]], "nil", -1)
        /\ pc[c] = "copy"
    BY Zenon DEF CopyChunk
  <1>2. content[plain[c]] \in Seq(Int)
    <2>1. plain[c] \in Bufs
      BY <1>1, SMT DEF CacheInv, Types, OwnInv
    <2> QED
      BY <2>1, Zenon DEF CacheInv, Types, Slices
  <1>3. /\ content' \in [Slices -> Seq(Int)]
        /\ \A b \in Bufs : content'[b] = content[b]
    BY <1>1, <1>2, OwnSliceWritten, Zenon
  <1>4. /\ pc' \in [Callers -> {"idle", "enter", "lookup", "load", "cache", "lock",
                                "loadAll", "copy"}]
        /\ call' \in [Callers -> Calls \cup {NoCall}]
        /\ plain' \in [Callers -> Bufs \cup {NoBuf}]
        /\ pc'[c] = "idle" /\ plain'[c] = NoBuf
    BY <1>1, SMT DEF Returns, Goes, CacheInv, Types
  <1>5. /\ got' \in [Callers -> Seq(Int)]
        /\ out' \in [Callers -> Slices \cup {NoBuf}] /\ out'[c] = c
    <2>1. << >> \in Seq(Int) /\ c \in Slices
      BY BufsAreShared, SMT
    <2> QED
      BY <1>1, <2>1, SMT DEF Returns, CacheInv, Types
  <1>6. Types'
    <2>1. Units' = Units
      BY Zenon DEF Units
    <2> QED
      BY <1>1, <1>3, <1>4, <1>5, <2>1, Zenon DEF CacheInv, Types, cacheVars
  <1>7. SharedInv'
    BY <1>1, <1>3, SMT DEF CacheInv, Types, SharedInv, cacheVars, PlainOf, UnitStart
  <1>8. OwnInv(c)'
    BY <1>4, <1>5, SMT DEF OwnInv
  <1>9. \A d \in Callers \ {c} :
           /\ pc'[d] = pc[d] /\ call'[d] = call[d] /\ got'[d] = got[d]
           /\ plain'[d] = plain[d] /\ out'[d] = out[d]
           /\ plain[d] # NoBuf => content'[plain[d]] = content[plain[d]]
    BY <1>1, <1>3, SMT DEF Returns, Goes, CacheInv, Types
  <1> QED
    BY <1>6, <1>7, <1>8, <1>9, OneCaller

\* the chunk a position is in begins at or before it, and the next one after it
LEMMA ChunkOf ==
  ASSUME NEW a \in Nat
  PROVE  /\ a \div ChunkPlainSize \in Nat
         /\ (a \div ChunkPlainSize) * ChunkPlainSize <= a
         /\ a < (a \div ChunkPlainSize + 1) * ChunkPlainSize
  <1> DEFINE C == ChunkPlainSize
  <1>1. C \in Nat \ {0}
    BY PlaintextAssumption
  <1>2. a \div C \in Nat /\ (a % C) \in 0 .. C - 1 /\ a = C * (a \div C) + (a % C)
    BY <1>1, SMT
  <1>3. ASSUME NEW q \in Nat, NEW r \in 0 .. C - 1, a = C * q + r
        PROVE  q * C <= a /\ a < (q + 1) * C
    BY <1>1, <1>3, SMT
  <1> QED
    BY <1>2, <1>3, Zenon

\* what a ReadAt has is a sequence of bytes after the next copy, too
LEMMA CopiedType ==
  ASSUME NEW g \in Seq(Int), NEW src \in Seq(Int), NEW off \in Nat, NEW n \in Int,
         n <= Len(src) - off
  PROVE  g \o SubSeq(src, off + 1, off + n) \in Seq(Int)
  <1>1. SubSeq(src, off + 1, off + n) \in Seq(Int)
    <2>1. \A i \in off + 1 .. off + n : i \in 1 .. Len(src)
      BY SMT
    <2> QED
      BY <2>1, SubSeqProperties, SMT
  <1> QED
    BY <1>1, SMT

LEMMA CopyRangeKeeps ==
  ASSUME CacheInv, NEW c \in Callers, CopyRange(c), UNCHANGED singleBlob
  PROVE  CacheInv'
  <1> DEFINE src == content[plain[c]]
             inOff == Abs(c) - UnitStart(Unit(c))
             n == Lesser(call[c].len - Len(got[c]), Len(src) - inOff)
             all == got[c] \o SubSeq(src, inOff + 1, inOff + n)
  <1>1. /\ UNCHANGED <<readable, lock, cacheVars, content, out>>
        /\ pc[c] = "copy" /\ call[c].op = "ReadAt" /\ lock' \in Callers \cup {NoCaller}
    BY Zenon DEF CopyRange, CacheInv, Types
  <1>2. ASSUME NEW data, NEW err, Returns(c, data, err, -1) PROVE CacheInv'
    BY <1>1, <1>2, ReturnKeeps, Zenon
  <1>3. CASE /\ ~singleBlob /\ got' = [got EXCEPT ![c] = all]
             /\ plain' = [plain EXCEPT ![c] = NoBuf]
             /\ Goes(c, "lookup") /\ UNCHANGED <<call, result>>
    <2>1. /\ Admitted(c) /\ plain[c] \in Bufs /\ out[c] \in {NoBuf, c}
          /\ call[c].at \in Int /\ call[c].len \in Nat /\ got[c] \in Seq(Int)
      <3>1. Admitted(c) /\ plain[c] \in Bufs /\ out[c] \in {NoBuf, c}
        <4>1. OwnInv(c) /\ plain[c] \in Bufs \cup {NoBuf} /\ pc[c] = "copy"
          BY <1>1, Zenon DEF CacheInv, Types
        <4>2. plain[c] # NoBuf /\ Admitted(c) /\ out[c] \in {NoBuf, c}
          BY <4>1, SMT DEF OwnInv
        <4> QED
          BY <4>1, <4>2, Zenon
      <3>2. call[c] \in Calls \cup {NoCall} /\ got[c] \in Seq(Int)
        BY Zenon DEF CacheInv, Types
      <3>3. call[c].at \in Int /\ call[c].len \in Nat
        BY <3>2, ReaderAssumption, SMT DEF NoCall
      <3> QED
        BY <3>1, <3>2, <3>3, Zenon
    <2>2. src \in Seq(Int)
      BY <2>1, Zenon DEF CacheInv, Types, Slices
    <2>3. Abs(c) \in Nat
      BY <1>1, <2>1, SMT DEF Admitted, Abs
    <2>4. inOff \in Nat
      <3>1. Unit(c) = Abs(c) \div ChunkPlainSize
        BY <1>1, <1>3, Zenon DEF Unit, UnitAt
      <3>2. /\ Unit(c) \in Nat /\ Unit(c) * ChunkPlainSize <= Abs(c)
            /\ UnitStart(Unit(c)) = Unit(c) * ChunkPlainSize
        BY <1>3, <2>3, <3>1, ChunkOf, Zenon DEF UnitStart
      <3>3. Unit(c) * ChunkPlainSize \in Nat
        BY <3>2, PlaintextAssumption, SMT
      <3> QED
        BY <2>3, <3>2, <3>3, SMT
    <2>5. n \in Int /\ n <= Len(src) - inOff
      <3>1. Len(src) \in Nat /\ Len(got[c]) \in Nat
        BY <2>1, <2>2, SMT
      <3> QED
        BY <2>1, <2>4, <3>1, SMT DEF Lesser
    <2>6. all \in Seq(Int)
      <3> HIDE DEF src, inOff, n
      <3> QED
        BY <2>1, <2>2, <2>4, <2>5, CopiedType, Zenon
    <2> HIDE DEF all
    <2>7. /\ Units' = Units /\ Admitted(c)' = Admitted(c)
      BY <1>3, SMT DEF Admitted, Units
    <2>8. /\ pc' \in [Callers -> {"idle", "enter", "lookup", "load", "cache", "lock",
                                  "loadAll", "copy"}]
          /\ plain' \in [Callers -> Bufs \cup {NoBuf}]
          /\ got' \in [Callers -> Seq(Int)]
          /\ pc'[c] = "lookup" /\ plain'[c] = NoBuf
      BY <1>3, <2>6, SMT DEF Goes, CacheInv, Types
    <2>9. Types'
      BY <1>1, <1>3, <2>7, <2>8, Zenon DEF CacheInv, Types, cacheVars
    <2>10. SharedInv'
      BY <1>1, SMT DEF CacheInv, SharedInv, cacheVars, PlainOf, UnitStart
    <2>11. OwnInv(c)'
      BY <1>1, <2>1, <2>7, <2>8, SMT DEF OwnInv
    <2>12. \A d \in Callers \ {c} :
             /\ pc'[d] = pc[d] /\ call'[d] = call[d] /\ got'[d] = got[d]
             /\ plain'[d] = plain[d] /\ out'[d] = out[d]
             /\ plain[d] # NoBuf => content'[plain[d]] = content[plain[d]]
      BY <1>1, <1>3, SMT DEF Goes, CacheInv, Types
    <2> QED
      BY <2>9, <2>10, <2>11, <2>12, OneCaller
  <1>4. all = Copied(c)
    BY Zenon DEF Copied
  <1> HIDE DEF all
  <1> QED
    BY <1>2, <1>3, <1>4, Zenon DEF CopyRange

\* A caller that writes to the slice it was given reaches nobody else.
LEMMA ScribbleKeeps ==
  ASSUME CacheInv, NEW c \in Callers, Scribble(c), UNCHANGED singleBlob
  PROVE  CacheInv'
  <1>1. /\ UNCHANGED <<readable, lock, cacheVars, callerVars>>
        /\ content' = [content EXCEPT ![c] = Junk]
    BY Zenon DEF Scribble, CacheInv, OwnInv
  <1>2. Junk \in Seq(Int)
    BY SMT DEF Junk
  <1>3. /\ content' \in [Slices -> Seq(Int)]
        /\ \A b \in Bufs : content'[b] = content[b]
    BY <1>1, <1>2, OwnSliceWritten, Zenon
  <1>4. Types'
    BY <1>1, <1>3, Zenon DEF CacheInv, Types, cacheVars, callerVars, Units
  <1>5. SharedInv'
    BY <1>1, <1>3, SMT DEF CacheInv, Types, SharedInv, cacheVars, PlainOf, UnitStart
  <1>6. \A d \in Callers :
           /\ pc'[d] = pc[d] /\ call'[d] = call[d] /\ got'[d] = got[d]
           /\ plain'[d] = plain[d] /\ out'[d] = out[d]
           /\ plain[d] # NoBuf => content'[plain[d]] = content[plain[d]]
    BY <1>1, <1>3, Zenon DEF callerVars, CacheInv, Types
  <1>7. OwnInv(c)'
    <2>1. PlainOf(Unit(c))' = PlainOf(Unit(c)) /\ Admitted(c)' = Admitted(c)
      BY <1>6, SMT DEF PlainOf, UnitStart, Unit, UnitAt, Abs, Admitted, Units
    <2> QED
      BY <1>6, <2>1, SMT DEF CacheInv, OwnInv
  <1> QED
    BY <1>4, <1>5, <1>6, <1>7, OneCaller

LEMMA CallKeeps ==
  ASSUME CacheInv, NEW c \in Callers, NEW k \in Calls, Call(c, k), UNCHANGED singleBlob
  PROVE  CacheInv'
  <1>1. /\ UNCHANGED <<readable, lock, cacheVars, plain>>
        /\ content' = [content EXCEPT ![c] = << >>] /\ pc[c] = "idle"
    BY Zenon DEF Call
  <1>2. << >> \in Seq(Int)
    BY SMT
  <1>3. /\ content' \in [Slices -> Seq(Int)]
        /\ \A b \in Bufs : content'[b] = content[b]
    BY <1>1, <1>2, OwnSliceWritten, Zenon
  <1>4. /\ pc' \in [Callers -> {"idle", "enter", "lookup", "load", "cache", "lock",
                                "loadAll", "copy"}]
        /\ call' \in [Callers -> Calls \cup {NoCall}] /\ got' \in [Callers -> Seq(Int)]
        /\ out' \in [Callers -> Slices \cup {NoBuf}]
        /\ pc'[c] = "enter" /\ out'[c] = NoBuf
    BY <1>2, SMT DEF Call, Goes, CacheInv, Types
  <1>5. Types'
    BY <1>1, <1>3, <1>4, Zenon DEF CacheInv, Types, cacheVars, Units
  <1>6. SharedInv'
    BY <1>1, <1>3, SMT DEF CacheInv, Types, SharedInv, cacheVars, PlainOf, UnitStart
  <1>7. OwnInv(c)'
    <2>1. plain'[c] = NoBuf
      BY <1>1, SMT DEF CacheInv, OwnInv
    <2> QED
      BY <1>4, <2>1, SMT DEF OwnInv
  <1>8. \A d \in Callers \ {c} :
           /\ pc'[d] = pc[d] /\ call'[d] = call[d] /\ got'[d] = got[d]
           /\ plain'[d] = plain[d] /\ out'[d] = out[d]
           /\ plain[d] # NoBuf => content'[plain[d]] = content[plain[d]]
    BY <1>1, <1>3, SMT DEF Call, Goes, CacheInv, Types
  <1> QED
    BY <1>5, <1>6, <1>7, <1>8, OneCaller

\* a step that touches neither buffers nor callers
LEMMA OutsideKeeps ==
  ASSUME CacheInv, readable' \subseteq Units,
         UNCHANGED <<singleBlob, lock, cacheVars, content, callerVars>>
  PROVE  CacheInv'
  <1>1. Types'
    BY SMT DEF CacheInv, Types, cacheVars, callerVars, Units
  <1>2. SharedInv'
    BY SMT DEF CacheInv, SharedInv, cacheVars, PlainOf, UnitStart
  <1>3. ASSUME NEW d \in Callers PROVE OwnInv(d)'
    <2>1. PlainOf(Unit(d))' = PlainOf(Unit(d)) /\ Admitted(d)' = Admitted(d)
      BY SMT DEF PlainOf, UnitStart, Unit, UnitAt, Abs, Admitted, Units, callerVars
    <2> QED
      BY <2>1, SMT DEF CacheInv, OwnInv, callerVars
  <1> QED
    BY <1>1, <1>2, <1>3, Zenon DEF CacheInv

\* Every step preserves CacheInv.
LEMMA CacheStep == CacheInv /\ [Next]_vars => CacheInv'
  <1> SUFFICES ASSUME CacheInv, [Next]_vars PROVE CacheInv'
    OBVIOUS
  <1>1. CASE UNCHANGED vars
    BY <1>1, OutsideKeeps, Zenon DEF vars, CacheInv, Types
  <1>2. CASE Next
    <2>1. UNCHANGED singleBlob
      BY <1>2, Zenon DEF Next
    <2>2. CASE MediumChanges
      <3>1. readable' \subseteq Units
        BY <2>2, Zenon DEF MediumChanges, CacheInv, Types
      <3> QED
        BY <2>1, <2>2, <3>1, OutsideKeeps, Zenon DEF MediumChanges
    <2>3. ASSUME NEW c \in Callers, Runs(c) PROVE CacheInv'
      <3>1. CASE ReadAtEnds(c)
        <4>1. UNCHANGED <<singleBlob, readable, cacheVars, content, out>>
              /\ lock' \in Callers \cup {NoCaller}
          BY <2>1, <3>1, Zenon DEF ReadAtEnds, CacheInv, Types
        <4> QED
          BY <3>1, <4>1, ReturnKeeps, Zenon DEF ReadAtEnds
      <3> QED
        BY <2>1, <2>3, <3>1, EnterKeeps, LoadChunkKeeps, LoadAllKeeps, CopyRangeKeeps,
           CopyChunkKeeps, Zenon DEF Runs
    <2>4. ASSUME NEW c \in Callers, Locks(c) PROVE CacheInv'
      BY <2>1, <2>4, LookupKeeps, CacheChunkKeeps, LockAllKeeps, Zenon DEF Locks
    <2>5. ASSUME NEW c \in Callers, Scribble(c) \/ \E k \in Calls : Call(c, k)
          PROVE  CacheInv'
      BY <2>1, <2>5, ScribbleKeeps, CallKeeps, Zenon
    <2> QED
      BY <1>2, <2>2, <2>3, <2>4, <2>5, Zenon DEF Next
  <1> QED
    BY <1>1, <1>2, Zenon

\* Everything the Reader and its callers do keeps CacheInv.
LEMMA CacheInvariance == Spec => []CacheInv
  BY CacheInit, CacheStep, PTL DEF Spec

(* The state of a Reader has its type, for any number of callers: a load   *)
(* always finds a buffer, and a copy something to copy from.               *)
THEOREM ReaderType == Spec => []TypeOK
  <1>1. CacheInv => TypeOK
    BY Zenon DEF CacheInv, Types, OwnInv, TypeOK
  <1> QED
    BY CacheInvariance, <1>1, PTL

(* CacheIsTrue holds for any number of callers, plaintexts and calls: what *)
(* the cache holds, and what a caller copies from without a lock, are the  *)
(* bytes of the unit they are taken for, whoever races, whatever becomes   *)
(* of the medium, and whatever callers write to the slices they have.      *)
THEOREM CacheStaysTrue == Spec => []CacheIsTrue
  <1>1. CacheInv => CacheIsTrue
    BY Zenon DEF CacheInv, SharedInv, OwnInv, CacheIsTrue
  <1> QED
    BY CacheInvariance, <1>1, PTL

-----------------------------------------------------------------------------
(* The Reader does what PlainFile allows, step by step: every call returns *)
(* the bytes it was asked for, or an error that names the unit that could  *)
(* not be read, with the bytes before it.                                  *)

(* Bytes of the plaintext.                                                 *)

LEMMA BytesAre ==
  ASSUME NEW a \in Int, NEW b \in Int, a <= b
  PROVE  /\ Bytes(a, b) \in Seq(Int) /\ Len(Bytes(a, b)) = b - a
         /\ \A i \in 1 .. b - a : Bytes(a, b)[i] = a + i - 1
  <1>1. (IF a < b THEN b - a ELSE 0) = b - a
    BY SMT
  <1>2. Bytes(a, b) \in Seq(Int) /\ Len(Bytes(a, b)) = b - a
    BY <1>1, BytesType, Zenon
  <1>3. Bytes(a, b) = [k \in 1 .. b - a |-> a + k - 1]
    BY <1>1, Zenon DEF Bytes
  <1> QED
    BY <1>2, <1>3, Zenon

\* no bytes
LEMMA BytesEmpty ==
  ASSUME NEW a \in Int, NEW b \in Int, b <= a
  PROVE  Bytes(a, b) = << >>
  <1>1. Bytes(a, b) \in Seq(Int) /\ Len(Bytes(a, b)) = 0
    BY BytesType, SMT
  <1> QED
    BY <1>1, EmptySeq, SMT

\* a part of some bytes
LEMMA BytesPart ==
  ASSUME NEW a \in Int, NEW b \in Int, NEW i \in Nat, NEW n \in Nat, a + i + n <= b
  PROVE  SubSeq(Bytes(a, b), i + 1, i + n) = Bytes(a + i, a + i + n)
  <1> DEFINE s == Bytes(a, b)
             part == SubSeq(s, i + 1, i + n)
             t == Bytes(a + i, a + i + n)
  <1>1. /\ s \in Seq(Int) /\ Len(s) = b - a
        /\ \A k \in 1 .. b - a : s[k] = a + k - 1
    <2>1. a <= b
      BY SMT
    <2> QED
      BY <2>1, BytesAre, Zenon
  <1>2. /\ t \in Seq(Int) /\ Len(t) = n
        /\ \A k \in 1 .. n : t[k] = a + i + k - 1
    <2>1. a + i \in Int /\ a + i + n \in Int /\ a + i <= a + i + n /\ (a + i + n) - (a + i) = n
      BY SMT
    <2> HIDE DEF t
    <2>2. /\ t \in Seq(Int) /\ Len(t) = (a + i + n) - (a + i)
          /\ \A k \in 1 .. (a + i + n) - (a + i) : t[k] = (a + i) + k - 1
      BY <2>1, BytesAre, Zenon DEF t
    <2> QED
      BY <2>1, <2>2, SMT
  <1>3. /\ part \in Seq(Int) /\ Len(part) = n
        /\ \A k \in 1 .. n : part[k] = s[i + 1 + k - 1]
    <2>1. \A k \in i + 1 .. i + n : s[k] \in Int
      <3>1. \A k \in i + 1 .. i + n : k \in 1 .. b - a
        BY SMT
      <3> QED
        BY <1>1, <3>1, SMT
    <2>2. i + 1 \in Int /\ i + n \in Int
      BY SMT
    <2>3. /\ part \in Seq(Int)
          /\ Len(part) = IF i + 1 <= i + n THEN (i + n) - (i + 1) + 1 ELSE 0
          /\ \A k \in 1 .. (i + n) - (i + 1) + 1 : part[k] = s[(i + 1) + k - 1]
      <3> HIDE DEF s
      <3> QED
        BY <2>1, <2>2, SubSeqProperties
    <2> HIDE DEF part, s
    <2> QED
      BY <2>3, SMT
  <1>4. \A k \in 1 .. n : part[k] = t[k]
    <2> HIDE DEF part, s, t
    <2> TAKE k \in 1 .. n
    <2>1. i + 1 + k - 1 = i + k /\ i + k \in 1 .. b - a
      BY SMT
    <2>2. part[k] = s[i + k]
      BY <1>3, <2>1, Zenon
    <2>3. s[i + k] = a + (i + k) - 1
      BY <1>1, <2>1, Zenon
    <2> QED
      BY <1>2, <2>2, <2>3, SMT
  <1> HIDE DEF part, t
  <1>5. part = t
    BY <1>2, <1>3, <1>4, SeqEqual
  <1> QED
    BY <1>5 DEF part, t

\* some bytes and the following ones
LEMMA BytesJoin ==
  ASSUME NEW a \in Int, NEW m \in Int, NEW b \in Int, a <= m, m <= b
  PROVE  Bytes(a, m) \o Bytes(m, b) = Bytes(a, b)
  <1> DEFINE s == Bytes(a, m)
             t == Bytes(m, b)
             u == Bytes(a, b)
  <1>1. /\ s \in Seq(Int) /\ Len(s) = m - a
        /\ \A k \in 1 .. m - a : s[k] = a + k - 1
    BY BytesAre, Zenon
  <1>2. /\ t \in Seq(Int) /\ Len(t) = b - m
        /\ \A k \in 1 .. b - m : t[k] = m + k - 1
    BY BytesAre, Zenon
  <1>3. /\ u \in Seq(Int) /\ Len(u) = b - a
        /\ \A k \in 1 .. b - a : u[k] = a + k - 1
    <2>1. a <= b
      BY SMT
    <2> QED
      BY <2>1, BytesAre, Zenon
  <1> HIDE DEF s, t, u
  <1>4. /\ s \o t \in Seq(Int) /\ Len(s \o t) = Len(s) + Len(t)
        /\ \A k \in 1 .. Len(s) + Len(t) :
             (s \o t)[k] = IF k <= Len(s) THEN s[k] ELSE t[k - Len(s)]
    BY <1>1, <1>2, ConcatProperties
  <1>5. \A k \in 1 .. b - a : (s \o t)[k] = u[k]
    <2> TAKE k \in 1 .. b - a
    <2>1. u[k] = a + k - 1 /\ k \in 1 .. Len(s) + Len(t)
      BY <1>1, <1>2, <1>3, SMT
    <2>2. CASE k <= m - a
      <3>1. k \in 1 .. m - a /\ (s \o t)[k] = s[k]
        BY <1>1, <1>4, <2>1, <2>2, SMT
      <3> QED
        BY <1>1, <2>1, <3>1, Zenon
    <2>3. CASE k > m - a
      <3>1. k - (m - a) \in 1 .. b - m /\ (s \o t)[k] = t[k - (m - a)]
        BY <1>1, <1>4, <2>1, <2>3, SMT
      <3>2. (s \o t)[k] = m + (k - (m - a)) - 1
        BY <1>2, <3>1, Zenon
      <3> QED
        BY <2>1, <3>2, SMT
    <2>4. k <= m - a \/ k > m - a
      BY SMT
    <2> QED
      BY <2>2, <2>3, <2>4, Zenon
  <1>6. Len(s \o t) = b - a
    BY <1>1, <1>2, <1>4, SMT
  <1> QED
    BY <1>3, <1>4, <1>5, <1>6, SeqEqual DEF s, t, u

\* a chunk, or the whole plaintext, up to its end
LEMMA PlainIs ==
  ASSUME NEW p \in Nat, p < PlainSize \/ singleBlob, singleBlob \in BOOLEAN
  PROVE  \E start \in Nat, end \in Int :
           /\ start = UnitStart(UnitAt(p)) /\ start <= end
           /\ PlainOf(UnitAt(p)) = Bytes(start, end)
           /\ singleBlob => start = 0 /\ end = PlainSize
           /\ ~singleBlob =>
                /\ start <= p /\ p < end /\ end <= PlainSize
                /\ end # PlainSize => end = UnitStart(UnitAt(end))
  <1>1. CASE singleBlob
    BY <1>1, PlaintextAssumption, SMT DEF UnitStart, UnitAt, PlainOf
  <1>2. CASE ~singleBlob
    <2> DEFINE C == ChunkPlainSize
               u == p \div C
               s == u * C
               e == (u + 1) * C
    <2>1. u \in Nat /\ s <= p /\ p < e /\ C \in Nat \ {0}
      BY ChunkOf, PlaintextAssumption, Zenon
    <2>2. s \in Nat /\ e \in Nat /\ s <= e
      <3> HIDE DEF u
      <3> QED
        BY <2>1, SMT
    <2>3. e \div C = u + 1
      <3>1. ASSUME NEW v \in Nat PROVE (v * C) \div C = v
        BY <2>1, <3>1, SMT
      <3>2. u + 1 \in Nat
        BY <2>1, SMT
      <3> QED
        BY <3>1, <3>2, Zenon
    <2>4. /\ UnitAt(p) = u /\ UnitStart(u) = s /\ UnitStart(u + 1) = e
          /\ UnitStart(UnitAt(e)) = e /\ PlainOf(u) = Bytes(s, Lesser(e, PlainSize))
      BY <1>2, <2>3, Zenon DEF UnitAt, UnitStart, PlainOf
    <2>5. /\ Lesser(e, PlainSize) \in Int /\ s <= Lesser(e, PlainSize)
          /\ p < Lesser(e, PlainSize) /\ Lesser(e, PlainSize) <= PlainSize
          /\ Lesser(e, PlainSize) # PlainSize => Lesser(e, PlainSize) = e
      <3> HIDE DEF s, e
      <3> QED
        BY <1>2, <2>1, <2>2, PlaintextAssumption, SMT DEF Lesser
    <2> HIDE DEF s, e, u
    <2> QED
      BY <1>2, <2>1, <2>2, <2>4, <2>5, Zenon
  <1> QED
    BY <1>1, <1>2, Zenon

-----------------------------------------------------------------------------
(* What PlainFile allows.                                                  *)

LEMMA ResultsAre ==
  ASSUME NEW k \in Calls
  PROVE  /\ k.op # "ReadAt" /\ k.at \notin Units =>
              Returned(<< >>, "range", -1) \in Abstract!Results(k)
         /\ k.op # "ReadAt" /\ k.at \in Units =>
              /\ Returned(PlainOf(k.at), "nil", -1) \in Abstract!Results(k)
              /\ Returned(<< >>, "failed", k.at) \in Abstract!Results(k)
         /\ k.op = "ReadAt" /\ k.at < 0 =>
              Returned(<< >>, "negative", -1) \in Abstract!Results(k)
         /\ k.op = "ReadAt" /\ k.at >= 0 /\ k.len = 0 =>
              Returned(<< >>, "nil", -1) \in Abstract!Results(k)
  <1>1. k.at \in Int /\ k.len \in Nat
    BY ReaderAssumption, SMT
  <1>2. ~(k.at < 0 /\ k.at >= 0)
    BY <1>1, SMT
  <1> QED
    BY <1>2 DEF Abstract!Results, Abstract!ReadAtResults, Abstract!ReadChunkAtResults,
       Abstract!Returned, Returned, Abstract!Units, Units, Abstract!PlainOf, PlainOf,
       Abstract!Bytes, Bytes, Abstract!UnitStart, UnitStart, Abstract!Lesser, Lesser

\* where the bytes a ReadAt asked for end
End(k) == Lesser(k.at + k.len, PlainSize)

LEMMA ReadAtResultsAre ==
  ASSUME NEW k \in Calls, k.op = "ReadAt", k.at >= 0, k.len > 0
  PROVE  /\ Returned(Bytes(k.at, End(k)), IF k.at + k.len <= PlainSize THEN "nil" ELSE "EOF", -1)
              \in Abstract!Results(k)
         /\ \A n \in k.at .. End(k) - 1 :
              n = k.at \/ n = UnitStart(UnitAt(n)) =>
                Returned(Bytes(k.at, n), "failed", UnitAt(n)) \in Abstract!Results(k)
         /\ singleBlob => Returned(<< >>, "failed", 0) \in Abstract!Results(k)
  <1>1. k.at \in Int /\ k.len \in Nat
    BY ReaderAssumption, SMT
  <1>2. ~(k.at < 0) /\ k.len # 0
    BY <1>1, SMT
  <1>3. Abstract!Results(k) =
          {Returned(Bytes(k.at, End(k)), IF k.at + k.len <= PlainSize THEN "nil" ELSE "EOF", -1)}
            \cup Abstract!FailedReads(k.at, End(k))
    BY <1>2, Zenon DEF Abstract!Results, Abstract!ReadAtResults, Abstract!Returned, Returned,
       Abstract!Bytes, Bytes, Abstract!Lesser, Lesser, End
  <1>4. Abstract!FailedReads(k.at, End(k)) =
          {Returned(Bytes(k.at, n), "failed", UnitAt(n)) :
             n \in {n \in k.at .. End(k) - 1 : n = k.at \/ n = UnitStart(UnitAt(n))}}
            \cup (IF singleBlob THEN {Returned(<< >>, "failed", 0)} ELSE {})
    BY Zenon DEF Abstract!FailedReads, Abstract!Returned, Returned, Abstract!Bytes, Bytes,
       Abstract!UnitStart, UnitStart, Abstract!UnitAt, UnitAt
  <1> QED
    BY <1>3, <1>4, Zenon

-----------------------------------------------------------------------------
(* What a call in progress has, and where it may be.                       *)
GotInv(c) ==
    /\ pc[c] = "idle" => call[c] = NoCall
    /\ pc[c] # "idle" => call[c] \in Calls
    /\ pc[c] = "enter" \/ call[c].op # "ReadAt" \/ singleBlob => got[c] = << >>
    /\ pc[c] \notin {"idle", "enter"} /\ call[c].op = "ReadAt" =>
         /\ call[c].len > 0 /\ Len(got[c]) <= call[c].len
         /\ got[c] = Bytes(call[c].at, Abs(c))
         /\ got[c] = << >> \/ Abs(c) <= PlainSize
         \* a ReadAt goes on at the beginning of a chunk
         /\ \/ got[c] = << >>
            \/ Abs(c) = call[c].at + call[c].len \/ Abs(c) = PlainSize
            \/ Abs(c) = UnitStart(UnitAt(Abs(c)))
    /\ pc[c] \in {"load", "cache"} => ~singleBlob
    /\ ~singleBlob /\ pc[c] \in {"load", "cache", "copy"} => ~AtEnd(c)

FileInv == CacheInv /\ \A c \in Callers : GotInv(c)

LEMMA GotFrame ==
  ASSUME NEW d \in Callers, GotInv(d), UNCHANGED singleBlob,
         pc'[d] = pc[d], call'[d] = call[d], got'[d] = got[d]
  PROVE  GotInv(d)'
  <1>1. Abs(d)' = Abs(d)
    BY Zenon DEF Abs
  <1>2. /\ AtEnd(d)' = AtEnd(d)
        /\ UnitStart(UnitAt(Abs(d)))' = UnitStart(UnitAt(Abs(d)))
    BY <1>1, Zenon DEF AtEnd, UnitStart, UnitAt
  <1> QED
    BY <1>1, <1>2, Zenon DEF GotInv

\* a call that returns with what PlainFile allows is a step of PlainFile
LEMMA ReturnStep ==
  ASSUME FileInv, NEW c \in Callers, UNCHANGED singleBlob, pc[c] # "idle",
         NEW data, NEW err, NEW unit, Returns(c, data, err, unit),
         Returned(data, err, unit) \in Abstract!Results(call[c])
  PROVE  (\A d \in Callers : GotInv(d))' /\ Abstract!Next
  <1>1. call[c] \in Calls /\ GotInv(c)
    BY Zenon DEF FileInv, GotInv
  <1>2. call[c] # NoCall
    <2>1. call[c].op \in {"ReadAt", "ReadChunkAt"}
      BY <1>1, ReaderAssumption, SMT
    <2> QED
      BY <2>1, SMT DEF NoCall
  <1>3. Abstract!Next
    BY <1>2, Zenon DEF Abstract!Next, Abstract!Return, Abstract!NoCall, NoCall, Returns
  <1>4. ASSUME NEW d \in Callers PROVE GotInv(d)'
    <2>1. CASE d # c
      BY <1>4, <2>1, GotFrame, SMT DEF FileInv, CacheInv, Types, Returns, Goes
    <2>2. CASE d = c
      <3>1. /\ pc'[c] = "idle" /\ call'[c] = NoCall /\ got'[c] = << >>
        BY SMT DEF FileInv, CacheInv, Types, Returns, Goes
      <3> QED
        BY <2>2, <3>1, SMT DEF GotInv
    <2> QED
      BY <2>1, <2>2, Zenon
  <1> QED
    BY <1>3, <1>4, Zenon

\* any other step inside a call changes nothing PlainFile knows of
LEMMA InnerStep ==
  ASSUME FileInv, NEW c \in Callers, UNCHANGED <<singleBlob, call, result>>,
         \A d \in Callers \ {c} : pc'[d] = pc[d] /\ got'[d] = got[d],
         GotInv(c)'
  PROVE  (\A d \in Callers : GotInv(d))' /\ UNCHANGED Abstract!pfVars
  <1>1. ASSUME NEW d \in Callers, d # c PROVE GotInv(d)'
    BY <1>1, GotFrame, Zenon DEF FileInv
  <1> QED
    BY <1>1, Zenon DEF Abstract!pfVars

-----------------------------------------------------------------------------
(* The steps.                                                              *)
Simulated ==
    /\ \A d \in Callers : GotInv(d)'
    /\ Abstract!Next \/ UNCHANGED Abstract!pfVars

\* of a caller under way
LEMMA Facts ==
  ASSUME FileInv, NEW c \in Callers
  PROVE  /\ GotInv(c) /\ OwnInv(c)
         /\ got[c] \in Seq(Int) /\ Len(got[c]) \in Nat /\ singleBlob \in BOOLEAN
         /\ call[c].at \in Int /\ call[c].len \in Nat
         /\ Abs(c) = call[c].at + Len(got[c]) /\ Abs(c) \in Int
  <1>1. GotInv(c) /\ OwnInv(c) /\ call[c] \in Calls \cup {NoCall} /\ got[c] \in Seq(Int)
        /\ singleBlob \in BOOLEAN
    BY Zenon DEF FileInv, CacheInv, Types
  <1>2. call[c].at \in Int /\ call[c].len \in Nat
    BY <1>1, ReaderAssumption, SMT DEF NoCall
  <1>3. Len(got[c]) \in Nat
    BY <1>1, SMT
  <1> QED
    BY <1>1, <1>2, <1>3, SMT DEF Abs

LEMMA EnterSimulates ==
  ASSUME FileInv, NEW c \in Callers, Enter(c), UNCHANGED singleBlob
  PROVE  Simulated
  <1>1. /\ pc[c] = "enter" /\ call[c] \in Calls /\ got[c] = << >> /\ GotInv(c)
        /\ call[c].at \in Int /\ call[c].len \in Nat
    BY Facts, SMT DEF Enter, GotInv
  <1>2. ASSUME NEW err, Returns(c, << >>, err, -1),
               Returned(<< >>, err, -1) \in Abstract!Results(call[c])
        PROVE  Simulated
    BY <1>1, <1>2, ReturnStep, SMT DEF Simulated
  <1>3. CASE call[c].op = "ReadAt" /\ call[c].at < 0 /\ Returns(c, << >>, "negative", -1)
    BY <1>1, <1>2, <1>3, ResultsAre, Zenon
  <1>4. CASE call[c].op = "ReadAt" /\ call[c].at >= 0 /\ call[c].len = 0
             /\ Returns(c, << >>, "nil", -1)
    BY <1>1, <1>2, <1>4, ResultsAre, Zenon
  <1>5. CASE call[c].op = "ReadChunkAt" /\ call[c].at \notin Units
             /\ Returns(c, << >>, "range", -1)
    <2>1. call[c].op # "ReadAt"
      BY <1>5
    <2> QED
      BY <1>1, <1>2, <1>5, <2>1, ResultsAre, Zenon
  <1>6. CASE /\ IF call[c].op = "ReadAt" THEN call[c].at >= 0 /\ call[c].len > 0
                                         ELSE call[c].at \in Units
             /\ Goes(c, "lookup") /\ UNCHANGED <<call, got, plain, result>>
    <2>1. /\ pc'[c] = "lookup" /\ call'[c] = call[c] /\ got'[c] = << >>
          /\ \A d \in Callers \ {c} : pc'[d] = pc[d] /\ got'[d] = got[d]
      BY <1>1, <1>6, SMT DEF Goes, FileInv, CacheInv, Types
    <2>2. Abs(c)' = call[c].at /\ Bytes(call[c].at, call[c].at) = << >> /\ Len(<< >>) = 0
      BY <1>1, <2>1, BytesEmpty, SMT DEF Abs
    <2>3. GotInv(c)'
      BY <1>1, <1>6, <2>1, <2>2, SMT DEF GotInv, Bytes
    <2> QED
      BY <1>6, <2>1, <2>3, InnerStep, Zenon DEF Simulated
  <1> QED
    BY <1>3, <1>4, <1>5, <1>6 DEF Enter

\* the loop ends with every byte asked for, or every byte there is
LEMMA ReadAtEndsSimulates ==
  ASSUME FileInv, NEW c \in Callers, ReadAtEnds(c), UNCHANGED singleBlob
  PROVE  Simulated
  <1> DEFINE k == call[c]
             len == Len(got[c])
  <1>1. /\ pc[c] = "lookup" /\ k \in Calls /\ k.op = "ReadAt" /\ ~singleBlob
        /\ len = k.len \/ Abs(c) >= PlainSize
        /\ Returns(c, got[c], IF len < k.len THEN "EOF" ELSE "nil", -1)
    BY Facts, SMT DEF ReadAtEnds, AtEnd, GotInv
  <1>2. /\ k.len > 0 /\ len <= k.len /\ got[c] = Bytes(k.at, Abs(c))
        /\ got[c] = << >> \/ Abs(c) <= PlainSize
        /\ k.at >= 0
    BY <1>1, Facts, SMT DEF GotInv, OwnInv, Admitted
  <1>3. /\ k.at \in Int /\ k.len \in Nat /\ len \in Nat /\ Abs(c) = k.at + len
        /\ got[c] = << >> => len = 0
    BY Facts, SMT
  <1>4. /\ got[c] = Bytes(k.at, End(k))
        /\ (len < k.len) <=> ~(k.at + k.len <= PlainSize)
    <2>1. CASE len = k.len
      <3>1. k.at + k.len <= PlainSize /\ End(k) = Abs(c)
        BY <1>2, <1>3, <2>1, PlaintextAssumption, SMT DEF End, Lesser
      <3>2. ~(len < k.len)
        BY <1>3, <2>1, SMT
      <3> QED
        BY <1>2, <3>1, <3>2, Zenon
    <2>2. CASE len < k.len
      <3>1. Abs(c) >= PlainSize /\ End(k) = PlainSize /\ ~(k.at + k.len <= PlainSize)
        BY <1>1, <1>2, <1>3, <2>2, PlaintextAssumption, SMT DEF End, Lesser
      <3>2. CASE got[c] = << >>
        <4>1. k.at >= PlainSize
          BY <1>3, <3>1, <3>2, SMT
        <4>2. Bytes(k.at, PlainSize) = << >>
          BY <1>3, <4>1, BytesEmpty, PlaintextAssumption, SMT
        <4> QED
          BY <2>2, <3>1, <3>2, <4>2, SMT
      <3>3. CASE Abs(c) <= PlainSize
        <4>1. Abs(c) = PlainSize
          BY <1>3, <3>1, <3>3, PlaintextAssumption, SMT
        <4> QED
          BY <1>2, <2>2, <3>1, <4>1, SMT
      <3> QED
        BY <1>2, <3>2, <3>3, Zenon
    <2> QED
      BY <1>2, <1>3, <2>1, <2>2, SMT
  <1>5. Returned(got[c], IF len < k.len THEN "EOF" ELSE "nil", -1) \in Abstract!Results(k)
    <2>1. (IF len < k.len THEN "EOF" ELSE "nil") =
            (IF k.at + k.len <= PlainSize THEN "nil" ELSE "EOF")
      BY <1>4, Zenon
    <2> QED
      BY <1>1, <1>2, <1>4, <2>1, ReadAtResultsAre, Zenon
  <1> QED
    BY <1>1, <1>5, ReturnStep, SMT DEF Simulated

\* a caller that moves on with what it has
LEMMA MoveSimulates ==
  ASSUME FileInv, NEW c \in Callers, UNCHANGED <<singleBlob, call, got, result>>,
         pc[c] \notin {"idle", "enter"},
         \/ Goes(c, "copy") /\ (singleBlob \/ ~AtEnd(c))
         \/ ~singleBlob /\ ~AtEnd(c) /\ (Goes(c, "load") \/ Goes(c, "cache"))
         \/ Goes(c, "lock") \/ Goes(c, "loadAll")
  PROVE  Simulated
  <1>1. \A d \in Callers \ {c} : pc'[d] = pc[d] /\ got'[d] = got[d]
    BY SMT DEF Goes, FileInv, CacheInv, Types
  <1>2. /\ pc'[c] \in {"load", "cache", "copy", "lock", "loadAll"}
        /\ pc'[c] \in {"load", "cache"} => ~singleBlob
        /\ ~singleBlob /\ pc'[c] \in {"load", "cache", "copy"} => ~AtEnd(c)
    <2>1. pc \in [Callers -> {"idle", "enter", "lookup", "load", "cache", "lock",
                              "loadAll", "copy"}]
      BY Zenon DEF FileInv, CacheInv, Types
    <2> QED
      BY <2>1, SMT DEF Goes
  <1>3. GotInv(c)'
    <2>1. Abs(c)' = Abs(c) /\ call'[c] = call[c] /\ got'[c] = got[c]
      BY Zenon DEF Abs
    <2>2. /\ AtEnd(c)' = AtEnd(c)
          /\ UnitStart(UnitAt(Abs(c)))' = UnitStart(UnitAt(Abs(c)))
      BY <2>1, Zenon DEF AtEnd, UnitStart, UnitAt
    <2>3. GotInv(c)
      BY Zenon DEF FileInv
    <2> QED
      BY <1>2, <2>1, <2>2, <2>3, SMT DEF GotInv
  <1> QED
    BY <1>1, <1>3, InnerStep, Zenon DEF Simulated

LEMMA LocksSimulates ==
  ASSUME FileInv, NEW c \in Callers, Locks(c)
  PROVE  Simulated
  <1>1. CASE Lookup(c)
    <2>1. /\ UNCHANGED <<singleBlob, call, got, result>>
          /\ pc[c] \notin {"idle", "enter"} /\ ~AtEnd(c)
      BY <1>1, Zenon DEF Locks, Lookup
    <2>2. \/ Goes(c, "copy") \/ (~singleBlob /\ Goes(c, "load")) \/ Goes(c, "lock")
      BY <1>1, Zenon DEF Lookup
    <2> QED
      BY <2>1, <2>2, MoveSimulates, Zenon
  <1>2. CASE CacheChunk(c)
    <2>1. /\ UNCHANGED <<singleBlob, call, got, result>> /\ Goes(c, "copy")
          /\ pc[c] = "cache"
      BY <1>2, Zenon DEF Locks, CacheChunk
    <2>2. ~AtEnd(c)
      BY <2>1, SMT DEF FileInv, GotInv
    <2> QED
      BY <2>1, <2>2, MoveSimulates, SMT
  <1>3. CASE LockAll(c)
    <2>1. /\ UNCHANGED <<singleBlob, call, got, result>> /\ pc[c] = "lock"
          /\ Goes(c, "copy") \/ Goes(c, "loadAll")
      BY <1>3, Zenon DEF Locks, LockAll
    <2>2. singleBlob
      BY <2>1, SMT DEF FileInv, CacheInv, OwnInv
    <2> QED
      BY <2>1, <2>2, MoveSimulates, SMT
  <1> QED
    BY <1>1, <1>2, <1>3, Zenon DEF Locks

\* a load that fails names the unit, and what was copied ends where it begins
LEMMA LoadChunkSimulates ==
  ASSUME FileInv, NEW c \in Callers, LoadChunk(c), UNCHANGED singleBlob
  PROVE  Simulated
  <1> DEFINE k == call[c]
  <1>1. /\ pc[c] = "load" /\ k \in Calls /\ ~singleBlob /\ ~AtEnd(c) /\ Admitted(c)
        /\ GotInv(c)
    BY Facts, SMT DEF LoadChunk, GotInv, OwnInv
  <1>2. CASE Goes(c, "cache") /\ UNCHANGED <<call, got, result>>
    BY <1>1, <1>2, MoveSimulates, SMT
  <1>3. CASE Returns(c, got[c], "failed", Unit(c))
    <2>1. Returned(got[c], "failed", Unit(c)) \in Abstract!Results(k)
      <3>1. CASE k.op = "ReadAt"
        <4>1. /\ k.len > 0 /\ k.at >= 0 /\ got[c] = Bytes(k.at, Abs(c)) /\ Len(got[c]) <= k.len
              /\ \/ got[c] = << >>
                 \/ Abs(c) = k.at + k.len \/ Abs(c) = PlainSize
                 \/ Abs(c) = UnitStart(UnitAt(Abs(c)))
          BY <1>1, <3>1, SMT DEF GotInv, Admitted
        <4>2. /\ k.at \in Int /\ k.len \in Nat /\ Len(got[c]) \in Nat
              /\ Abs(c) = k.at + Len(got[c])
              /\ got[c] = << >> => Len(got[c]) = 0
          BY Facts, SMT
        <4>3. Len(got[c]) # k.len /\ ~(Abs(c) >= PlainSize)
          BY <1>1, <3>1, Zenon DEF AtEnd
        <4>4. Abs(c) \in k.at .. End(k) - 1
          BY <4>1, <4>2, <4>3, PlaintextAssumption, SMT DEF End, Lesser
        <4>5. Abs(c) = k.at \/ Abs(c) = UnitStart(UnitAt(Abs(c)))
          <5>1. Abs(c) # k.at + k.len /\ Abs(c) # PlainSize
            BY <4>2, <4>3, PlaintextAssumption, SMT
          <5>2. got[c] = << >> => Abs(c) = k.at
            BY <4>2, SMT
          <5> QED
            BY <4>1, <5>1, <5>2, Zenon
        <4>6. Unit(c) = UnitAt(Abs(c))
          BY <3>1, SMT DEF Unit
        <4> QED
          BY <1>1, <3>1, <4>1, <4>4, <4>5, <4>6, ReadAtResultsAre, Zenon
      <3>2. CASE k.op # "ReadAt"
        <4>1. k.op = "ReadChunkAt"
          BY <1>1, <3>2, ReaderAssumption, SMT
        <4>2. got[c] = << >> /\ Unit(c) = k.at /\ k.at \in Units
          BY <1>1, <3>2, <4>1, SMT DEF GotInv, Unit, Admitted
        <4> QED
          BY <1>1, <3>2, <4>2, ResultsAre, Zenon
      <3> QED
        BY <3>1, <3>2, Zenon
    <2> QED
      BY <1>1, <1>3, <2>1, ReturnStep, SMT DEF Simulated
  <1> QED
    BY <1>2, <1>3, Zenon DEF LoadChunk

LEMMA LoadAllSimulates ==
  ASSUME FileInv, NEW c \in Callers, LoadAll(c), UNCHANGED singleBlob
  PROVE  Simulated
  <1> DEFINE k == call[c]
  <1>1. /\ pc[c] = "loadAll" /\ k \in Calls /\ singleBlob /\ Admitted(c) /\ GotInv(c)
    BY Facts, SMT DEF LoadAll, GotInv, OwnInv
  <1>2. CASE Goes(c, "copy") /\ UNCHANGED <<call, got, result>>
    BY <1>1, <1>2, MoveSimulates, SMT
  <1>3. CASE Returns(c, << >>, "failed", 0)
    <2>1. Returned(<< >>, "failed", 0) \in Abstract!Results(k)
      <3>1. CASE k.op = "ReadAt"
        <4>1. k.len > 0 /\ k.at >= 0
          BY <1>1, <3>1, SMT DEF GotInv, Admitted
        <4> QED
          BY <1>1, <3>1, <4>1, ReadAtResultsAre, Zenon
      <3>2. CASE k.op # "ReadAt"
        <4>1. k.op = "ReadChunkAt"
          BY <1>1, <3>2, ReaderAssumption, SMT
        <4>2. k.at \in Units /\ k.at = 0
          BY <1>1, <4>1, SMT DEF Admitted, Units
        <4> QED
          BY <1>1, <3>2, <4>2, ResultsAre, Zenon
      <3> QED
        BY <3>1, <3>2, Zenon
    <2> QED
      BY <1>1, <1>3, <2>1, ReturnStep, SMT DEF Simulated
  <1> QED
    BY <1>2, <1>3, Zenon DEF LoadAll

LEMMA CopyChunkSimulates ==
  ASSUME FileInv, NEW c \in Callers, CopyChunk(c), UNCHANGED singleBlob
  PROVE  Simulated
  <1> DEFINE k == call[c]
  <1>1. /\ pc[c] = "copy" /\ k \in Calls /\ k.op = "ReadChunkAt" /\ Admitted(c)
        /\ plain[c] # NoBuf /\ content[plain[c]] = PlainOf(Unit(c))
        /\ Returns(c, content[plain[c]], "nil", -1)
    BY Facts, SMT DEF CopyChunk, GotInv, OwnInv
  <1>2. Unit(c) = k.at /\ k.at \in Units /\ k.op # "ReadAt"
    BY <1>1, SMT DEF Unit, Admitted
  <1>3. Returned(content[plain[c]], "nil", -1) \in Abstract!Results(k)
    BY <1>1, <1>2, ResultsAre, Zenon
  <1> QED
    BY <1>1, <1>3, ReturnStep, SMT DEF Simulated

\* a copy appends the next bytes of the plaintext, up to the end of the chunk
LEMMA CopyRangeSimulates ==
  ASSUME FileInv, NEW c \in Callers, CopyRange(c), UNCHANGED singleBlob
  PROVE  Simulated
  <1> DEFINE k == call[c]
             src == content[plain[c]]
             inOff == Abs(c) - UnitStart(Unit(c))
             n == Lesser(k.len - Len(got[c]), Len(src) - inOff)
             all == got[c] \o SubSeq(src, inOff + 1, inOff + n)
  <1>1. /\ pc[c] = "copy" /\ k \in Calls /\ k.op = "ReadAt" /\ k.at >= 0 /\ k.len > 0
        /\ src = PlainOf(UnitAt(Abs(c))) /\ Unit(c) = UnitAt(Abs(c))
        /\ Len(got[c]) <= k.len /\ got[c] = Bytes(k.at, Abs(c))
        /\ singleBlob => got[c] = << >>
        /\ ~singleBlob => ~AtEnd(c)
    BY Facts, SMT DEF CopyRange, GotInv, OwnInv, Admitted, Unit
  <1>2. /\ k.at \in Nat /\ k.len \in Nat /\ Len(got[c]) \in Nat
        /\ Abs(c) = k.at + Len(got[c]) /\ Abs(c) \in Nat
        /\ got[c] = << >> => Len(got[c]) = 0
        /\ singleBlob \in BOOLEAN /\ PlainSize \in Nat
    <2>1. got[c] = << >> => Len(got[c]) = 0
      BY SMT
    <2> QED
      BY <1>1, <2>1, Facts, PlaintextAssumption, SMT
  <1>3. CASE singleBlob
    <2>1. /\ UnitStart(Unit(c)) = 0 /\ src = Bytes(0, PlainSize) /\ got[c] = << >>
      BY <1>1, <1>3, Zenon DEF UnitStart, PlainOf
    <2>2. /\ Len(src) = PlainSize /\ inOff = k.at /\ Len(got[c]) = 0
          /\ n = Lesser(k.len, PlainSize - k.at)
      <3>1. 0 \in Int /\ PlainSize \in Int /\ 0 <= PlainSize /\ PlainSize - 0 = PlainSize
        BY <1>2, SMT
      <3>2. Len(src) = PlainSize
        <4>1. Len(Bytes(0, PlainSize)) = PlainSize - 0
          BY <3>1, BytesAre, Zenon
        <4> QED
          BY <2>1, <3>1, <4>1, Zenon
      <3> HIDE DEF src
      <3> QED
        BY <1>2, <2>1, <3>2, SMT
    <2>3. CASE inOff >= Len(src) /\ Returns(c, << >>, "EOF", -1)
      <3>1. /\ ~(k.at + k.len <= PlainSize) /\ End(k) = PlainSize /\ PlainSize <= k.at
        <4> HIDE DEF src, inOff
        <4> QED
          BY <1>1, <1>2, <2>2, <2>3, SMT DEF End, Lesser
      <3>2. Bytes(k.at, End(k)) = << >>
        BY <1>2, <3>1, BytesEmpty, SMT
      <3>3. Returned(<< >>, "EOF", -1) \in Abstract!Results(k)
        BY <1>1, <3>1, <3>2, ReadAtResultsAre, Zenon
      <3> QED
        BY <1>1, <2>3, <3>3, ReturnStep, SMT DEF Simulated
    <2>4. CASE /\ inOff < Len(src)
               /\ Returns(c, all, IF Len(all) < k.len THEN "EOF" ELSE "nil", -1)
      <3>1. /\ k.at < PlainSize /\ n \in Nat /\ k.at + n = End(k) /\ k.at + n <= PlainSize
            /\ 0 + k.at = k.at
            /\ n < k.len <=> ~(k.at + k.len <= PlainSize)
        <4>1. k.at < PlainSize /\ n = Lesser(k.len, PlainSize - k.at)
          <5> HIDE DEF src, inOff, n
          <5> QED
            BY <1>2, <2>2, <2>4, SMT
        <4> HIDE DEF n
        <4> QED
          BY <1>1, <1>2, <4>1, SMTT(30) DEF End, Lesser
      <3>2. all = Bytes(k.at, End(k))
        <4>1. SubSeq(Bytes(0, PlainSize), k.at + 1, k.at + n) = Bytes(0 + k.at, 0 + k.at + n)
          <5>1. 0 + k.at + n <= PlainSize /\ 0 \in Int /\ PlainSize \in Int
            <6> HIDE DEF n
            <6> QED
              BY <1>2, <3>1, SMT
          <5> HIDE DEF n
          <5> QED
            BY <1>2, <3>1, <5>1, BytesPart, ZenonT(60)
        <4>2. SubSeq(src, inOff + 1, inOff + n) = Bytes(k.at, End(k))
          <5> HIDE DEF n
          <5> QED
            BY <2>1, <2>2, <3>1, <4>1, Zenon
        <4>3. Bytes(k.at, End(k)) \in Seq(Int)
          <5>1. k.at \in Int /\ End(k) \in Int
            BY <1>2, SMT DEF End, Lesser
          <5> QED
            BY <5>1, BytesType, Zenon
        <4>4. << >> \o Bytes(k.at, End(k)) = Bytes(k.at, End(k))
          BY <4>3, ConcatEmptySeq, Zenon
        <4> QED
          BY <2>1, <4>2, <4>4, Zenon
      <3>3. Len(all) = n
        <4>1. Len(Bytes(k.at, End(k))) = End(k) - k.at
          <5>1. k.at \in Int /\ End(k) \in Int /\ k.at <= End(k)
            <6> HIDE DEF n
            <6> QED
              BY <1>2, <3>1, SMT
          <5> QED
            BY <5>1, BytesAre, Zenon
        <4> HIDE DEF n, all
        <4> QED
          BY <1>2, <3>1, <3>2, <4>1, SMT
      <3>4. Returned(all, IF Len(all) < k.len THEN "EOF" ELSE "nil", -1) \in Abstract!Results(k)
        <4>1. (IF Len(all) < k.len THEN "EOF" ELSE "nil") =
                (IF k.at + k.len <= PlainSize THEN "nil" ELSE "EOF")
          <5> HIDE DEF n, all
          <5> QED
            BY <3>1, <3>3, Zenon
        <4> HIDE DEF n, all
        <4> QED
          BY <1>1, <3>2, <4>1, ReadAtResultsAre, Zenon
      <3> HIDE DEF n, all
      <3> QED
        BY <1>1, <2>4, <3>4, ReturnStep, SMT DEF Simulated
    <2>5. inOff = k.at /\ all = Copied(c)
      BY <2>2, Zenon DEF Copied
    <2> HIDE DEF inOff, all
    <2> QED
      BY <1>3, <2>3, <2>4, <2>5, Zenon DEF CopyRange
  <1>4. CASE ~singleBlob
    <2>1. /\ got' = [got EXCEPT ![c] = all] /\ Goes(c, "lookup")
          /\ UNCHANGED <<singleBlob, call, result>>
      <3>1. all = Copied(c)
        BY Zenon DEF Copied
      <3> HIDE DEF all
      <3> QED
        BY <1>4, <3>1, Zenon DEF CopyRange
    <2>2. Len(got[c]) # k.len /\ ~(Abs(c) >= PlainSize) /\ Abs(c) < PlainSize
      BY <1>1, <1>2, <1>4, SMT DEF AtEnd
    <2>3. PICK start \in Nat, end \in Int :
            /\ start = UnitStart(UnitAt(Abs(c))) /\ start <= end
            /\ src = Bytes(start, end)
            /\ start <= Abs(c) /\ Abs(c) < end /\ end <= PlainSize
            /\ end # PlainSize => end = UnitStart(UnitAt(end))
      BY <1>1, <1>2, <1>4, <2>2, PlainIs, ZenonT(60)
    <2>4. inOff = Abs(c) - start /\ n = Lesser(k.len - Len(got[c]), end - Abs(c))
      <3>1. Len(src) = end - start
        <4>1. start \in Int
          BY SMT
        <4>2. Len(Bytes(start, end)) = end - start
          BY <2>3, <4>1, BytesAre, Zenon
        <4> QED
          BY <2>3, <4>2, Zenon
      <3>2. inOff = Abs(c) - start
        BY <1>1, <2>3, Zenon
      <3>3. (end - start) - (Abs(c) - start) = end - Abs(c)
        BY <1>2, <2>3, SMT
      <3> QED
        BY <3>1, <3>2, <3>3, Zenon
    <2>5. /\ n \in Nat /\ n > 0 /\ Abs(c) + n <= end /\ n <= k.len - Len(got[c])
          /\ n = k.len - Len(got[c]) \/ Abs(c) + n = end
      <3>1. /\ k.len - Len(got[c]) \in Nat \ {0} /\ end - Abs(c) \in Nat \ {0}
            /\ \A m \in Nat : m <= end - Abs(c) => Abs(c) + m <= end
            /\ Abs(c) + (end - Abs(c)) = end
        <4>1. Len(got[c]) <= k.len /\ Len(got[c]) # k.len /\ Abs(c) < end
          BY <1>1, <2>2, <2>3, Zenon
        <4>2. k.len \in Nat /\ Len(got[c]) \in Nat /\ Abs(c) \in Nat
          BY <1>2, Zenon
        <4>3. ASSUME NEW x \in Nat, NEW y \in Nat, y <= x, y # x
              PROVE  x - y \in Nat \ {0}
          BY <4>3, SMT
        <4>4. ASSUME NEW a \in Nat, a < end
              PROVE  /\ end - a \in Nat \ {0} /\ a + (end - a) = end
                     /\ \A m \in Nat : m <= end - a => a + m <= end
          BY <4>4, SMT
        <4> QED
          BY <4>1, <4>2, <4>3, <4>4, Zenon
      <3>2. n = Lesser(k.len - Len(got[c]), end - Abs(c))
        BY <2>4, Zenon
      <3> HIDE DEF n
      <3> QED
        BY <3>1, <3>2, SMT DEF Lesser
    <2> HIDE DEF n
    <2>6. SubSeq(src, inOff + 1, inOff + n) = Bytes(Abs(c), Abs(c) + n)
      <3>1. Abs(c) - start \in Nat /\ start + (Abs(c) - start) = Abs(c)
            /\ start + (Abs(c) - start) + n <= end /\ start \in Int
        BY <1>2, <2>3, <2>5, SMT
      <3>2. SubSeq(Bytes(start, end), (Abs(c) - start) + 1, (Abs(c) - start) + n) =
              Bytes(start + (Abs(c) - start), start + (Abs(c) - start) + n)
        BY <2>5, <3>1, BytesPart, Zenon
      <3> QED
        BY <2>3, <2>4, <3>1, <3>2, Zenon
    <2>7. all = Bytes(k.at, Abs(c) + n)
      <3>1. /\ k.at \in Int /\ Abs(c) \in Int /\ Abs(c) + n \in Int
            /\ k.at <= Abs(c) /\ Abs(c) <= Abs(c) + n
        BY <1>2, <2>5, SMT
      <3>2. Bytes(k.at, Abs(c)) \o Bytes(Abs(c), Abs(c) + n) = Bytes(k.at, Abs(c) + n)
        BY <3>1, BytesJoin, Zenon
      <3> QED
        BY <1>1, <2>6, <3>2, Zenon
    <2> HIDE DEF all
    <2>8. /\ got'[c] = all /\ pc'[c] = "lookup" /\ call'[c] = k
          /\ \A d \in Callers \ {c} : pc'[d] = pc[d] /\ got'[d] = got[d]
      BY <2>1, SMT DEF Goes, FileInv, CacheInv, Types
    <2>9. Len(all) = Len(got[c]) + n /\ Abs(c)' = Abs(c) + n /\ all # << >>
      <3>1. k.at \in Int /\ Abs(c) + n \in Int /\ k.at <= Abs(c) + n
        BY <1>2, <2>5, SMT
      <3>2. Len(all) = (Abs(c) + n) - k.at
        BY <2>7, <3>1, BytesAre, Zenon
      <3>3. Len(all) = Len(got[c]) + n /\ Len(all) # 0
        BY <1>2, <2>5, <3>2, SMT
      <3>4. Abs(c)' = k.at + Len(all)
        BY <2>8, Zenon DEF Abs
      <3>5. Len(<< >>) = 0
        BY SMT
      <3> QED
        BY <1>2, <2>5, <3>3, <3>4, <3>5, SMT
    <2>10. GotInv(c)'
      <3>1. /\ Len(all) <= k.len /\ Abs(c) + n <= PlainSize
            /\ \/ Abs(c) + n = k.at + k.len \/ Abs(c) + n = PlainSize
               \/ Abs(c) + n = UnitStart(UnitAt(Abs(c) + n))
        <4>1. Len(all) <= k.len /\ Abs(c) + n <= PlainSize
          BY <1>2, <2>3, <2>5, <2>9, SMT
        <4>2. CASE n = k.len - Len(got[c])
          <5>1. Abs(c) + n = k.at + k.len
            BY <1>2, <2>5, <4>2, SMTT(30)
          <5> QED
            BY <4>1, <5>1, Zenon
        <4>3. CASE Abs(c) + n = end
          BY <2>3, <4>1, <4>3, Zenon
        <4> QED
          BY <2>5, <4>2, <4>3, Zenon
      <3>2. UnitStart(UnitAt(Abs(c)))' = UnitStart(UnitAt(Abs(c) + n))
        BY <2>9, Zenon DEF UnitStart, UnitAt
      <3> QED
        BY <1>1, <1>4, <2>7, <2>8, <2>9, <3>1, <3>2, SMT DEF GotInv
    <2> QED
      BY <2>1, <2>8, <2>10, InnerStep, Zenon DEF Simulated
  <1> QED
    BY <1>3, <1>4, Zenon

LEMMA CallSimulates ==
  ASSUME FileInv, NEW c \in Callers, NEW k \in Calls, Call(c, k), UNCHANGED singleBlob
  PROVE  Simulated
  <1>1. call[c] = NoCall
    BY Facts, Zenon DEF Call, GotInv
  <1>2. Abstract!Next
    BY <1>1, Zenon DEF Call, Abstract!Next, Abstract!Begin, Abstract!NoCall, NoCall,
       Abstract!NoResult, NoResult, Abstract!Returned, Returned
  <1>3. ASSUME NEW d \in Callers PROVE GotInv(d)'
    <2>1. CASE d # c
      BY <1>3, <2>1, GotFrame, SMT DEF FileInv, CacheInv, Types, Call, Goes
    <2>2. CASE d = c
      <3>1. pc'[c] = "enter" /\ call'[c] = k /\ got'[c] = << >>
        BY SMT DEF FileInv, CacheInv, Types, Call, Goes
      <3> QED
        BY <2>2, <3>1, SMT DEF GotInv
    <2> QED
      BY <2>1, <2>2, Zenon
  <1> QED
    BY <1>2, <1>3, Zenon DEF Simulated

\* a step outside every call
LEMMA OutsideSimulates ==
  ASSUME FileInv, UNCHANGED <<singleBlob, callerVars>>
  PROVE  Simulated
  <1>1. \A d \in Callers : GotInv(d)'
    BY GotFrame, Zenon DEF FileInv, callerVars
  <1> QED
    BY <1>1, Zenon DEF Simulated, Abstract!pfVars, callerVars

LEMMA StepSimulates == FileInv /\ [Next]_vars => Simulated
  <1> SUFFICES ASSUME FileInv, [Next]_vars PROVE Simulated
    OBVIOUS
  <1>1. CASE UNCHANGED vars
    BY <1>1, OutsideSimulates, Zenon DEF vars
  <1>2. CASE Next
    <2>1. UNCHANGED singleBlob
      BY <1>2, Zenon DEF Next
    <2>2. CASE MediumChanges
      BY <2>1, <2>2, OutsideSimulates, Zenon DEF MediumChanges
    <2>3. ASSUME NEW c \in Callers, Runs(c) PROVE Simulated
      BY <2>1, <2>3, EnterSimulates, ReadAtEndsSimulates, LoadChunkSimulates,
         LoadAllSimulates, CopyRangeSimulates, CopyChunkSimulates, Zenon DEF Runs
    <2>4. ASSUME NEW c \in Callers, Locks(c) PROVE Simulated
      BY <2>4, LocksSimulates, Zenon
    <2>5. ASSUME NEW c \in Callers, Scribble(c) PROVE Simulated
      BY <2>1, <2>5, OutsideSimulates, Zenon DEF Scribble
    <2>6. ASSUME NEW c \in Callers, NEW k \in Calls, Call(c, k) PROVE Simulated
      BY <2>1, <2>6, CallSimulates, Zenon
    <2> QED
      BY <1>2, <2>2, <2>3, <2>4, <2>5, <2>6, Zenon DEF Next
  <1> QED
    BY <1>1, <1>2, Zenon

LEMMA FileInit == Init => FileInv /\ Abstract!Init
  <1> SUFFICES ASSUME Init PROVE FileInv /\ Abstract!Init
    OBVIOUS
  <1>1. \A c \in Callers : GotInv(c)
    BY SMT DEF Init, GotInv, NoCall
  <1>2. Abstract!Init
    BY Zenon DEF Init, Abstract!Init, Abstract!NoCall, NoCall, Abstract!NoResult, NoResult,
       Abstract!Returned, Returned
  <1> QED
    BY <1>1, <1>2, CacheInit, Zenon DEF FileInv

(* A Reader is a read-only file to any number of concurrent callers, for   *)
(* every length of the plaintext and of the chunks: a call returns exactly *)
(* the bytes asked for, io.EOF if and only if the file ends first, or the  *)
(* unit that could not be read and the bytes before it.  This is           *)
(* ImplementsPlainFile without its liveness, that every call returns.      *)
THEOREM ReaderIsPlainFile ==
  Spec => Abstract!Init /\ [][Abstract!Next]_(Abstract!pfVars)
  <1>1. FileInv /\ [Next]_vars => FileInv'
    BY CacheStep, StepSimulates, Zenon DEF FileInv, Simulated
  <1>2. FileInv /\ [Next]_vars => [Abstract!Next]_(Abstract!pfVars)
    BY StepSimulates, Zenon DEF Simulated
  <1> QED
    BY FileInit, <1>1, <1>2, PTL DEF Spec
=============================================================================
