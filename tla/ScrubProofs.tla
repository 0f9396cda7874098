---------------------------- MODULE ScrubProofs ----------------------------
(***************************************************************************)
(* What Verify and Scrub guarantee, for every layout, size of a blob and   *)
(* of a window, number of chunks and bound on runs and damage.             *)
(***************************************************************************)
EXTENDS ScrubProps, LayoutLemmas, FiniteSetTheorems

-----------------------------------------------------------------------------
(* Slots, windows, chunks and groups.                                      *)

\* the slots of a blob can be counted
LEMMA SlotsFinite ==
  /\ IsFiniteSet(Slots)
  /\ \E n \in Nat \ {0} : Slots = 0 .. n - 1 /\ Cardinality(Slots) = n
  <1>1. DataShards \in Nat /\ ParityShards \in Nat
        /\ DataShards + ParityShards \in Nat \ {0}
    BY ContainerAssumption
  <1>2. PICK n \in Nat \ {0} : n = DataShards + ParityShards
    BY <1>1
  <1>3. 0 \in Int /\ n - 1 \in Int /\ ~ (0 > n - 1) /\ n - 1 - 0 + 1 = n
    OBVIOUS
  <1>4. IsFiniteSet(0 .. n - 1) /\ Cardinality(0 .. n - 1) = n
    BY <1>3, FS_Interval
  <1>5. Slots = 0 .. n - 1
    BY <1>1, <1>2 DEF Slots
  <1> QED
    BY <1>4, <1>5

\* a quotient grows with its dividend
LEMMA DivGrows ==
  ASSUME NEW d \in Nat \ {0}, NEW i \in Nat, NEW j \in Nat, i <= j
  PROVE  i \div d <= j \div d
  <1> DEFINE a == i \div d
             b == j \div d
             x == (i % d)
             y == (j % d)
  <1>1. /\ a \in Nat /\ x \in 0 .. d - 1 /\ i = a * d + x
        /\ b \in Nat /\ y \in 0 .. d - 1 /\ j = b * d + y
    BY DivMod
  <1> HIDE DEF a, b, x, y
  <1>2. a * d \in Nat /\ b * d \in Nat
    BY <1>1
  <1>3. b < a => b * d + d <= a * d
    BY <1>1, ProductGap
  <1>4. ~ (b < a)
    BY <1>1, <1>2, <1>3
  <1> QED
    BY <1>1, <1>4 DEF a, b

\* the windows cover the slots
LEMMA SlotInWindow ==
  ASSUME NEW s \in Slots
  PROVE  /\ s \div WindowCols \in Windows
         /\ s \in WindowSlots(s \div WindowCols)
  <1> DEFINE last == Cardinality(Slots) - 1
  <1>1. s \in Nat /\ last \in Nat /\ s <= last
    <2>1. PICK n \in Nat \ {0} : Slots = 0 .. n - 1 /\ Cardinality(Slots) = n
      BY SlotsFinite
    <2>2. s \in 0 .. n - 1 /\ last = n - 1
      BY <2>1
    <2> QED
      BY <2>2
  <1>2. WindowCols \in Nat \ {0}
    BY ContainerAssumption
  <1>3. s \div WindowCols \in Nat /\ last \div WindowCols \in Nat
    BY <1>1, <1>2, DivMod
  <1>4. s \div WindowCols <= last \div WindowCols
    BY <1>1, <1>2, DivGrows
  <1> HIDE DEF last
  <1>5. s \div WindowCols \in 0 .. last \div WindowCols
    BY <1>3, <1>4
  <1> QED
    BY <1>5 DEF last, Windows, WindowSlots

\* the first window is one
LEMMA FirstWindow ==
  0 \in Windows /\ Windows \subseteq Nat
  <1> DEFINE last == Cardinality(Slots) - 1
  <1>1. last \in Nat
    BY SlotsFinite
  <1>2. last \div WindowCols \in Nat
    BY <1>1, ContainerAssumption, DivMod
  <1> QED
    BY <1>2 DEF Windows

\* the windows are numbered without a gap
LEMMA WindowBelow ==
  ASSUME NEW w \in Windows, NEW v \in Nat, v <= w
  PROVE  v \in Windows
  <1> DEFINE last == (Cardinality(Slots) - 1) \div WindowCols
  <1>1. Cardinality(Slots) - 1 \in Nat
    BY SlotsFinite
  <1>2. last \in Nat
    BY <1>1, ContainerAssumption, DivMod
  <1> HIDE DEF last
  <1>3. w \in 0 .. last
    BY DEF Windows, last
  <1>4. v \in 0 .. last
    BY <1>2, <1>3
  <1> QED
    BY <1>4 DEF Windows, last

\* the groups of the vault, and the chunks of one of them
LEMMA GroupOfChunk ==
  ASSUME NEW i \in Chunks
  PROVE  GroupOf(i) \in Groups /\ i \in ChunksOf(GroupOf(i))
  BY ContainerAssumption, ChunkInGroup DEF Chunks, Groups, GroupOf, ChunksOf, K

LEMMA GroupChunks ==
  ASSUME NEW g \in Groups
  PROVE  /\ DataChunks(g) \in Nat \ {0}
         /\ ParityOf(g) \in Nat
         /\ g * FileGroupChunks \in Nat
         /\ ChunksOf(g) = g * FileGroupChunks .. g * FileGroupChunks + DataChunks(g) - 1
  <1>0. ChunkCount \in Nat \ {0} /\ VaultSpec \in LayoutSpecs /\ K \in Nat \ {0}
    BY ContainerAssumption, LayoutAssumption DEF K
  <1>1. g \in 0 .. GroupCount(ChunkCount) - 1 /\ GroupCount(ChunkCount) \in Nat
    BY <1>0, GroupCounts DEF Groups
  <1>2. DataChunks(g) \in 1 .. K /\ ParityOf(g) \in Nat
    BY <1>0, <1>1, GroupBounds DEF DataChunks, ParityOf
  <1>3. g * K \in Nat
    BY <1>0, <1>1
  <1>4. ASSUME NEW i \in ChunksOf(g)
        PROVE  i \in g * K .. g * K + DataChunks(g) - 1
    <2>1. i \in 0 .. ChunkCount - 1 /\ i \div K = g
      BY DEF ChunksOf, Chunks, GroupOf, K
    <2>2. (i % K) \in 0 .. DataChunks(g) - 1 /\ i = g * K + (i % K)
      BY <1>0, <2>1, ChunkInGroup DEF DataChunks
    <2> QED
      BY <1>2, <1>3, <2>2
  <1>5. ASSUME NEW i \in g * K .. g * K + DataChunks(g) - 1
        PROVE  i \in ChunksOf(g)
    <2>1. PICK r \in 0 .. DataChunks(g) - 1 : i = g * K + r
      <3>1. i - g * K \in 0 .. DataChunks(g) - 1 /\ i = g * K + (i - g * K)
        BY <1>2, <1>3
      <3> QED
        BY <3>1
    <2>2. i \in 0 .. ChunkCount - 1 /\ i \div K = g
      BY <1>0, <1>1, <2>1, GroupChunk DEF DataChunks
    <2> QED
      BY <2>2 DEF ChunksOf, Chunks, GroupOf, K
  <1>6. ChunksOf(g) = g * K .. g * K + DataChunks(g) - 1
    BY <1>4, <1>5
  <1> QED
    BY <1>2, <1>3, <1>6 DEF K

\* a group has as many chunks as its code has data columns
LEMMA GroupHolds ==
  ASSUME NEW g \in Groups
  PROVE  /\ IsFiniteSet(ChunksOf(g))
         /\ Cardinality(ChunksOf(g)) = DataChunks(g)
         /\ \A i \in ChunksOf(g) :
              i \in Chunks /\ i - g * FileGroupChunks + 1 \in 1 .. DataChunks(g)
         /\ \A j \in 1 .. DataChunks(g) : g * FileGroupChunks + j - 1 \in ChunksOf(g)
  <1> DEFINE a == g * FileGroupChunks
             b == a + DataChunks(g) - 1
  <1>1. DataChunks(g) \in Nat \ {0} /\ a \in Nat /\ ChunksOf(g) = a .. b
    BY GroupChunks
  <1>2. a \in Int /\ b \in Int /\ ~ (a > b) /\ b - a + 1 = DataChunks(g)
    BY <1>1
  <1> HIDE DEF a, b
  <1>3. IsFiniteSet(a .. b) /\ Cardinality(a .. b) = DataChunks(g)
    BY <1>2, FS_Interval
  <1>4. \A i \in a .. b : i - a + 1 \in 1 .. DataChunks(g)
    BY <1>1, <1>2
  <1>5. \A j \in 1 .. DataChunks(g) : a + j - 1 \in a .. b
    BY <1>1, <1>2
  <1> QED
    BY <1>1, <1>3, <1>4, <1>5 DEF a, ChunksOf

\* a set of naturals that can be counted has a least element
LEMMA Least ==
  ASSUME NEW T \in SUBSET Nat, IsFiniteSet(T), T # {}
  PROVE  \E m \in T : \A k \in T : m <= k
  <1> DEFINE below(m) == {k \in T : k < m}
             B == {below(m) : m \in T}
  <1>1. B \subseteq FiniteSubsetsOf(T) /\ B # {}
    <2>1. \A m \in T : below(m) \subseteq T
      OBVIOUS
    <2>2. B \subseteq SUBSET T
      BY <2>1
    <2>3. PICK m \in T : TRUE
      OBVIOUS
    <2>4. below(m) \in B
      BY <2>3
    <2> HIDE DEF B
    <2>5. FiniteSubsetsOf(T) = SUBSET T
      BY FS_FiniteSubsetsOfFinite
    <2> QED
      BY <2>2, <2>4, <2>5
  <1>2. IsWellFoundedOn(StrictSubsetOrdering(T), FiniteSubsetsOf(T))
    BY FS_StrictSubsetOrderingWellFounded
  <1> HIDE DEF B
  <1>3. PICK X \in B : \A Y \in B : ~ (<<Y, X>> \in StrictSubsetOrdering(T))
    BY <1>1, <1>2, WFMin
  <1>4. PICK m \in T : X = below(m)
    BY <1>3 DEF B
  <1>5. ASSUME NEW k \in T, k < m
        PROVE  FALSE
    <2>1. below(k) \in B
      BY DEF B
    <2>2. below(k) \subseteq T /\ X \subseteq T /\ below(k) \subseteq X /\ below(k) # X
      <3>1. k \in X /\ k \notin below(k)
        BY <1>4, <1>5
      <3>2. \A x \in T : x < k => x < m
        BY <1>5
      <3> QED
        BY <1>4, <3>1, <3>2
    <2>3. <<below(k), X>> \in StrictSubsetOrdering(T)
      <3> HIDE DEF below
      <3> QED
        BY <2>2 DEF StrictSubsetOrdering
    <2> QED
      BY <1>3, <2>1, <2>3
  <1>6. \A k \in T : m <= k
    BY <1>5
  <1> QED
    BY <1>6

-----------------------------------------------------------------------------
(* Part 1.  The types, with what a run has in hand.                        *)

\* the values of a column of parity that hold together
Codes(g) == [1 .. DataChunks(g) -> {True, Wrong}]

BodyInv ==
  /\ data \in [Chunks -> [Slots -> {Bad, True, Wrong}]]
  /\ DOMAIN parity = Groups
  /\ \A g \in Groups :
       parity[g] \in [0 .. ParityOf(g) - 1 -> [Slots -> {BadColumn} \cup Codes(g)]]

Passes == {"pass1", "pass2", "pass3", "pass3write"}

RunInv ==
  /\ pc \in Passes \cup {"idle", "done", "failed"}
  /\ writes \in BOOLEAN /\ rebuildParity \in BOOLEAN /\ quiet \in BOOLEAN
  /\ runs \in 0 .. MaxRuns /\ hits \in 0 .. MaxHits /\ corrupt \in 0 .. MaxCorrupt

PlaceInv ==
  /\ idx \in 0 .. ChunkCount /\ grp \in 0 .. GroupCount(ChunkCount)
  /\ win \in Windows /\ par \in Nat
  /\ needFile \subseteq Chunks /\ needFile \subseteq 0 .. idx - 1
  /\ lostSet \subseteq needFile
  /\ pc = "pass1" => grp = 0
  /\ pc \in {"pass1", "pass2"} => win = 0
  /\ pc \in {"pass2", "pass3", "pass3write", "done"} => idx = ChunkCount
  /\ pc = "pass3write" => grp \in Groups /\ GroupComplete(grp)
  /\ pc = "pass3" /\ win # 0 => grp \in Groups /\ GroupComplete(grp)

ReportFields == {"clean", "repaired", "rebuilt", "lostLen", "lost", "paritySlotsBad"}

ReportOK ==
  /\ DOMAIN rep = ReportFields
  /\ rep.clean \in Nat /\ rep.repaired \in Nat /\ rep.rebuilt \in Nat
  /\ rep.lostLen \in Nat /\ rep.lost \in SUBSET Chunks

ReportInv ==
  /\ ReportOK
  /\ pc = "pass3write" => \A s \in WindowSlots(win) : cols[s] \in Codes(grp)

\* the writes a step has still to make: of the pass the run is in, and into the
\* blobs of the vault
TodoInv ==
  \A t \in todo :
    /\ writes
    /\ \/ /\ pc \in {"pass1", "pass2"}
          /\ \E i \in Chunks, s \in Slots, v \in {True, Wrong} : t = DataWrite(i, s, v)
       \/ /\ pc = "pass3write"
          /\ \E p \in 0 .. ParityOf(grp) - 1, s \in Slots, v \in Codes(grp) :
               t = ParityWrite(p, s, v)

TypeInv == BodyInv /\ RunInv /\ PlaceInv /\ ReportInv /\ TodoInv

-----------------------------------------------------------------------------
(* Part 2.  Without damage that the tags do not detect.                    *)

\* every slot is what the writer computed, or is known to be bad
Forgeless ==
  /\ \A i \in Chunks, s \in Slots : data[i][s] # Wrong
  /\ \A g \in Groups : \A p \in 0 .. ParityOf(g) - 1 : \A s \in Slots :
       parity[g][p][s] \in {BadColumn, TrueColumn(g)}

\* and so is what a run has in hand
HandsTrue ==
  /\ \A t \in todo : t.v = IF t.to = "data" THEN True ELSE TrueColumn(grp)
  /\ pc = "pass3write" => \A s \in WindowSlots(win) : cols[s] = TrueColumn(grp)

TrueInv == corrupt = 0 => Forgeless /\ HandsTrue /\ rep.lost = lostSet

-----------------------------------------------------------------------------
(* Part 3.  The report.                                                    *)

\* the chunks whose fate the run has still to decide
Owed ==
  IF pc = "pass1" THEN needFile \cup idx .. ChunkCount - 1
  ELSE IF pc = "pass2" THEN {i \in needFile : GroupOf(i) >= grp}
  ELSE {}

Counted ==
  pc \in Passes \cup {"done"} =>
    /\ rep.clean + rep.repaired + rep.rebuilt + rep.lostLen + Cardinality(Owed)
         = ChunkCount
    /\ Cardinality(rep.lost) = rep.lostLen
    /\ rep.lost \cap Owed = {}

-----------------------------------------------------------------------------
(* Part 4.  What the run has healed or found readable.                     *)

Settled(i) ==
  IF writes
  THEN \A s \in Slots : data[i][s] = True \/ DataWrite(i, s, True) \in todo
  ELSE Loads(i)

ChunksSettled ==
  pc \in Passes \cup {"done"} /\ quiet /\ corrupt = 0 =>
    \A i \in Chunks : i \in Owed \/ i \in rep.lost \/ Settled(i)

\* rebuildFileParity has still to come to slot s of parity blob p of group g
Ahead(g, p, s) ==
  \/ g > grp
  \/ /\ g = grp
     /\ \/ s \div WindowCols > win
        \/ /\ s \div WindowCols = win
           /\ \/ pc = "pass3"
              \/ pc = "pass3write" /\ p >= par
              \/ ParityWrite(p, s, TrueColumn(g)) \in todo

ParitySettled ==
  pc \in {"pass3", "pass3write", "done"} /\ writes /\ rebuildParity
      /\ quiet /\ corrupt = 0 =>
    \A g \in Groups : ChunksOf(g) \cap rep.lost = {} =>
      \A p \in 0 .. ParityOf(g) - 1 : \A s \in Slots :
        \/ parity[g][p][s] = TrueColumn(g)
        \/ pc # "done" /\ Ahead(g, p, s)

-----------------------------------------------------------------------------
(* The body under one write.                                               *)

\* a step that writes nothing
LEMMA BodyKept ==
  ASSUME BodyInv, UNCHANGED bodyVars
  PROVE  BodyInv'
  BY DEF BodyInv, bodyVars, Chunks, Slots, Groups, ParityOf, Codes, DataChunks

\* the body after one write
DataWith(i, s, v) == [data EXCEPT ![i][s] = v]
ParityWith(g, p, s, v) == [parity EXCEPT ![g][p][s] = v]

\* a slot of a data blob gets a value, every other slot keeps its own
LEMMA DataWritten ==
  ASSUME BodyInv, NEW i \in Chunks, NEW s \in Slots, NEW v \in {Bad, True, Wrong},
         data' = DataWith(i, s, v), parity' = parity
  PROVE  /\ BodyInv'
         /\ \A j \in Chunks, r \in Slots :
              data'[j][r] = IF j = i /\ r = s THEN v ELSE data[j][r]
  <1>1. /\ data' \in [Chunks -> [Slots -> {Bad, True, Wrong}]]
        /\ \A j \in Chunks, r \in Slots :
             data'[j][r] = IF j = i /\ r = s THEN v ELSE data[j][r]
    <2> DEFINE V == {Bad, True, Wrong}
    <2>1. data \in [Chunks -> [Slots -> V]] /\ v \in V
      BY DEF BodyInv
    <2> HIDE DEF V
    <2> USE DEF DataWith
    <2>2. data' \in [Chunks -> [Slots -> V]]
      BY <2>1
    <2>3. \A j \in Chunks, r \in Slots :
            data'[j][r] = IF j = i /\ r = s THEN v ELSE data[j][r]
      BY <2>1
    <2> QED
      BY <2>2, <2>3 DEF V
  <1> QED
    BY <1>1 DEF BodyInv

\* a slot of a parity blob gets a value, every other slot keeps its own
LEMMA ParityWritten ==
  ASSUME BodyInv, NEW g \in Groups, NEW p \in 0 .. ParityOf(g) - 1, NEW s \in Slots,
         NEW v \in {BadColumn} \cup Codes(g),
         parity' = ParityWith(g, p, s, v), data' = data
  PROVE  /\ BodyInv'
         /\ \A h \in Groups : \A q \in 0 .. ParityOf(h) - 1 : \A r \in Slots :
              parity'[h][q][r] = IF h = g /\ q = p /\ r = s THEN v ELSE parity[h][q][r]
  <1>1. ASSUME NEW h \in Groups, h # g
        PROVE  parity'[h] = parity[h]
    BY <1>1 DEF BodyInv, ParityWith
  <1>2. /\ parity'[g] \in [0 .. ParityOf(g) - 1 -> [Slots -> {BadColumn} \cup Codes(g)]]
        /\ \A q \in 0 .. ParityOf(g) - 1 : \A r \in Slots :
             parity'[g][q][r] = IF q = p /\ r = s THEN v ELSE parity[g][q][r]
    <2> DEFINE V == {BadColumn} \cup Codes(g)
               Q == 0 .. ParityOf(g) - 1
    <2>1. parity[g] \in [Q -> [Slots -> V]] /\ v \in V /\ p \in Q
      BY DEF BodyInv
    <2>2. parity'[g] = [parity[g] EXCEPT ![p][s] = v]
      BY DEF BodyInv, ParityWith
    <2> HIDE DEF V, Q
    <2> DEFINE col == [parity[g][p] EXCEPT ![s] = v]
    <2>3. col \in [Slots -> V]
      BY <2>1
    <2>4. \A r \in Slots : col[r] = IF r = s THEN v ELSE parity[g][p][r]
      BY <2>1
    <2>5. parity'[g] = [parity[g] EXCEPT ![p] = col]
      BY <2>2
    <2> HIDE DEF col
    <2>6. parity'[g] \in [Q -> [Slots -> V]]
      BY <2>1, <2>3, <2>5
    <2>7. \A q \in Q, r \in Slots :
            parity'[g][q][r] = IF q = p /\ r = s THEN v ELSE parity[g][q][r]
      <3>1. ASSUME NEW q \in Q, NEW r \in Slots, q = p
            PROVE  parity'[g][q][r] = IF r = s THEN v ELSE parity[g][q][r]
        BY <2>1, <2>4, <2>5, <3>1
      <3>2. ASSUME NEW q \in Q, q # p PROVE parity'[g][q] = parity[g][q]
        BY <2>1, <2>5, <3>2
      <3> QED
        BY <3>1, <3>2
    <2> QED
      BY <2>6, <2>7 DEF V, Q
  <1>3. DOMAIN parity' = Groups
    BY DEF BodyInv, ParityWith
  <1>4. \A h \in Groups :
          parity'[h] \in [0 .. ParityOf(h) - 1 -> [Slots -> {BadColumn} \cup Codes(h)]]
    BY <1>1, <1>2 DEF BodyInv
  <1>5. BodyInv'
    BY <1>3, <1>4 DEF BodyInv, Chunks, Slots, Groups, ParityOf, Codes
  <1>6. ASSUME NEW h \in Groups, NEW q \in 0 .. ParityOf(h) - 1, NEW r \in Slots
        PROVE  parity'[h][q][r] = IF h = g /\ q = p /\ r = s THEN v ELSE parity[h][q][r]
    <2>1. CASE h = g
      BY <1>2, <2>1
    <2>2. CASE h # g
      BY <1>1, <2>2
    <2> QED
      BY <2>1, <2>2
  <1> QED
    BY <1>5, <1>6

-----------------------------------------------------------------------------
(* The types are kept.                                                     *)

\* a write that is still to be made
LEMMA TodoKinds ==
  ASSUME TypeInv, NEW t \in todo
  PROVE  /\ writes
         /\ \/ /\ pc \in {"pass1", "pass2"} /\ t.to = "data"
               /\ t.i \in Chunks /\ t.s \in Slots /\ t.v \in {True, Wrong}
               /\ t = DataWrite(t.i, t.s, t.v)
            \/ /\ pc = "pass3write" /\ t.to = "parity" /\ grp \in Groups
               /\ t.i \in 0 .. ParityOf(grp) - 1 /\ t.s \in Slots /\ t.v \in Codes(grp)
               /\ t = ParityWrite(t.i, t.s, t.v)
  <1>0. writes
    BY DEF TypeInv, TodoInv
  <1>1. CASE pc \in {"pass1", "pass2"}
    <2>1. PICK i \in Chunks, s \in Slots, v \in {True, Wrong} : t = DataWrite(i, s, v)
      BY <1>1 DEF TypeInv, TodoInv
    <2>2. t.to = "data" /\ t.i = i /\ t.s = s /\ t.v = v
      BY <2>1 DEF DataWrite
    <2> QED
      BY <1>0, <1>1, <2>1, <2>2
  <1>2. CASE pc = "pass3write"
    <2>1. grp \in Groups
      BY <1>2 DEF TypeInv, PlaceInv
    <2>2. PICK p \in 0 .. ParityOf(grp) - 1, s \in Slots, v \in Codes(grp) :
            t = ParityWrite(p, s, v)
      BY <1>2 DEF TypeInv, TodoInv
    <2>3. t.to = "parity" /\ t.i = p /\ t.s = s /\ t.v = v
      BY <2>2 DEF ParityWrite
    <2> QED
      BY <1>0, <1>2, <2>1, <2>2, <2>3
  <1> QED
    BY <1>1, <1>2 DEF TypeInv, TodoInv

\* and outside the passes there is none
LEMMA NoTodo ==
  ASSUME TypeInv, ~writes \/ pc \notin {"pass1", "pass2", "pass3write"}
  PROVE  todo = {}
  BY DEF TypeInv, TodoInv

\* the slot of a pending write gets a value of its kind, or is torn
LEMMA SlotKept ==
  ASSUME TypeInv, NEW t \in todo,
         NEW v, v = t.v \/ v = (IF t.to = "data" THEN Bad ELSE BadColumn),
         SlotBecomes(t, v)
  PROVE  /\ BodyInv'
         /\ t.to = "data" =>
              /\ parity' = parity /\ t.i \in Chunks /\ t.s \in Slots
              /\ \A j \in Chunks, r \in Slots :
                   data'[j][r] = IF j = t.i /\ r = t.s THEN v ELSE data[j][r]
         /\ t.to # "data" =>
              /\ t.to = "parity" /\ data' = data
              /\ grp \in Groups /\ t.i \in 0 .. ParityOf(grp) - 1 /\ t.s \in Slots
              /\ \A h \in Groups : \A q \in 0 .. ParityOf(h) - 1 : \A r \in Slots :
                   parity'[h][q][r] = IF h = grp /\ q = t.i /\ r = t.s THEN v
                                      ELSE parity[h][q][r]
  <1>0. BodyInv
    BY DEF TypeInv
  <1>1. CASE t.to = "data"
    <2>1. t.i \in Chunks /\ t.s \in Slots /\ v \in {Bad, True, Wrong}
      BY <1>1, TodoKinds
    <2>2. data' = [data EXCEPT ![t.i][t.s] = v] /\ parity' = parity
      BY <1>1 DEF SlotBecomes
    <2>3. /\ BodyInv'
          /\ \A j \in Chunks, r \in Slots :
               data'[j][r] = IF j = t.i /\ r = t.s THEN v ELSE data[j][r]
      <3>1. PICK i \in Chunks, s \in Slots, w \in {Bad, True, Wrong} :
              i = t.i /\ s = t.s /\ w = v
        BY <2>1
      <3>2. data' = DataWith(i, s, w) /\ parity' = parity
        BY <2>2, <3>1, Zenon DEF DataWith
      <3>3. /\ BodyInv'
            /\ \A j \in Chunks, r \in Slots :
                 data'[j][r] = IF j = i /\ r = s THEN w ELSE data[j][r]
        BY <1>0, <3>1, <3>2, DataWritten
      <3> QED
        BY <3>1, <3>3
    <2> QED
      BY <1>1, <2>1, <2>2, <2>3
  <1>2. CASE t.to # "data"
    <2>1. /\ t.to = "parity" /\ grp \in Groups /\ t.i \in 0 .. ParityOf(grp) - 1
          /\ t.s \in Slots /\ v \in {BadColumn} \cup Codes(grp)
      BY <1>2, TodoKinds
    <2>2. parity' = [parity EXCEPT ![grp][t.i][t.s] = v] /\ data' = data
      BY <1>2 DEF SlotBecomes
    <2>3. /\ BodyInv'
          /\ \A h \in Groups : \A q \in 0 .. ParityOf(h) - 1 : \A r \in Slots :
               parity'[h][q][r] = IF h = grp /\ q = t.i /\ r = t.s THEN v
                                  ELSE parity[h][q][r]
      <3>1. PICK g \in Groups : g = grp
        BY <2>1
      <3>2. PICK p \in 0 .. ParityOf(g) - 1, s \in Slots, w \in {BadColumn} \cup Codes(g) :
              p = t.i /\ s = t.s /\ w = v
        BY <2>1, <3>1
      <3>3. parity' = ParityWith(g, p, s, w) /\ data' = data
        BY <2>2, <3>1, <3>2, Zenon DEF ParityWith
      <3>4. /\ BodyInv'
            /\ \A h \in Groups : \A q \in 0 .. ParityOf(h) - 1 : \A r \in Slots :
                 parity'[h][q][r] = IF h = g /\ q = p /\ r = s THEN w
                                    ELSE parity[h][q][r]
        BY <1>0, <3>1, <3>2, <3>3, ParityWritten
      <3> QED
        BY <3>1, <3>2, <3>4
    <2> QED
      BY <1>2, <2>1, <2>2, <2>3
  <1> QED
    BY <1>1, <1>2

\* the groups are numbered from 0 to GroupCount(ChunkCount) - 1
LEMMA GroupNumbers ==
  /\ GroupCount(ChunkCount) \in Nat \ {0}
  /\ Groups = 0 .. GroupCount(ChunkCount) - 1
  /\ ChunkCount \in Nat \ {0}
  /\ Chunks = 0 .. ChunkCount - 1
  BY ContainerAssumption, GroupCounts DEF Groups, Chunks

\* sets of slots and of chunks can be counted
LEMMA Countable ==
  /\ \A S \in SUBSET Slots : IsFiniteSet(S) /\ Cardinality(S) \in Nat
  /\ \A S \in SUBSET Chunks : IsFiniteSet(S) /\ Cardinality(S) \in Nat
  <1>1. IsFiniteSet(Slots)
    BY SlotsFinite
  <1>2. ChunkCount - 1 \in Int /\ 0 \in Int
    BY GroupNumbers
  <1>3. IsFiniteSet(Chunks)
    BY <1>2, FS_Interval DEF Chunks
  <1> QED
    BY <1>1, <1>3, FS_Subset, FS_CardinalityType

\* the damage of the medium
LEMMA DamageKept ==
  ASSUME BodyInv, Hit \/ Corrupt
  PROVE  BodyInv'
  <1>1. CASE parity' = parity
    <2>1. CASE data' = data
      BY <1>1, <2>1, BodyKept DEF bodyVars
    <2>2. ASSUME NEW i \in Chunks, NEW S, NEW v \in {Bad, Wrong},
                 data' = [data EXCEPT ![i] =
                            [s \in Slots |-> IF s \in S THEN v ELSE data[i][s]]]
          PROVE  BodyInv'
      <3>1. data' \in [Chunks -> [Slots -> {Bad, True, Wrong}]]
        BY <2>2 DEF BodyInv
      <3> QED
        BY <1>1, <3>1 DEF BodyInv
    <2>3. CASE Hit
      BY <1>1, <2>1, <2>2, <2>3, Zenon DEF Hit
    <2>4. CASE Corrupt
      BY <1>1, <2>1, <2>2, <2>4, Zenon DEF Corrupt
    <2> QED
      BY <2>3, <2>4
  <1>2. ASSUME NEW g \in Groups, NEW p \in 0 .. ParityOf(g) - 1, NEW S \in SUBSET Slots,
               data' = data,
               parity' = [parity EXCEPT ![g][p] =
                   [s \in Slots |-> IF s \in S THEN BadColumn ELSE parity[g][p][s]]]
        PROVE  BodyInv'
    <2>1. parity'[g] \in [0 .. ParityOf(g) - 1 -> [Slots -> {BadColumn} \cup Codes(g)]]
      <3> DEFINE V == {BadColumn} \cup Codes(g)
                 Q == 0 .. ParityOf(g) - 1
                 blob == [s \in Slots |-> IF s \in S THEN BadColumn ELSE parity[g][p][s]]
      <3>1. parity[g] \in [Q -> [Slots -> V]] /\ BadColumn \in V /\ p \in Q
        BY DEF BodyInv
      <3>2. parity'[g] = [parity[g] EXCEPT ![p] = blob]
        BY <1>2 DEF BodyInv
      <3> HIDE DEF V, Q
      <3>3. blob \in [Slots -> V]
        BY <3>1
      <3> HIDE DEF blob
      <3> QED
        BY <3>1, <3>2, <3>3 DEF V, Q
    <2>2. \A h \in Groups \ {g} : parity'[h] = parity[h]
      BY <1>2 DEF BodyInv
    <2> QED
      BY <1>2, <2>1, <2>2 DEF BodyInv
  <1>3. CASE Hit /\ data' = data
    BY <1>2, <1>3, <1>1 DEF Hit
  <1> QED
    BY <1>1, <1>3 DEF Hit, Corrupt

\* the run starts with an intact body
LEMMA TypeInit ==
  Init => TypeInv
  <1> SUFFICES ASSUME Init PROVE TypeInv
    OBVIOUS
  <1>1. BodyInv
    <2>1. data \in [Chunks -> [Slots -> {Bad, True, Wrong}]]
      BY DEF Init, IntactBody
    <2>2. DOMAIN parity = Groups
      BY DEF Init, IntactBody
    <2>3. ASSUME NEW g \in Groups
          PROVE  parity[g] \in [0 .. ParityOf(g) - 1 -> [Slots -> {BadColumn} \cup Codes(g)]]
      <3>1. TrueColumn(g) \in Codes(g)
        BY DEF TrueColumn, Codes
      <3>2. parity[g] = [p \in 0 .. ParityOf(g) - 1 |-> [s \in Slots |-> TrueColumn(g)]]
        BY DEF Init, IntactBody
      <3> QED
        BY <3>1, <3>2
    <2> QED
      BY <2>1, <2>2, <2>3 DEF BodyInv
  <1>2. RunInv
    <2>1. runs \in 0 .. MaxRuns /\ hits \in 0 .. MaxHits /\ corrupt \in 0 .. MaxCorrupt
      BY ScrubAssumption DEF Init
    <2>2. pc \in Passes \cup {"idle", "done", "failed"}
      BY DEF Init, Passes
    <2>3. writes \in BOOLEAN /\ rebuildParity \in BOOLEAN /\ quiet \in BOOLEAN
      BY DEF Init
    <2> QED
      BY <2>1, <2>2, <2>3 DEF RunInv
  <1>3. PlaceInv
    BY FirstWindow, GroupNumbers DEF Init, PlaceInv
  <1>4. ReportInv
    BY DEF Init, ReportInv, EmptyReport, ReportOK, ReportFields
  <1>5. TodoInv
    BY DEF Init, TodoInv
  <1> QED
    BY <1>1, <1>2, <1>3, <1>4, <1>5 DEF TypeInv

\* repairing a blob and rebuilding one give each slot a value
LEMMA NewValues ==
  ASSUME BodyInv
  PROVE  /\ \A i \in Chunks : \A s \in BadSlots(data[i]) :
              s \in Slots /\ RepairIntra(data[i])[s] \in {True, Wrong}
         /\ \A g, m, i, s : RebuiltSlot(g, m, i, s) \in {True, Wrong}
  <1>1. ASSUME NEW i \in Chunks, NEW s \in BadSlots(data[i])
        PROVE  s \in Slots /\ RepairIntra(data[i])[s] \in {True, Wrong}
    BY DEF BadSlots, RepairIntra
  <1>2. \A g, m, i, s : RebuiltSlot(g, m, i, s) \in {True, Wrong}
    BY Zenon DEF RebuiltSlot
  <1> QED
    BY <1>1, <1>2

\* a column of a group whose slots hold together is a code
LEMMA ColumnIsCode ==
  ASSUME BodyInv, NEW g \in Groups, NEW s \in Slots,
         \A i \in ChunksOf(g) : data[i][s] # Bad
  PROVE  Column(g, s) \in Codes(g)
  <1>1. ASSUME NEW j \in 1 .. DataChunks(g)
        PROVE  data[g * FileGroupChunks + j - 1][s] \in {True, Wrong}
    <2>1. g * FileGroupChunks + j - 1 \in ChunksOf(g)
      BY GroupHolds
    <2>2. PICK i \in Chunks : i = g * FileGroupChunks + j - 1 /\ i \in ChunksOf(g)
      BY <2>1, GroupHolds
    <2>3. data[i][s] \in {Bad, True, Wrong} /\ data[i][s] # Bad
      BY <2>2 DEF BodyInv
    <2> QED
      BY <2>2, <2>3
  <1> QED
    BY <1>1 DEF Column, Codes

LEMMA Pass1Types ==
  ASSUME TypeInv, Pass1Chunk
  PROVE  TypeInv'
  <1> DEFINE blob  == data[idx]
             bad   == BadSlots(blob)
             fixed == IF bad = {} THEN blob ELSE RepairIntra(blob)
  <1>0. /\ BodyInv /\ RunInv /\ PlaceInv /\ ReportInv
        /\ pc = "pass1" /\ idx \in Nat /\ idx < ChunkCount /\ idx' = idx + 1
        /\ UNCHANGED <<bodyVars, pc, optVars, grp, win, par, lostSet, cols, envVars>>
    BY DEF TypeInv, Pass1Chunk, PlaceInv
  <1>1. idx \in Chunks /\ ChunkCount \in Nat
    BY <1>0, GroupNumbers
  <1>2. BodyInv'
    BY <1>0, BodyKept
  <1>3. RunInv'
    BY <1>0 DEF RunInv, optVars, envVars
  <1>4. needFile' = needFile \/ needFile' = needFile \cup {idx}
    BY DEF Pass1Chunk
  <1>5. PlaceInv'
    <2>1. /\ idx' \in 0 .. ChunkCount /\ needFile' \subseteq Chunks
          /\ needFile' \subseteq 0 .. idx' - 1 /\ lostSet' \subseteq needFile'
      <3>1. idx' \in 0 .. ChunkCount
        BY <1>0, <1>1
      <3>2. needFile \subseteq 0 .. idx' - 1 /\ idx \in 0 .. idx' - 1
        BY <1>0, <1>1 DEF PlaceInv
      <3>3. needFile \subseteq Chunks /\ lostSet \subseteq needFile /\ lostSet' = lostSet
        BY <1>0 DEF PlaceInv
      <3> QED
        BY <1>1, <1>4, <3>1, <3>2, <3>3
    <2> QED
      BY <1>0, <2>1 DEF PlaceInv
  <1>6. ReportInv'
    <2>1. \/ rep' = rep
          \/ rep' = [rep EXCEPT !.lost = @ \cup {idx}, !.lostLen = @ + 1]
          \/ rep' = [rep EXCEPT !.clean = @ + 1]
          \/ rep' = [rep EXCEPT !.repaired = @ + 1]
      BY DEF Pass1Chunk
    <2>2. ReportOK
      BY <1>0 DEF ReportInv
    <2>3. ReportOK'
      <3>1. CASE rep' = rep
        BY <2>2, <3>1 DEF ReportOK
      <3>2. CASE rep' = [rep EXCEPT !.lost = @ \cup {idx}, !.lostLen = @ + 1]
        BY <1>1, <2>2, <3>2 DEF ReportOK, ReportFields
      <3>3. CASE rep' = [rep EXCEPT !.clean = @ + 1]
        BY <2>2, <3>3 DEF ReportOK, ReportFields
      <3>4. CASE rep' = [rep EXCEPT !.repaired = @ + 1]
        BY <2>2, <3>4 DEF ReportOK, ReportFields
      <3> QED
        BY <2>1, <3>1, <3>2, <3>3, <3>4
    <2> QED
      BY <1>0, <2>3 DEF ReportInv
  <1>7. TodoInv'
    <2>1. \/ todo' = {}
          \/ writes /\ todo' = {DataWrite(idx, s, fixed[s]) : s \in bad}
      BY DEF Pass1Chunk, WillWrite
    <2>2. \A s \in bad : s \in Slots /\ fixed[s] \in {True, Wrong}
      BY <1>0, <1>1, NewValues
    <2>3. ASSUME NEW t \in todo'
          PROVE  writes /\ \E i \in Chunks, s \in Slots, v \in {True, Wrong} :
                             t = DataWrite(i, s, v)
      <3> HIDE DEF bad, fixed
      <3> QED
        BY <1>1, <2>1, <2>2
    <2> QED
      BY <1>0, <2>3 DEF TodoInv, DataWrite, optVars
  <1> QED
    BY <1>2, <1>3, <1>5, <1>6, <1>7 DEF TypeInv

LEMMA Pass2Types ==
  ASSUME TypeInv, Pass2Group
  PROVE  TypeInv'
  <1> DEFINE missing == {i \in needFile : GroupOf(i) = grp}
             good == IF CanRebuild(grp, missing)
                     THEN {i \in missing : Decodes(i, RebuiltBlob(grp, missing, i))}
                     ELSE {}
  <1>0. /\ BodyInv /\ RunInv /\ PlaceInv /\ ReportInv
        /\ pc = "pass2" /\ grp \in Groups /\ grp' = grp + 1
        /\ UNCHANGED <<bodyVars, pc, optVars, idx, win, par, needFile, cols, envVars>>
    BY DEF TypeInv, Pass2Group
  <1>1. /\ rep' = [rep EXCEPT !.rebuilt = @ + Cardinality(good),
                              !.lost = @ \cup (missing \ good),
                              !.lostLen = @ + Cardinality(missing \ good)]
        /\ lostSet' = lostSet \cup (missing \ good)
        /\ WillWrite({DataWrite(i, s, RebuiltSlot(grp, missing, i, s)) :
                        i \in good, s \in Slots})
    BY DEF Pass2Group
  <1>2. missing \subseteq needFile /\ good \subseteq missing /\ needFile \subseteq Chunks
    BY <1>0 DEF PlaceInv
  <1> HIDE DEF missing, good
  <1>3. BodyInv'
    BY <1>0, BodyKept
  <1>4. RunInv'
    BY <1>0 DEF RunInv, optVars, envVars
  <1>5. PlaceInv'
    <2>1. grp' \in 0 .. GroupCount(ChunkCount)
      BY <1>0, GroupNumbers
    <2> QED
      BY <1>0, <1>1, <1>2, <2>1 DEF PlaceInv
  <1>6. ReportInv'
    <2>1. Cardinality(good) \in Nat /\ Cardinality(missing \ good) \in Nat
      BY <1>2, Countable
    <2>2. ReportOK /\ missing \subseteq Chunks
      BY <1>0, <1>2 DEF ReportInv
    <2>3. ReportOK'
      BY <1>1, <2>1, <2>2 DEF ReportOK, ReportFields
    <2> QED
      BY <1>0, <2>3 DEF ReportInv
  <1>7. TodoInv'
    <2>1. ASSUME NEW t \in todo'
          PROVE  writes /\ \E i \in Chunks, s \in Slots, v \in {True, Wrong} :
                             t = DataWrite(i, s, v)
      <3>1. writes
        BY <1>1 DEF WillWrite
      <3>2. PICK i \in good, s \in Slots :
              t = DataWrite(i, s, RebuiltSlot(grp, missing, i, s))
        BY <1>1, <3>1 DEF WillWrite
      <3>3. RebuiltSlot(grp, missing, i, s) \in {True, Wrong}
        BY <1>0, NewValues
      <3> QED
        BY <1>2, <3>1, <3>2, <3>3
    <2> QED
      BY <1>0, <2>1 DEF TodoInv, DataWrite, optVars
  <1> QED
    BY <1>3, <1>4, <1>5, <1>6, <1>7 DEF TypeInv

LEMMA Pass3Types ==
  ASSUME TypeInv, Pass3SkipGroup \/ Pass3ReadWindow \/ Pass3Parity \/ Pass3NextWindow
                    \/ Pass3Ends
  PROVE  TypeInv'
  <1>0. /\ BodyInv /\ RunInv /\ PlaceInv /\ ReportInv /\ TodoInv
    BY DEF TypeInv
  <1>1. BodyInv'
    <2>1. UNCHANGED bodyVars
      BY DEF Pass3SkipGroup, Pass3ReadWindow, Pass3Parity, Pass3NextWindow, Pass3Ends
    <2> QED
      BY <1>0, <2>1, BodyKept
  <1>2. RunInv'
    BY <1>0 DEF Pass3SkipGroup, Pass3ReadWindow, Pass3Parity, Pass3NextWindow, Pass3Ends,
      RunInv, optVars, envVars, Returns, Passes
  <1>3. PlaceInv'
    <2>1. CASE Pass3SkipGroup
      <3>1. grp' \in 0 .. GroupCount(ChunkCount) /\ win = 0
        BY <1>0, <2>1, GroupNumbers DEF Pass3SkipGroup, PlaceInv
      <3> QED
        BY <1>0, <2>1, <3>1 DEF Pass3SkipGroup, PlaceInv, optVars, localVars
    <2>2. CASE Pass3ReadWindow
      BY <1>0, <2>2 DEF Pass3ReadWindow, PlaceInv, Returns, optVars, GroupComplete
    <2>3. CASE Pass3Parity
      BY <1>0, <2>3 DEF Pass3Parity, PlaceInv, optVars, localVars, GroupComplete
    <2>4. CASE Pass3NextWindow
      <3>1. /\ grp' \in 0 .. GroupCount(ChunkCount) /\ win' \in Windows
            /\ win' # 0 => grp' = grp
        BY <1>0, <2>4, GroupNumbers, FirstWindow DEF Pass3NextWindow, PlaceInv
      <3> QED
        BY <1>0, <2>4, <3>1 DEF Pass3NextWindow, PlaceInv, optVars, localVars, GroupComplete
    <2>5. CASE Pass3Ends
      BY <1>0, <2>5 DEF Pass3Ends, PlaceInv, Returns, optVars, localVars, posVars
    <2> QED
      BY <2>1, <2>2, <2>3, <2>4, <2>5
  <1>4. ReportInv'
    <2>1. CASE rep' = rep /\ pc' # "pass3write"
      BY <1>0, <2>1 DEF ReportInv, ReportOK
    <2>2. CASE Pass3ReadWindow /\ pc' = "pass3write"
      <3>1. /\ grp \in Groups /\ grp' = grp /\ win' = win /\ rep' = rep
            /\ \A i \in ChunksOf(grp) : DataWindowOK(i, win)
            /\ cols' = [s \in WindowSlots(win) |-> Column(grp, s)]
        BY <2>2 DEF Pass3ReadWindow, Returns
      <3>2. ASSUME NEW s \in WindowSlots(win)
            PROVE  cols'[s] \in Codes(grp)
        <4>1. s \in Slots /\ \A i \in ChunksOf(grp) : data[i][s] # Bad
          BY <3>1 DEF DataWindowOK, WindowSlots
        <4>2. Column(grp, s) \in Codes(grp)
          BY <1>0, <3>1, <4>1, ColumnIsCode
        <4> QED
          BY <3>1, <4>2
      <3> QED
        BY <1>0, <3>1, <3>2 DEF ReportInv, ReportOK, Codes, WindowSlots
    <2>3. CASE Pass3Parity
      <3> DEFINE stale == {s \in WindowSlots(win) : parity[grp][par][s] # cols[s]}
      <3>3. /\ rep' = [rep EXCEPT !.paritySlotsBad = @ + Cardinality(stale)]
            /\ UNCHANGED <<pc, grp, win, cols>>
        BY <2>3 DEF Pass3Parity, localVars
      <3> HIDE DEF stale
      <3>4. ReportOK'
        BY <1>0, <3>3 DEF ReportInv, ReportOK, ReportFields
      <3> QED
        BY <1>0, <3>3, <3>4 DEF ReportInv, WindowSlots, Codes
    <2> QED
      BY <2>1, <2>2, <2>3 DEF Pass3SkipGroup, Pass3ReadWindow, Pass3NextWindow, Pass3Ends, Returns
  <1>5. TodoInv'
    <2>1. CASE pc = "pass3" \/ todo' = {}
      <3>1. todo' = {}
        BY <2>1, NoTodo DEF Pass3SkipGroup, Pass3ReadWindow, Pass3Parity, Pass3NextWindow, Pass3Ends
      <3> QED
        BY <3>1 DEF TodoInv
    <2>2. CASE Pass3NextWindow
      BY <2>2 DEF Pass3NextWindow, TodoInv
    <2>3. CASE Pass3Parity /\ writes
      <3> DEFINE stale == {s \in WindowSlots(win) : parity[grp][par][s] # cols[s]}
      <3>1. /\ pc = "pass3write" /\ par < ParityOf(grp) /\ par \in Nat /\ grp \in Groups
            /\ todo' = {ParityWrite(par, s, cols[s]) : s \in stale}
            /\ UNCHANGED <<pc, grp, writes>>
        BY <1>0, <2>3 DEF Pass3Parity, WillWrite, PlaceInv, optVars
      <3>2. ParityOf(grp) \in Nat
        BY <3>1, GroupChunks
      <3>3. par \in 0 .. ParityOf(grp) - 1
        BY <3>1, <3>2
      <3>4. \A s \in stale : s \in Slots /\ cols[s] \in Codes(grp)
        BY <1>0, <3>1 DEF ReportInv, WindowSlots
      <3> HIDE DEF stale
      <3>5. \A t \in todo' : \E p \in 0 .. ParityOf(grp) - 1, s \in Slots, v \in Codes(grp) :
              t = ParityWrite(p, s, v)
        BY <3>1, <3>3, <3>4
      <3> QED
        BY <2>3, <3>1, <3>5 DEF TodoInv, ParityWrite, Codes
    <2> QED
      BY <2>1, <2>2, <2>3 DEF Pass3SkipGroup, Pass3ReadWindow, Pass3Ends, Pass3Parity, WillWrite
  <1> QED
    BY <1>1, <1>2, <1>3, <1>4, <1>5 DEF TypeInv

\* a run begins, and the ends of the first two passes
LEMMA TurnTypes ==
  ASSUME TypeInv,
         \/ \E w \in BOOLEAN, rp \in BOOLEAN : Start(w, rp)
         \/ Pass1Ends \/ Pass2Ends
  PROVE  TypeInv'
  <1>0. /\ BodyInv /\ RunInv /\ PlaceInv /\ ReportInv /\ TodoInv
    BY DEF TypeInv
  <1>1. BodyInv'
    <2>1. UNCHANGED bodyVars
      BY DEF Start, Pass1Ends, Pass2Ends
    <2> QED
      BY <1>0, <2>1, BodyKept
  <1>2. TodoInv'
    <2>1. todo' = {}
      BY NoTodo DEF Start, Pass1Ends, Pass2Ends, Idle
    <2> QED
      BY <2>1 DEF TodoInv
  <1>3. CASE \E w \in BOOLEAN, rp \in BOOLEAN : Start(w, rp)
    <2>1. PICK w \in BOOLEAN, rp \in BOOLEAN : Start(w, rp)
      BY <1>3
    <2>2. RunInv'
      <3>1. runs' \in 0 .. MaxRuns
        BY <1>0, <2>1, ScrubAssumption DEF Start, RunInv
      <3> QED
        BY <1>0, <2>1, <3>1 DEF Start, RunInv, Passes
    <2>3. PlaceInv'
      BY <2>1, FirstWindow, GroupNumbers DEF Start, PlaceInv
    <2>4. ReportInv'
      BY <2>1 DEF Start, ReportInv, EmptyReport, ReportOK, ReportFields
    <2> QED
      BY <1>1, <1>2, <2>2, <2>3, <2>4 DEF TypeInv
  <1>4. CASE Pass1Ends
    <2>1. RunInv'
      BY <1>0, <1>4 DEF Pass1Ends, RunInv, Passes, optVars, envVars
    <2>2. PlaceInv'
      BY <1>0, <1>4 DEF Pass1Ends, PlaceInv, posVars, localVars
    <2>3. ReportInv'
      BY <1>0, <1>4 DEF Pass1Ends, ReportInv, ReportOK
    <2> QED
      BY <1>1, <1>2, <2>1, <2>2, <2>3 DEF TypeInv
  <1>5. CASE Pass2Ends
    <2>0. pc' \in {"pass3", "done"}
      BY <1>5 DEF Pass2Ends, Returns
    <2>1. RunInv'
      BY <1>0, <1>5, <2>0 DEF Pass2Ends, RunInv, Passes, optVars
    <2>2. PlaceInv'
      BY <1>0, <1>5, <2>0, GroupNumbers DEF Pass2Ends, PlaceInv, localVars
    <2>3. ReportInv'
      BY <1>0, <1>5, <2>0 DEF Pass2Ends, ReportInv, ReportOK
    <2> QED
      BY <1>1, <1>2, <2>1, <2>2, <2>3 DEF TypeInv
  <1> QED
    BY <1>3, <1>4, <1>5

\* a write, and the end of a run before its report
LEMMA WriteTypes ==
  ASSUME TypeInv, WriteSlot \/ Abort
  PROVE  TypeInv'
  <1>0. /\ BodyInv /\ RunInv /\ PlaceInv /\ ReportInv /\ TodoInv
    BY DEF TypeInv
  <1>1. BodyInv'
    <2>1. CASE UNCHANGED bodyVars
      BY <1>0, <2>1, BodyKept
    <2>2. CASE \E t \in todo : SlotBecomes(t, t.v)
      BY <2>2, SlotKept
    <2>3. CASE \E t \in todo : SlotBecomes(t, IF t.to = "data" THEN Bad ELSE BadColumn)
      BY <2>3, SlotKept
    <2> QED
      BY <2>1, <2>2, <2>3 DEF WriteSlot, Abort
  <1>2. RunInv' /\ PlaceInv' /\ ReportInv' /\ TodoInv'
    <2>1. CASE WriteSlot
      <3>1. /\ todo' \subseteq todo
            /\ UNCHANGED <<pc, optVars, posVars, localVars, rep, envVars>>
        BY <2>1 DEF WriteSlot
      <3>2. RunInv'
        BY <1>0, <3>1 DEF RunInv, optVars, envVars
      <3>3. PlaceInv'
        BY <1>0, <3>1 DEF PlaceInv, posVars, localVars, GroupComplete
      <3>4. ReportInv'
        BY <1>0, <3>1 DEF ReportInv, ReportOK, posVars, localVars, WindowSlots, Codes
      <3>5. TodoInv'
        BY <1>0, <3>1 DEF TodoInv, optVars, posVars, DataWrite, ParityWrite, Codes
      <3> QED
        BY <3>2, <3>3, <3>4, <3>5
    <2>2. CASE Abort
      <3>1. /\ todo' = {} /\ pc' = "failed"
            /\ UNCHANGED <<optVars, posVars, localVars, rep, envVars>>
        BY <2>2 DEF Abort
      <3>2. RunInv'
        BY <1>0, <3>1 DEF RunInv, optVars, envVars
      <3>3. PlaceInv'
        BY <1>0, <3>1 DEF PlaceInv, posVars, localVars
      <3>4. ReportInv'
        BY <1>0, <3>1 DEF ReportInv, ReportOK
      <3>5. TodoInv'
        BY <3>1 DEF TodoInv
      <3> QED
        BY <3>2, <3>3, <3>4, <3>5
    <2> QED
      BY <2>1, <2>2
  <1> QED
    BY <1>1, <1>2 DEF TypeInv

\* the medium, and a step that changes nothing
LEMMA MediumTypes ==
  ASSUME TypeInv, Hit \/ Corrupt \/ UNCHANGED vars
  PROVE  TypeInv'
  <1>0. /\ BodyInv /\ RunInv /\ PlaceInv /\ ReportInv /\ TodoInv
    BY DEF TypeInv
  <1>1. BodyInv'
    BY <1>0, DamageKept, BodyKept DEF vars
  <1>2. /\ UNCHANGED <<pc, optVars, posVars, localVars, rep, todo, runs>>
        /\ quiet' \in BOOLEAN
    BY <1>0 DEF Hit, Corrupt, Damaged, vars, envVars, RunInv
  <1>3. RunInv'
    <2>1. hits' \in 0 .. MaxHits
      BY <1>0, ScrubAssumption DEF Hit, Corrupt, vars, envVars, RunInv
    <2>2. corrupt' \in 0 .. MaxCorrupt
      BY <1>0, ScrubAssumption DEF Hit, Corrupt, vars, envVars, RunInv
    <2> QED
      BY <1>0, <1>2, <2>1, <2>2 DEF RunInv, optVars
  <1>4. PlaceInv'
    BY <1>0, <1>2 DEF PlaceInv, posVars, localVars, GroupComplete
  <1>5. ReportInv'
    BY <1>0, <1>2 DEF ReportInv, ReportOK, posVars, localVars, WindowSlots, Codes
  <1>6. TodoInv'
    BY <1>0, <1>2 DEF TodoInv, optVars, posVars, DataWrite, ParityWrite, Codes
  <1> QED
    BY <1>1, <1>3, <1>4, <1>5, <1>6 DEF TypeInv

\* every reachable state has these types
LEMMA Typed ==
  Spec => []TypeInv
  <1>1. TypeInv /\ [Next]_vars => TypeInv'
    BY Pass1Types, Pass2Types, Pass3Types, TurnTypes, WriteTypes, MediumTypes
    DEF Next, Step
  <1> QED
    BY <1>1, TypeInit, PTL DEF Spec

\* type correctness: what TypeOK says follows
THEOREM ScrubTypeCorrect ==
  Spec => []TypeOK
  <1>1. TypeInv => TypeOK
    <2> SUFFICES ASSUME TypeInv PROVE TypeOK
      OBVIOUS
    <2>1. BodyTypeOK
      <3>1. BodyInv
        BY DEF TypeInv
      <3>2. ASSUME NEW g \in Groups
            PROVE  /\ DOMAIN parity[g] = 0 .. ParityOf(g) - 1
                   /\ \A p \in DOMAIN parity[g] : \A s \in Slots :
                        parity[g][p][s] \in {BadColumn} \cup Codes(g)
        <4> DEFINE V == {BadColumn} \cup Codes(g)
        <4>1. parity[g] \in [0 .. ParityOf(g) - 1 -> [Slots -> V]]
          BY <3>1 DEF BodyInv
        <4> HIDE DEF V
        <4>2. /\ DOMAIN parity[g] = 0 .. ParityOf(g) - 1
              /\ \A p \in DOMAIN parity[g] : \A s \in Slots : parity[g][p][s] \in V
          BY <4>1
        <4> QED
          BY <4>2 DEF V
      <3>3. \A g \in Groups : \A p \in DOMAIN parity[g] : \A s \in Slots :
              parity[g][p][s] = BadColumn
                \/ parity[g][p][s] \in [1 .. DataChunks(g) -> {True, Wrong}]
        BY <3>2 DEF Codes
      <3>4. data \in [Chunks -> [Slots -> {Bad, True, Wrong}]] /\ DOMAIN parity = Groups
        BY <3>1 DEF BodyInv
      <3> QED
        BY <3>2, <3>3, <3>4, Zenon DEF BodyTypeOK
    <2> QED
      BY <2>1 DEF TypeInv, RunInv, PlaceInv, ReportInv, ReportOK, Passes, TypeOK
  <1> QED
    BY <1>1, Typed, PTL

\* a group that can be rebuilt has parity to rebuild each of its windows from
LEMMA ParityIsThere ==
  ASSUME NEW g \in Groups, NEW missing \in SUBSET ChunksOf(g), NEW w \in Windows,
         CanRebuild(g, missing)
  PROVE  /\ IsFiniteSet(UsableParity(g, w)) /\ UsableParity(g, w) # {}
         /\ DataChunks(g) - Cardinality(UsableData(g, missing, w)) \in Nat \ {0}
  <1> DEFINE usable == UsableData(g, missing, w)
             UP == UsableParity(g, w)
             n == DataChunks(g)
             q == ParityOf(g)
  <1>1. n \in Nat /\ q \in Nat /\ IsFiniteSet(ChunksOf(g)) /\ Cardinality(ChunksOf(g)) = n
    BY GroupHolds, GroupChunks
  <1>2. missing # {}
    <2>1. Cardinality(missing) # 0
      BY DEF CanRebuild
    <2> QED
      BY <2>1, FS_EmptySet
  <1>3. usable \subseteq ChunksOf(g) /\ usable # ChunksOf(g)
    BY <1>2 DEF UsableData
  <1>4. /\ IsFiniteSet(usable) /\ Cardinality(usable) <= Cardinality(ChunksOf(g))
        /\ (Cardinality(ChunksOf(g)) = Cardinality(usable) => ChunksOf(g) = usable)
    BY <1>1, <1>3, FS_Subset
  <1>5. Cardinality(usable) \in Nat
    BY <1>4, FS_CardinalityType
  <1>6. IsFiniteSet(UP) /\ Cardinality(UP) \in Nat
    <2>1. 0 \in Int /\ q - 1 \in Int
      BY <1>1
    <2>2. IsFiniteSet(0 .. q - 1)
      BY <2>1, FS_Interval
    <2>3. UP \subseteq 0 .. q - 1
      BY DEF UsableParity
    <2> QED
      BY <2>2, <2>3, FS_Subset, FS_CardinalityType
  <1>7. n + q - Cardinality(usable) - Cardinality(UP) <= q
    BY DEF CanRebuild, Erasures
  <1> HIDE DEF usable, UP, n, q
  <1>8. n - Cardinality(usable) \in Nat \ {0}
    BY <1>1, <1>3, <1>4, <1>5
  <1>9. Cardinality(UP) # 0
    BY <1>1, <1>5, <1>6, <1>7, <1>8
  <1>10. UP # {}
    BY <1>9, FS_EmptySet
  <1> QED
    BY <1>6, <1>8, <1>10 DEF usable, UP, n

\* what RebuildMissing computes from such a body is right
LEMMA RebuiltIsTrue ==
  ASSUME BodyInv, Forgeless,
         NEW g \in Groups, NEW missing \in SUBSET ChunksOf(g), CanRebuild(g, missing),
         NEW i \in missing, NEW s \in Slots
  PROVE  RebuiltSlot(g, missing, i, s) = True
  <1> DEFINE w == s \div WindowCols
             usable == UsableData(g, missing, w)
             need == DataChunks(g) - Cardinality(usable)
             UP == UsableParity(g, w)
             taken == {p \in UP : Cardinality({o \in UP : o < p}) < need}
             codes == {parity[g][p][s] : p \in taken}
             at(c) == c - g * FileGroupChunks + 1
             y == TrueColumn(g)
  <1>1. w \in Windows /\ s \in WindowSlots(w)
    BY SlotInWindow
  <1> HIDE DEF w
  <1>2. IsFiniteSet(UP) /\ UP # {} /\ need \in Nat \ {0}
    BY <1>1, ParityIsThere
  <1>3. UP \subseteq 0 .. ParityOf(g) - 1 /\ UP \subseteq Nat
    BY GroupChunks DEF UsableParity
  <1>4. taken # {}
    <2>1. PICK m \in UP : \A k \in UP : m <= k
      BY <1>2, <1>3, Least
    <2>2. {o \in UP : o < m} = {}
      BY <1>3, <2>1
    <2>3. Cardinality({o \in UP : o < m}) = 0
      BY <2>2, FS_EmptySet
    <2> HIDE DEF need, UP
    <2>4. Cardinality({o \in UP : o < m}) < need
      BY <1>2, <2>3
    <2> QED
      BY <2>1, <2>4
  <1>5. \A p \in UP : parity[g][p][s] = y
    <2>1. ASSUME NEW p \in UP
          PROVE  parity[g][p][s] = y
      <3>1. parity[g][p][s] # BadColumn
        BY <1>1 DEF UsableParity, ParityWindowOK
      <3>2. parity[g][p][s] \in {BadColumn, TrueColumn(g)}
        BY <1>3 DEF Forgeless
      <3> QED
        BY <3>1, <3>2
    <2> QED
      BY <2>1
  <1>6. codes = {y}
    <2> HIDE DEF UP, y, need
    <2>1. taken \subseteq UP
      OBVIOUS
    <2> HIDE DEF taken
    <2> QED
      BY <1>4, <1>5, <2>1
  <1>7. \A c \in ChunksOf(g) : y[at(c)] = True
    BY GroupHolds DEF TrueColumn
  <1>8. \A c \in usable : y[at(c)] = data[c][s]
    <2>1. ASSUME NEW c \in usable
          PROVE  data[c][s] = True /\ c \in ChunksOf(g)
      <3>1. c \in ChunksOf(g) /\ c \in Chunks /\ data[c][s] # Bad
        BY <1>1 DEF UsableData, DataWindowOK, ChunksOf
      <3>2. data[c][s] \in {Bad, True, Wrong}
        BY <3>1 DEF BodyInv
      <3> QED
        BY <3>1, <3>2 DEF Forgeless
    <2> QED
      BY <1>7, <2>1
  <1>9. y[at(i)] = True
    BY <1>7
  <1> HIDE DEF y
  <1>10. \E z \in codes : codes = {z} /\ (\A c \in usable : z[at(c)] = data[c][s])
                            /\ z[at(i)] = True
    BY <1>6, <1>8, <1>9
  <1> QED
    BY <1>10, Zenon DEF RebuiltSlot, w

\* and so is what RepairIntra computes
LEMMA RepairIsTrue ==
  ASSUME BodyInv, Forgeless, NEW i \in Chunks
  PROVE  \A s \in Slots : /\ RepairIntra(data[i])[s] = True
                          /\ s \notin BadSlots(data[i]) => data[i][s] = True
  <1>1. \A s \in Slots : data[i][s] \in {Bad, True}
    BY DEF BodyInv, Forgeless
  <1>2. \A s \in Slots \ BadSlots(data[i]) : data[i][s] = True
    BY <1>1 DEF BadSlots
  <1> QED
    BY <1>1, <1>2 DEF RepairIntra

\* with the first slots among the used ones, a true blob decodes
LEMMA TrueDecodes ==
  ASSUME NEW i, NEW blob, \A s \in Slots : blob[s] = True
  PROVE  Decodes(i, blob)
  <1>1. UsedSlots(i) \subseteq Slots
    BY ContainerAssumption DEF UsedSlots, Slots
  <1> QED
    BY <1>1 DEF Decodes

-----------------------------------------------------------------------------
(* Nothing is forged.                                                      *)

\* the chunks of a group that pass 1 gave up
Missing(g) == {i \in needFile : GroupOf(i) = g}

LEMMA MissingInGroup ==
  ASSUME TypeInv, NEW g
  PROVE  Missing(g) \in SUBSET ChunksOf(g) /\ Missing(g) \subseteq needFile
  BY DEF Missing, TypeInv, PlaceInv, ChunksOf

\* so pass 2 rebuilds all of them, or none
LEMMA GroupRebuilt ==
  ASSUME TypeInv, Forgeless, grp \in Groups, CanRebuild(grp, Missing(grp)),
         NEW i \in Missing(grp)
  PROVE  /\ \A s \in Slots : RebuiltSlot(grp, Missing(grp), i, s) = True
         /\ Decodes(i, RebuiltBlob(grp, Missing(grp), i))
  <1>1. BodyInv
    BY DEF TypeInv
  <1>2. \A s \in Slots : RebuiltSlot(grp, Missing(grp), i, s) = True
    BY <1>1, MissingInGroup, RebuiltIsTrue
  <1> QED
    BY <1>2, TrueDecodes DEF RebuiltBlob

\* a body that no step touches, and one the medium damages
LEMMA ForgelessKept ==
  ASSUME Forgeless, UNCHANGED bodyVars
  PROVE  Forgeless'
  BY DEF Forgeless, bodyVars, TrueColumn

\* what Hit does to a data blob or to a parity blob
DataHit(S, i) ==
    /\ data' = [data EXCEPT ![i] = [s \in Slots |-> IF s \in S THEN Bad ELSE data[i][s]]]
    /\ UNCHANGED parity
ParityHit(S, g, p) ==
    /\ parity' = [parity EXCEPT ![g][p] =
                    [s \in Slots |-> IF s \in S THEN BadColumn ELSE parity[g][p][s]]]
    /\ UNCHANGED data

LEMMA HitKinds ==
  ASSUME Hit
  PROVE  \E S \in (SUBSET Slots) \ {{}} :
           \/ \E i \in Chunks : DataHit(S, i)
           \/ \E g \in Groups : \E p \in 0 .. ParityOf(g) - 1 : ParityHit(S, g, p)
  <1>1. PICK S \in (SUBSET Slots) \ {{}} :
          \/ /\ \E i \in Chunks : data' = [data EXCEPT ![i] =
                 [s \in Slots |-> IF s \in S THEN Bad ELSE data[i][s]]]
             /\ UNCHANGED parity
          \/ /\ \E g \in Groups : \E p \in 0 .. ParityOf(g) - 1 :
                 parity' = [parity EXCEPT ![g][p] =
                   [s \in Slots |-> IF s \in S THEN BadColumn ELSE parity[g][p][s]]]
             /\ UNCHANGED data
    BY Zenon DEF Hit
  <1>2. (\E i \in Chunks : DataHit(S, i))
          \/ \E g \in Groups : \E p \in 0 .. ParityOf(g) - 1 : ParityHit(S, g, p)
    BY <1>1 DEF DataHit, ParityHit
  <1> QED
    BY <1>2

LEMMA HitForgesNothing ==
  ASSUME BodyInv, Forgeless, Hit
  PROVE  Forgeless'
  <1>1. ASSUME NEW S, NEW i \in Chunks, DataHit(S, i)
        PROVE  Forgeless'
    <2>1. \A j \in Chunks, s \in Slots : data'[j][s] \in {Bad, data[j][s]}
      BY <1>1 DEF DataHit, BodyInv
    <2>2. Bad # Wrong
      BY DEF Bad, Wrong
    <2> QED
      BY <1>1, <2>1, <2>2 DEF DataHit, Forgeless, TrueColumn
  <1>2. ASSUME NEW S, NEW g \in Groups, NEW p \in 0 .. ParityOf(g) - 1,
               ParityHit(S, g, p)
        PROVE  Forgeless'
    <2>1. ASSUME NEW h \in Groups, NEW q \in 0 .. ParityOf(h) - 1, NEW s \in Slots
          PROVE  parity'[h][q][s] \in {BadColumn, parity[h][q][s]}
      <3>1. CASE h # g
        BY <1>2, <3>1 DEF ParityHit, BodyInv
      <3>2. CASE h = g
        <4>1. parity'[g] = [parity[g] EXCEPT ![p] =
                   [r \in Slots |-> IF r \in S THEN BadColumn ELSE parity[g][p][r]]]
          BY <1>2 DEF ParityHit, BodyInv
        <4>2. DOMAIN parity[g] = 0 .. ParityOf(g) - 1
          BY DEF BodyInv
        <4> QED
          BY <3>2, <4>1, <4>2
      <3> QED
        BY <3>1, <3>2
    <2>2. data' = data
      BY <1>2 DEF ParityHit
    <2> QED
      BY <2>1, <2>2 DEF Forgeless, TrueColumn
  <1>3. PICK S \in (SUBSET Slots) \ {{}} :
          \/ \E i \in Chunks : DataHit(S, i)
          \/ \E g \in Groups : \E p \in 0 .. ParityOf(g) - 1 : ParityHit(S, g, p)
    BY HitKinds
  <1> QED
    BY <1>1, <1>2, <1>3

\* only Corrupt counts as one
LEMMA NewCorruption ==
  ASSUME [Next]_vars, ~ Corrupt
  PROVE  corrupt' = corrupt
  <1>1. CASE Hit
    BY <1>1 DEF Hit
  <1>2. CASE \E w \in BOOLEAN, rp \in BOOLEAN : Start(w, rp)
    BY <1>2 DEF Start
  <1>3. CASE Pass1Chunk \/ Pass1Ends \/ Pass2Group \/ Pass2Ends
    BY <1>3 DEF Pass1Chunk, Pass1Ends, Pass2Group, Pass2Ends, envVars
  <1>4. CASE Pass3SkipGroup \/ Pass3ReadWindow \/ Pass3Parity \/ Pass3NextWindow \/ Pass3Ends
    BY <1>4 DEF Pass3SkipGroup, Pass3ReadWindow, Pass3Parity, Pass3NextWindow, Pass3Ends,
      envVars
  <1>5. CASE WriteSlot \/ Abort \/ UNCHANGED vars
    BY <1>5 DEF WriteSlot, Abort, envVars, vars
  <1> QED
    BY <1>1, <1>2, <1>3, <1>4, <1>5 DEF Next, Step

LEMMA TrueStep ==
  TypeInv /\ TrueInv /\ [Next]_vars => TrueInv'
  <1> SUFFICES ASSUME TypeInv, TrueInv, [Next]_vars, corrupt' = 0
               PROVE  Forgeless' /\ HandsTrue' /\ rep'.lost = lostSet'
    BY DEF TrueInv
  <1>1. ~ Corrupt /\ corrupt = 0
    <2>1. corrupt \in Nat
      BY ScrubAssumption DEF TypeInv, RunInv
    <2>2. ~ Corrupt
      BY <2>1 DEF Corrupt
    <2> QED
      BY <2>2, NewCorruption
  <1>2. BodyInv /\ PlaceInv /\ ReportInv /\ Forgeless /\ HandsTrue /\ rep.lost = lostSet
    BY <1>1 DEF TypeInv, TrueInv
  <1>3. CASE Hit
    <2>1. Forgeless'
      BY <1>2, <1>3, HitForgesNothing
    <2>2. UNCHANGED <<pc, posVars, localVars, rep, todo>>
      BY <1>3 DEF Hit, Damaged
    <2> QED
      BY <1>2, <2>1, <2>2 DEF HandsTrue, posVars, localVars, TrueColumn, WindowSlots
  <1>4. CASE \E u \in BOOLEAN, rp \in BOOLEAN : Start(u, rp)
    <2>1. /\ UNCHANGED bodyVars /\ todo' = {} /\ pc' = "pass1"
          /\ rep' = EmptyReport /\ lostSet' = {}
      BY <1>4, NoTodo DEF Start, Idle
    <2> QED
      BY <1>2, <2>1, ForgelessKept DEF HandsTrue, EmptyReport
  <1>5. CASE Pass1Chunk
    <2> DEFINE blob  == data[idx]
               bad   == BadSlots(blob)
               fixed == IF bad = {} THEN blob ELSE RepairIntra(blob)
    <2>1. /\ UNCHANGED bodyVars /\ pc' = "pass1" /\ idx \in Chunks /\ lostSet' = lostSet
      BY <1>2, <1>5, GroupNumbers DEF Pass1Chunk, PlaceInv
    <2>2. \A s \in Slots : fixed[s] = True
      BY <1>2, <2>1, RepairIsTrue
    <2>3. Decodes(idx, fixed)
      BY <2>2, TrueDecodes
    <2>4. rep'.lost = rep.lost
      <3>1. \/ rep' = rep
            \/ rep' = [rep EXCEPT !.clean = @ + 1]
            \/ rep' = [rep EXCEPT !.repaired = @ + 1]
        BY <1>5, <2>3 DEF Pass1Chunk
      <3> QED
        BY <1>2, <3>1 DEF ReportInv, ReportOK, ReportFields
    <2>5. HandsTrue'
      <3>1. todo' = {} \/ todo' = {DataWrite(idx, s, fixed[s]) : s \in bad}
        BY <1>5 DEF Pass1Chunk, WillWrite
      <3>2. \A t \in todo' : t.to = "data" /\ t.v = True
        <4>1. \A s \in bad : fixed[s] = True
          BY <2>2 DEF BadSlots
        <4> HIDE DEF fixed, bad
        <4> QED
          BY <3>1, <4>1 DEF DataWrite
      <3> QED
        BY <2>1, <3>2 DEF HandsTrue
    <2> QED
      BY <1>2, <2>1, <2>4, <2>5, ForgelessKept
  <1>6. CASE Pass2Group
    <2> DEFINE m == Missing(grp)
               good == IF CanRebuild(grp, m)
                       THEN {i \in m : Decodes(i, RebuiltBlob(grp, m, i))}
                       ELSE {}
    <2>1. /\ UNCHANGED bodyVars /\ pc' = "pass2" /\ grp \in Groups
          /\ rep' = [rep EXCEPT !.rebuilt = @ + Cardinality(good),
                                !.lost = @ \cup (m \ good),
                                !.lostLen = @ + Cardinality(m \ good)]
          /\ lostSet' = lostSet \cup (m \ good)
          /\ WillWrite({DataWrite(i, s, RebuiltSlot(grp, m, i, s)) :
                          i \in good, s \in Slots})
      BY <1>6 DEF Pass2Group, Missing
    <2>2. \A i \in good : CanRebuild(grp, m) /\ i \in m
      OBVIOUS
    <2> HIDE DEF good
    <2>3. rep'.lost = lostSet'
      BY <1>2, <2>1 DEF ReportInv, ReportOK, ReportFields
    <2>4. \A i \in good, s \in Slots : RebuiltSlot(grp, m, i, s) = True
      BY <1>2, <2>1, <2>2, GroupRebuilt
    <2>5. \A t \in todo' : t.to = "data" /\ t.v = True
      BY <2>1, <2>4 DEF WillWrite, DataWrite
    <2>6. HandsTrue'
      BY <2>1, <2>5 DEF HandsTrue
    <2> QED
      BY <1>2, <2>1, <2>3, <2>6, ForgelessKept
  <1>7. CASE Pass1Ends \/ Pass2Ends \/ Pass3SkipGroup \/ Pass3NextWindow \/ Pass3Ends
    <2>1. /\ UNCHANGED bodyVars /\ pc' # "pass3write" /\ todo' = {}
          /\ rep' = rep /\ lostSet' = lostSet
      BY <1>7, NoTodo DEF Pass1Ends, Pass2Ends, Pass3SkipGroup, Pass3NextWindow, Pass3Ends,
        Returns, localVars
    <2> QED
      BY <1>2, <2>1, ForgelessKept DEF HandsTrue
  <1>8. CASE Pass3ReadWindow
    <2>1. /\ UNCHANGED bodyVars /\ todo' = {} /\ rep' = rep /\ lostSet' = lostSet
          /\ grp \in Groups /\ grp' = grp /\ win' = win
      BY <1>8, NoTodo DEF Pass3ReadWindow
    <2>2. ASSUME pc' = "pass3write", NEW s \in WindowSlots(win)
          PROVE  cols'[s] = TrueColumn(grp)
      <3>1. \A i \in ChunksOf(grp) : DataWindowOK(i, win)
        BY <1>8, <2>2 DEF Pass3ReadWindow, Returns
      <3>2. cols' = [r \in WindowSlots(win) |-> Column(grp, r)]
        BY <1>8, <2>2 DEF Pass3ReadWindow, Returns
      <3>3. \A i \in ChunksOf(grp) : i \in Chunks /\ data[i][s] = True
        <4>1. s \in Slots
          BY DEF WindowSlots
        <4>2. \A i \in ChunksOf(grp) : data[i][s] # Bad
          BY <2>2, <3>1 DEF DataWindowOK
        <4>3. \A i \in Chunks : data[i][s] \in {Bad, True}
          BY <1>2, <4>1 DEF BodyInv, Forgeless
        <4> QED
          BY <4>2, <4>3 DEF ChunksOf
      <3>4. \A j \in 1 .. DataChunks(grp) : data[grp * FileGroupChunks + j - 1][s] = True
        BY <2>1, <3>3, GroupHolds
      <3>5. Column(grp, s) = TrueColumn(grp)
        BY <3>4 DEF Column, TrueColumn
      <3> QED
        BY <2>2, <3>2, <3>5
    <2>3. HandsTrue'
      BY <2>1, <2>2 DEF HandsTrue, TrueColumn, WindowSlots
    <2> QED
      BY <1>2, <2>1, <2>3, ForgelessKept
  <1>9. CASE Pass3Parity
    <2>1. /\ UNCHANGED bodyVars /\ pc = "pass3write"
          /\ UNCHANGED <<pc, grp, win, cols, lostSet>>
      BY <1>9 DEF Pass3Parity, localVars
    <2>2. \A t \in todo' : t.to = "parity" /\ t.v = TrueColumn(grp)
      <3>1. \A t \in todo' : \E s \in WindowSlots(win) : t = ParityWrite(par, s, cols[s])
        BY <1>9 DEF Pass3Parity, WillWrite
      <3>2. \A s \in WindowSlots(win) : cols[s] = TrueColumn(grp)
        BY <1>2, <2>1 DEF HandsTrue
      <3> QED
        BY <3>1, <3>2 DEF ParityWrite
    <2>3. HandsTrue'
      BY <1>2, <2>1, <2>2 DEF HandsTrue, TrueColumn, WindowSlots
    <2>4. rep'.lost = rep.lost
      BY <1>2, <1>9 DEF Pass3Parity, ReportInv, ReportOK, ReportFields
    <2> QED
      BY <1>2, <2>1, <2>3, <2>4, ForgelessKept
  <1>10. CASE WriteSlot
    <2>1. /\ todo' \subseteq todo /\ UNCHANGED <<pc, posVars, localVars, rep>>
      BY <1>10 DEF WriteSlot
    <2>2. HandsTrue'
      BY <1>2, <2>1 DEF HandsTrue, posVars, localVars, TrueColumn, WindowSlots
    <2>3. PICK t \in todo : SlotBecomes(t, t.v)
      BY <1>10 DEF WriteSlot
    <2>4. t.v = IF t.to = "data" THEN True ELSE TrueColumn(grp)
      BY <1>2 DEF HandsTrue
    <2>5. Forgeless'
      <3>1. CASE t.to = "data"
        <4>1. /\ parity' = parity
              /\ \A j \in Chunks, r \in Slots :
                   data'[j][r] = IF j = t.i /\ r = t.s THEN t.v ELSE data[j][r]
          BY <2>3, <3>1, SlotKept
        <4>2. True # Wrong
          BY DEF True, Wrong
        <4> QED
          BY <1>2, <2>4, <3>1, <4>1, <4>2 DEF Forgeless, TrueColumn
      <3>2. CASE t.to # "data"
        <4>1. /\ data' = data
              /\ \A h \in Groups : \A q \in 0 .. ParityOf(h) - 1 : \A r \in Slots :
                   parity'[h][q][r] = IF h = grp /\ q = t.i /\ r = t.s THEN t.v
                                      ELSE parity[h][q][r]
          BY <2>3, <3>2, SlotKept
        <4> QED
          BY <1>2, <2>4, <3>2, <4>1 DEF Forgeless, TrueColumn
      <3> QED
        BY <3>1, <3>2
    <2> QED
      BY <1>2, <2>1, <2>2, <2>5 DEF localVars
  <1>11. CASE Abort
    <2>1. todo' = {} /\ pc' = "failed" /\ rep' = rep /\ lostSet' = lostSet
      BY <1>11 DEF Abort, localVars
    <2>2. Forgeless'
      <3>1. CASE UNCHANGED bodyVars
        BY <1>2, <3>1, ForgelessKept
      <3>2. CASE \E t \in todo : SlotBecomes(t, IF t.to = "data" THEN Bad ELSE BadColumn)
        <4>1. PICK t \in todo : SlotBecomes(t, IF t.to = "data" THEN Bad ELSE BadColumn)
          BY <3>2
        <4>2. CASE t.to = "data"
          <5>1. PICK v : v = (IF t.to = "data" THEN Bad ELSE BadColumn)
            OBVIOUS
          <5>2. /\ parity' = parity
                /\ \A j \in Chunks, r \in Slots :
                     data'[j][r] = IF j = t.i /\ r = t.s THEN v ELSE data[j][r]
            BY <4>1, <4>2, <5>1, SlotKept
          <5>3. v # Wrong
            BY <4>2, <5>1 DEF Bad, Wrong
          <5> QED
            BY <1>2, <5>2, <5>3 DEF Forgeless, TrueColumn
        <4>3. CASE t.to # "data"
          <5>1. PICK v : v = (IF t.to = "data" THEN Bad ELSE BadColumn)
            OBVIOUS
          <5>2. /\ data' = data
                /\ \A h \in Groups : \A q \in 0 .. ParityOf(h) - 1 : \A r \in Slots :
                     parity'[h][q][r] = IF h = grp /\ q = t.i /\ r = t.s THEN v
                                        ELSE parity[h][q][r]
            BY <4>1, <4>3, <5>1, SlotKept
          <5> QED
            BY <1>2, <4>3, <5>1, <5>2 DEF Forgeless, TrueColumn
        <4> QED
          BY <4>2, <4>3
      <3> QED
        BY <1>11, <3>1, <3>2 DEF Abort
    <2> QED
      BY <1>2, <2>1, <2>2 DEF HandsTrue
  <1>12. CASE UNCHANGED vars
    <2>1. UNCHANGED bodyVars /\ UNCHANGED <<pc, posVars, localVars, rep, todo>>
      BY <1>12 DEF vars
    <2> QED
      BY <1>2, <2>1, ForgelessKept
      DEF HandsTrue, posVars, localVars, TrueColumn, WindowSlots
  <1> QED
    BY <1>1, <1>3, <1>4, <1>5, <1>6, <1>7, <1>8, <1>9, <1>10, <1>11, <1>12 DEF Next, Step

\* every reachable body is free of forged payloads
LEMMA Truthful ==
  Spec => []TrueInv
  <1>1. Init => TrueInv
    <2> SUFFICES ASSUME Init PROVE Forgeless /\ HandsTrue /\ rep.lost = lostSet
      BY DEF TrueInv
    <2>1. Forgeless
      BY DEF Init, IntactBody, Forgeless, True, Wrong
    <2> QED
      BY <2>1 DEF Init, HandsTrue, EmptyReport
  <1> QED
    BY <1>1, Typed, TrueStep, PTL DEF Spec

\* NothingForged: whatever the run does and wherever it is cut short, from damage
\* that the tags detect it never writes a payload the writer would not have written
THEOREM ScrubForgesNothing ==
  Spec => []NothingForged
  <1>1. TrueInv => NothingForged
    BY DEF TrueInv, Forgeless, NothingForged
  <1> QED
    BY <1>1, Truthful, PTL

-----------------------------------------------------------------------------
(* The report adds up.                                                     *)

\* the chunks that the first passes still owe an answer
LEMMA OwedChunks ==
  ASSUME TypeInv
  PROVE  /\ Owed \subseteq Chunks /\ IsFiniteSet(Owed) /\ Cardinality(Owed) \in Nat
         /\ IsFiniteSet(rep.lost) /\ Cardinality(rep.lost) \in Nat
  <1>1. Owed \subseteq Chunks
    <2>1. needFile \subseteq Chunks /\ idx \in Nat
      BY GroupNumbers DEF TypeInv, PlaceInv
    <2>2. idx .. ChunkCount - 1 \subseteq Chunks
      BY <2>1, GroupNumbers
    <2> QED
      BY <2>1, <2>2 DEF Owed
  <1>2. rep.lost \subseteq Chunks
    BY DEF TypeInv, ReportInv, ReportOK
  <1> QED
    BY <1>1, <1>2, Countable

\* a chunk that pass 1 finds lost, clean or repairable is owed no more
LEMMA Pass1Counts ==
  ASSUME TypeInv, Counted, Pass1Chunk
  PROVE  Counted'
  <1>0. /\ PlaceInv /\ ReportInv /\ pc = "pass1" /\ pc' = "pass1"
        /\ idx \in Nat /\ idx < ChunkCount /\ ChunkCount \in Nat /\ idx' = idx + 1
        /\ IsFiniteSet(Owed) /\ Cardinality(Owed) \in Nat
        /\ IsFiniteSet(rep.lost) /\ Cardinality(rep.lost) \in Nat
    BY OwedChunks, GroupNumbers DEF TypeInv, Pass1Chunk, PlaceInv
  <1>1. /\ idx \in Chunks /\ idx \in idx .. ChunkCount - 1
        /\ idx .. ChunkCount - 1 = {idx} \cup (idx' .. ChunkCount - 1)
        /\ idx \notin idx' .. ChunkCount - 1
    BY <1>0, GroupNumbers
  <1>2. /\ Owed = needFile \cup idx .. ChunkCount - 1
        /\ Owed' = needFile' \cup idx' .. ChunkCount - 1
    BY <1>0 DEF Owed
  <1>3. idx \notin needFile
    BY <1>0 DEF PlaceInv
  <1>4. /\ rep.clean + rep.repaired + rep.rebuilt + rep.lostLen + Cardinality(Owed)
             = ChunkCount
        /\ Cardinality(rep.lost) = rep.lostLen
        /\ rep.lost \cap Owed = {}
    BY <1>0 DEF Counted, Passes
  <1>5. /\ DOMAIN rep = ReportFields /\ rep.lostLen \in Nat
        /\ rep.clean \in Nat /\ rep.repaired \in Nat /\ rep.rebuilt \in Nat
    BY <1>0 DEF ReportInv, ReportOK
  <1>6. CASE needFile' = needFile \cup {idx} /\ rep' = rep
    <2>1. Owed' = Owed
      BY <1>1, <1>2, <1>6
    <2> QED
      BY <1>0, <1>4, <1>6, <2>1 DEF Counted
  <1>7. ASSUME needFile' = needFile
        PROVE  /\ Cardinality(Owed') = Cardinality(Owed) - 1
               /\ Owed' \subseteq Owed /\ idx \in Owed /\ idx \notin Owed'
    <2>1. Owed' = Owed \ {idx} /\ idx \in Owed
      BY <1>1, <1>2, <1>3, <1>7
    <2>2. Cardinality(Owed \ {idx}) = Cardinality(Owed) - 1
      BY <1>0, <2>1, FS_RemoveElement
    <2> QED
      BY <2>1, <2>2
  <1>8. CASE needFile' = needFile
              /\ rep' = [rep EXCEPT !.lost = @ \cup {idx}, !.lostLen = @ + 1]
    <2>1. /\ rep'.clean = rep.clean /\ rep'.repaired = rep.repaired
          /\ rep'.rebuilt = rep.rebuilt /\ rep'.lostLen = rep.lostLen + 1
          /\ rep'.lost = rep.lost \cup {idx}
      BY <1>5, <1>8 DEF ReportFields
    <2>2. idx \notin rep.lost
      BY <1>4, <1>7, <1>8
    <2>3. Cardinality(rep'.lost) = rep'.lostLen
      BY <1>0, <1>4, <2>1, <2>2, FS_AddElement
    <2>4. rep'.lost \cap Owed' = {}
      BY <1>4, <1>7, <1>8, <2>1
    <2>5. rep'.clean + rep'.repaired + rep'.rebuilt + rep'.lostLen + Cardinality(Owed')
            = ChunkCount
      <3>1. Cardinality(Owed') = Cardinality(Owed) - 1
        BY <1>7, <1>8
      <3> QED
        BY <1>0, <1>4, <1>5, <2>1, <3>1
    <2> QED
      BY <2>3, <2>4, <2>5 DEF Counted
  <1>9. CASE needFile' = needFile /\ rep' = [rep EXCEPT !.clean = @ + 1]
    <2>1. /\ rep'.clean = rep.clean + 1 /\ rep'.repaired = rep.repaired
          /\ rep'.rebuilt = rep.rebuilt /\ rep'.lostLen = rep.lostLen
          /\ rep'.lost = rep.lost
      BY <1>5, <1>9 DEF ReportFields
    <2>2. rep'.lost \cap Owed' = {}
      BY <1>4, <1>7, <1>9, <2>1
    <2>3. rep'.clean + rep'.repaired + rep'.rebuilt + rep'.lostLen + Cardinality(Owed')
            = ChunkCount
      BY <1>0, <1>4, <1>5, <1>7, <1>9, <2>1
    <2> QED
      BY <1>4, <2>1, <2>2, <2>3 DEF Counted
  <1>10. CASE needFile' = needFile /\ rep' = [rep EXCEPT !.repaired = @ + 1]
    <2>1. /\ rep'.clean = rep.clean /\ rep'.repaired = rep.repaired + 1
          /\ rep'.rebuilt = rep.rebuilt /\ rep'.lostLen = rep.lostLen
          /\ rep'.lost = rep.lost
      BY <1>5, <1>10 DEF ReportFields
    <2>2. rep'.lost \cap Owed' = {}
      BY <1>4, <1>7, <1>10, <2>1
    <2>3. rep'.clean + rep'.repaired + rep'.rebuilt + rep'.lostLen + Cardinality(Owed')
            = ChunkCount
      BY <1>0, <1>4, <1>5, <1>7, <1>10, <2>1
    <2> QED
      BY <1>4, <2>1, <2>2, <2>3 DEF Counted
  <1> QED
    BY <1>6, <1>8, <1>9, <1>10 DEF Pass1Chunk

\* and the chunks pass 1 gave up are rebuilt or lost when their group is done
LEMMA Pass2Counts ==
  ASSUME TypeInv, Counted, Pass2Group
  PROVE  Counted'
  <1> DEFINE m == Missing(grp)
             good == IF CanRebuild(grp, m)
                     THEN {i \in m : Decodes(i, RebuiltBlob(grp, m, i))}
                     ELSE {}
  <1>0. /\ PlaceInv /\ ReportInv /\ pc = "pass2" /\ pc' = "pass2"
        /\ grp \in Groups /\ grp' = grp + 1 /\ needFile' = needFile
        /\ IsFiniteSet(Owed) /\ Cardinality(Owed) \in Nat
        /\ IsFiniteSet(rep.lost) /\ Cardinality(rep.lost) \in Nat /\ ChunkCount \in Nat
    BY OwedChunks, GroupNumbers DEF TypeInv, Pass2Group
  <1>1. rep' = [rep EXCEPT !.rebuilt = @ + Cardinality(good),
                           !.lost = @ \cup (m \ good),
                           !.lostLen = @ + Cardinality(m \ good)]
    BY DEF Pass2Group, Missing
  <1>2. good \subseteq m
    OBVIOUS
  <1> HIDE DEF good
  <1>3. /\ rep.clean + rep.repaired + rep.rebuilt + rep.lostLen + Cardinality(Owed)
             = ChunkCount
        /\ Cardinality(rep.lost) = rep.lostLen
        /\ rep.lost \cap Owed = {}
    BY <1>0 DEF Counted, Passes
  <1>4. /\ DOMAIN rep = ReportFields /\ rep.lostLen \in Nat
        /\ rep.clean \in Nat /\ rep.repaired \in Nat /\ rep.rebuilt \in Nat
    BY <1>0 DEF ReportInv, ReportOK
  <1>5. m \subseteq Owed /\ Owed' = Owed \ m
    <2>1. Owed = {i \in needFile : GroupOf(i) >= grp}
      BY <1>0 DEF Owed
    <2>2. Owed' = {i \in needFile : GroupOf(i) >= grp + 1}
      BY <1>0 DEF Owed, GroupOf
    <2>3. \A i \in needFile : GroupOf(i) \in Nat
      <3>1. needFile \subseteq Chunks /\ Groups \subseteq Nat
        BY <1>0, GroupNumbers DEF PlaceInv
      <3> QED
        BY <3>1, GroupOfChunk
    <2>4. grp \in Nat
      BY <1>0, GroupNumbers
    <2>5. \A i \in needFile : GroupOf(i) >= grp + 1 <=> GroupOf(i) >= grp /\ GroupOf(i) # grp
      BY <2>3, <2>4
    <2>6. \A i \in needFile : GroupOf(i) = grp => GroupOf(i) >= grp
      BY <2>3, <2>4
    <2> QED
      BY <2>1, <2>2, <2>5, <2>6 DEF Missing
  <1> HIDE DEF m
  <1>6. /\ IsFiniteSet(m) /\ Cardinality(m) \in Nat
        /\ IsFiniteSet(good) /\ Cardinality(good) \in Nat
        /\ IsFiniteSet(m \ good) /\ Cardinality(m \ good) \in Nat
    <2>1. IsFiniteSet(m) /\ IsFiniteSet(good) /\ IsFiniteSet(m \ good)
      BY <1>0, <1>2, <1>5, FS_Subset
    <2> QED
      BY <2>1, FS_CardinalityType
  <1>7. Cardinality(m \ good) = Cardinality(m) - Cardinality(good)
    <2>1. m \cap good = good
      BY <1>2
    <2> QED
      BY <1>6, <2>1, FS_Difference
  <1>8. Cardinality(Owed') = Cardinality(Owed) - Cardinality(m)
    <2>1. Owed \cap m = m
      BY <1>5
    <2> QED
      <3>1. Cardinality(Owed \ m) = Cardinality(Owed) - Cardinality(Owed \cap m)
        BY <1>0, FS_Difference
      <3> QED
        BY <1>5, <2>1, <3>1
  <1>9. /\ rep'.clean = rep.clean /\ rep'.repaired = rep.repaired
        /\ rep'.rebuilt = rep.rebuilt + Cardinality(good)
        /\ rep'.lostLen = rep.lostLen + Cardinality(m \ good)
        /\ rep'.lost = rep.lost \cup (m \ good)
    BY <1>1, <1>4 DEF ReportFields
  <1>10. Cardinality(rep'.lost) = rep'.lostLen
    <2>1. rep.lost \cap (m \ good) = {}
      BY <1>3, <1>5
    <2>2. Cardinality(rep.lost \cap (m \ good)) = 0
      BY <2>1, FS_EmptySet
    <2>3. Cardinality(rep.lost \cup (m \ good))
            = Cardinality(rep.lost) + Cardinality(m \ good) - Cardinality(rep.lost \cap (m \ good))
      BY <1>0, <1>6, FS_Union
    <2> QED
      BY <1>0, <1>3, <1>6, <1>9, <2>2, <2>3
  <1>11. rep'.lost \cap Owed' = {}
    BY <1>3, <1>5, <1>9
  <1>12. rep'.clean + rep'.repaired + rep'.rebuilt + rep'.lostLen + Cardinality(Owed')
           = ChunkCount
    BY <1>0, <1>3, <1>4, <1>6, <1>7, <1>8, <1>9
  <1> QED
    BY <1>10, <1>11, <1>12 DEF Counted

\* at the end of a pass it owes nothing
LEMMA PassesOwe ==
  ASSUME TypeInv
  PROVE  /\ Pass1Ends => Owed' = Owed
         /\ Pass2Ends => Owed = {} /\ Owed' = {}
  <1>0. /\ PlaceInv /\ needFile \subseteq Chunks /\ ChunkCount \in Nat
        /\ Groups = 0 .. GroupCount(ChunkCount) - 1 /\ GroupCount(ChunkCount) \in Nat
    BY GroupNumbers DEF TypeInv, PlaceInv
  <1>1. \A i \in needFile : GroupOf(i) \in Groups
    BY <1>0, GroupOfChunk
  <1>2. ASSUME Pass1Ends
        PROVE  Owed' = Owed
    <2>1. /\ pc = "pass1" /\ pc' = "pass2" /\ idx = ChunkCount /\ grp = 0
          /\ grp' = grp /\ needFile' = needFile
      BY <1>0, <1>2 DEF Pass1Ends, PlaceInv, posVars, localVars
    <2>2. idx .. ChunkCount - 1 = {}
      BY <1>0, <2>1
    <2>3. Owed = needFile
      BY <2>1, <2>2 DEF Owed
    <2>4. Owed' = {i \in needFile : GroupOf(i) >= 0}
      BY <2>1 DEF Owed, GroupOf
    <2>5. \A i \in needFile : GroupOf(i) >= 0
      BY <1>0, <1>1
    <2> QED
      BY <2>3, <2>4, <2>5
  <1>3. ASSUME Pass2Ends
        PROVE  Owed = {} /\ Owed' = {}
    <2>1. pc = "pass2" /\ grp \notin Groups /\ grp \in Nat /\ pc' \in {"pass3", "done"}
      BY <1>0, <1>3 DEF Pass2Ends, PlaceInv, Returns
    <2>2. \A i \in needFile : ~ (GroupOf(i) >= grp)
      BY <1>0, <1>1, <2>1
    <2> QED
      BY <2>1, <2>2 DEF Owed
  <1> QED
    BY <1>2, <1>3

LEMMA CountStep ==
  TypeInv /\ Counted /\ [Next]_vars => Counted'
  <1> SUFFICES ASSUME TypeInv, Counted, [Next]_vars PROVE Counted'
    OBVIOUS
  <1>0. PlaceInv /\ ReportInv
    BY DEF TypeInv
  <1>1. CASE UNCHANGED <<pc, posVars, localVars, rep>>
    <2>1. Owed' = Owed
      BY <1>1 DEF Owed, posVars, localVars, GroupOf
    <2> QED
      BY <1>1, <2>1 DEF Counted
  <1>2. CASE \E u \in BOOLEAN, rp \in BOOLEAN : Start(u, rp)
    <2>1. pc' = "pass1" /\ idx' = 0 /\ needFile' = {} /\ rep' = EmptyReport
      BY <1>2 DEF Start
    <2>2. Owed' = Chunks
      BY <2>1 DEF Owed, Chunks
    <2>3. Cardinality(Chunks) = ChunkCount /\ ChunkCount \in Nat
      <3>1. 0 \in Int /\ ChunkCount - 1 \in Int /\ ~ (0 > ChunkCount - 1)
            /\ ChunkCount - 1 - 0 + 1 = ChunkCount /\ ChunkCount \in Nat
        BY GroupNumbers
      <3> QED
        BY <3>1, FS_Interval DEF Chunks
    <2>4. Cardinality({}) = 0
      BY FS_EmptySet
    <2> QED
      BY <2>1, <2>2, <2>3, <2>4 DEF Counted, EmptyReport
  <1>3. CASE Pass1Chunk
    BY <1>3, Pass1Counts
  <1>4. CASE Pass2Group
    BY <1>4, Pass2Counts
  <1>5. CASE Pass1Ends
    <2>1. Owed' = Owed /\ rep' = rep /\ pc = "pass1"
      BY <1>5, PassesOwe DEF Pass1Ends
    <2> QED
      BY <2>1 DEF Counted, Passes
  <1>6. CASE Pass2Ends
    <2>1. Owed' = Owed /\ rep' = rep /\ pc = "pass2"
      BY <1>6, PassesOwe DEF Pass2Ends
    <2> QED
      BY <2>1 DEF Counted, Passes
  <1>7. CASE Pass3SkipGroup \/ Pass3ReadWindow \/ Pass3Parity \/ Pass3NextWindow \/ Pass3Ends
    <2>1. /\ pc \in {"pass3", "pass3write"} /\ pc' \in {"pass3", "pass3write", "done"}
          /\ rep'.clean = rep.clean /\ rep'.repaired = rep.repaired
          /\ rep'.rebuilt = rep.rebuilt /\ rep'.lostLen = rep.lostLen
          /\ rep'.lost = rep.lost
      <3>1. CASE Pass3Parity
        BY <1>0, <3>1 DEF Pass3Parity, ReportInv, ReportOK, ReportFields
      <3>2. CASE ~ Pass3Parity
        BY <1>7, <3>2 DEF Pass3SkipGroup, Pass3ReadWindow, Pass3NextWindow, Pass3Ends, Returns
      <3> QED
        BY <3>1, <3>2
    <2>2. Owed = {} /\ Owed' = {}
      BY <2>1 DEF Owed
    <2> QED
      BY <2>1, <2>2 DEF Counted, Passes
  <1>8. CASE Abort
    <2>1. pc' = "failed"
      BY <1>8 DEF Abort
    <2> QED
      BY <2>1 DEF Counted, Passes
  <1>9. CASE Hit \/ Corrupt \/ WriteSlot \/ UNCHANGED vars
    BY <1>1, <1>9 DEF Hit, Corrupt, Damaged, WriteSlot, vars
  <1> QED
    BY <1>2, <1>3, <1>4, <1>5, <1>6, <1>7, <1>8, <1>9 DEF Next, Step

\* the counters and what is still owed make up the chunks of the vault
LEMMA Counting ==
  Spec => []Counted
  <1>1. Init => Counted
    BY DEF Init, Counted, Passes
  <1> QED
    BY <1>1, Typed, CountStep, PTL DEF Spec

\* ReportAddsUp: once the passes over the data are through, every chunk is in
\* exactly one column of the report, whatever was damaged meanwhile
THEOREM ScrubReportAddsUp ==
  Spec => []ReportAddsUp
  <1>1. TypeInv /\ Counted => ReportAddsUp
    <2> SUFFICES ASSUME TypeInv, Counted, pc \in {"pass3", "pass3write", "done"}
                 PROVE  /\ rep.clean + rep.repaired + rep.rebuilt + rep.lostLen = ChunkCount
                        /\ Cardinality(rep.lost) = rep.lostLen
      BY DEF ReportAddsUp
    <2>1. Owed = {}
      BY DEF Owed
    <2>2. Cardinality(Owed) = 0
      BY <2>1, FS_EmptySet
    <2>3. /\ rep.clean \in Nat /\ rep.repaired \in Nat /\ rep.rebuilt \in Nat
          /\ rep.lostLen \in Nat
      BY DEF TypeInv, ReportInv, ReportOK
    <2>4. /\ rep.clean + rep.repaired + rep.rebuilt + rep.lostLen + Cardinality(Owed)
               = ChunkCount
          /\ Cardinality(rep.lost) = rep.lostLen
      BY DEF Counted, Passes
    <2> QED
      BY <2>2, <2>3, <2>4
  <1> QED
    BY <1>1, Typed, Counting, PTL

-----------------------------------------------------------------------------
(* Which chunks can be read.                                               *)

\* fewer erasures of a subset than of a set
LEMMA SubsetCounts ==
  ASSUME NEW S, NEW T, IsFiniteSet(T), S \subseteq T
  PROVE  /\ Cardinality(S) \in Nat /\ Cardinality(T) \in Nat
         /\ Cardinality(S) <= Cardinality(T)
  BY FS_Subset, FS_CardinalityType

\* the shards of a window can be counted
LEMMA UsableFinite ==
  ASSUME NEW g \in Groups, NEW missing, NEW w
  PROVE  /\ IsFiniteSet(UsableData(g, missing, w)) /\ IsFiniteSet(UsableParity(g, w))
         /\ DataChunks(g) \in Nat /\ ParityOf(g) \in Nat
  <1>1. DataChunks(g) \in Nat /\ ParityOf(g) \in Nat /\ IsFiniteSet(ChunksOf(g))
    BY GroupHolds, GroupChunks
  <1>2. UsableData(g, missing, w) \subseteq ChunksOf(g)
    BY DEF UsableData
  <1>3. UsableParity(g, w) \subseteq 0 .. ParityOf(g) - 1
    BY DEF UsableParity
  <1>4. 0 \in Int /\ ParityOf(g) - 1 \in Int
    BY <1>1
  <1>5. IsFiniteSet(0 .. ParityOf(g) - 1)
    BY <1>4, FS_Interval
  <1> QED
    BY <1>1, <1>2, <1>3, <1>5, FS_Subset

\* a chunk of a group that can be rebuilt can be rebuilt on its own
LEMMA RebuiltAlone ==
  ASSUME NEW g \in Groups, NEW missing \in SUBSET ChunksOf(g), CanRebuild(g, missing),
         NEW i \in missing
  PROVE  CanRebuild(g, {i})
  <1>1. Cardinality({i}) = 1 /\ IsFiniteSet(missing) /\ ParityOf(g) \in Nat
    BY GroupHolds, GroupChunks, FS_Singleton, FS_Subset
  <1>2. Cardinality({i}) \in 1 .. ParityOf(g)
    BY <1>1 DEF CanRebuild
  <1>3. ASSUME NEW w \in Windows
        PROVE  Erasures(g, {i}, w) <= ParityOf(g)
    <2>1. UsableData(g, missing, w) \subseteq UsableData(g, {i}, w)
      BY DEF UsableData
    <2>2. /\ DataChunks(g) \in Nat /\ ParityOf(g) \in Nat
          /\ IsFiniteSet(UsableData(g, {i}, w)) /\ IsFiniteSet(UsableParity(g, w))
      BY UsableFinite
    <2>3. /\ Cardinality(UsableData(g, missing, w)) \in Nat
          /\ Cardinality(UsableData(g, {i}, w)) \in Nat
          /\ Cardinality(UsableData(g, missing, w)) <= Cardinality(UsableData(g, {i}, w))
      BY <2>1, <2>2, SubsetCounts
    <2>4. Cardinality(UsableParity(g, w)) \in Nat
      BY <2>2, FS_CardinalityType
    <2>5. Erasures(g, missing, w) <= ParityOf(g)
      BY DEF CanRebuild
    <2> QED
      BY <2>2, <2>3, <2>4, <2>5 DEF Erasures
  <1> QED
    BY <1>2, <1>3 DEF CanRebuild

\* without forged payloads a chunk can be read unless its blob has more bad slots
\* than its parity repairs and its group more erasures than its parity blobs
Readable(i) ==
  \/ Cardinality(BadSlots(data[i])) <= ParityShards
  \/ CanRebuild(GroupOf(i), {i})

LEMMA LoadsReadable ==
  BodyInv /\ Forgeless => \A i \in Chunks : Loads(i) <=> Readable(i)
  <1> SUFFICES ASSUME BodyInv, Forgeless, NEW i \in Chunks
               PROVE  Loads(i) <=> Readable(i)
    OBVIOUS
  <1> DEFINE bad == BadSlots(data[i])
  <1>1. IsFiniteSet(bad) /\ Cardinality(bad) \in Nat /\ ParityShards \in Nat
    <2>1. bad \in SUBSET Slots
      BY DEF BadSlots
    <2> QED
      BY <2>1, Countable, ContainerAssumption
  <1>2. CASE bad = {}
    <2>1. \A s \in Slots : data[i][s] = True
      BY <1>2, RepairIsTrue
    <2>2. Loads(i)
      BY <1>2, <2>1, TrueDecodes DEF Loads
    <2>3. Cardinality(bad) = 0
      BY <1>2, FS_EmptySet
    <2>4. Readable(i)
      BY <1>1, <2>3 DEF Readable
    <2> QED
      BY <2>2, <2>4
  <1>3. CASE bad # {} /\ Repairable(data[i])
    <2>1. Decodes(i, RepairIntra(data[i]))
      BY RepairIsTrue, TrueDecodes
    <2>2. Cardinality(bad) <= ParityShards
      BY <1>1, <1>3 DEF Repairable
    <2> QED
      BY <1>3, <2>1, <2>2 DEF Loads, Readable
  <1>4. CASE bad # {} /\ ~ Repairable(data[i])
    <2>1. ~ (Cardinality(bad) <= ParityShards)
      <3>1. Cardinality(bad) # 0
        BY <1>1, <1>4, FS_EmptySet
      <3> QED
        BY <1>1, <1>4, <3>1 DEF Repairable
    <2>2. ASSUME CanRebuild(GroupOf(i), {i})
          PROVE  Decodes(i, RebuiltBlob(GroupOf(i), {i}, i))
      <3>1. GroupOf(i) \in Groups /\ {i} \in SUBSET ChunksOf(GroupOf(i)) /\ i \in {i}
        BY GroupOfChunk
      <3>2. \A s \in Slots : RebuiltSlot(GroupOf(i), {i}, i, s) = True
        BY <2>2, <3>1, RebuiltIsTrue
      <3> QED
        BY <3>2, TrueDecodes DEF RebuiltBlob
    <2> QED
      BY <1>4, <2>1, <2>2 DEF Loads, Readable
  <1> QED
    BY <1>2, <1>3, <1>4

\* the same of the state after a step
LEMMA LoadsReadableNext ==
  (BodyInv /\ Forgeless => \A i \in Chunks : Loads(i) <=> Readable(i))'
  BY LoadsReadable, PTL

\* a step after which no slot is bad that was not bad before
NoNewDamage ==
  /\ \A i \in Chunks, s \in Slots : data'[i][s] = Bad => data[i][s] = Bad
  /\ \A g \in Groups : \A p \in 0 .. ParityOf(g) - 1 : \A s \in Slots :
       parity'[g][p][s] = BadColumn => parity[g][p][s] = BadColumn

LEMMA RebuildKept ==
  ASSUME NoNewDamage, NEW g \in Groups, NEW missing, CanRebuild(g, missing)
  PROVE  CanRebuild(g, missing)'
  <1>1. ASSUME NEW w \in Windows
        PROVE  Erasures(g, missing, w)' <= ParityOf(g)
    <2> DEFINE D == UsableData(g, missing, w)
               Q == UsableParity(g, w)
    <2>1. D \subseteq D'
      BY DEF UsableData, DataWindowOK, NoNewDamage, ChunksOf, WindowSlots, Chunks, GroupOf
    <2>2. Q \subseteq Q'
      BY DEF UsableParity, ParityWindowOK, NoNewDamage, WindowSlots
    <2>3. /\ DataChunks(g) \in Nat /\ ParityOf(g) \in Nat
          /\ IsFiniteSet(D) /\ IsFiniteSet(Q)
      BY UsableFinite
    <2>4. IsFiniteSet(D') /\ IsFiniteSet(Q')
      <3>1. D' \subseteq ChunksOf(g) /\ Q' \subseteq 0 .. ParityOf(g) - 1
        BY DEF UsableData, UsableParity, ChunksOf
      <3>2. 0 \in Int /\ ParityOf(g) - 1 \in Int
        BY <2>3
      <3> QED
        BY <3>1, <3>2, GroupHolds, FS_Interval, FS_Subset
    <2> HIDE DEF D, Q
    <2>5. /\ Cardinality(D) \in Nat /\ Cardinality(D') \in Nat
          /\ Cardinality(D) <= Cardinality(D')
      BY <2>1, <2>4, SubsetCounts
    <2>6. /\ Cardinality(Q) \in Nat /\ Cardinality(Q') \in Nat
          /\ Cardinality(Q) <= Cardinality(Q')
      BY <2>2, <2>4, SubsetCounts
    <2>7. DataChunks(g) + ParityOf(g) - Cardinality(D) - Cardinality(Q) <= ParityOf(g)
      BY DEF CanRebuild, Erasures, D, Q
    <2>8. DataChunks(g) + ParityOf(g) - Cardinality(D') - Cardinality(Q') <= ParityOf(g)
      BY <2>3, <2>5, <2>6, <2>7
    <2> QED
      BY <2>8 DEF Erasures, D, Q, DataChunks, ParityOf
  <1> QED
    BY <1>1 DEF CanRebuild, ParityOf, Windows, Slots

LEMMA ReadableKept ==
  ASSUME NoNewDamage, NEW i \in Chunks, Readable(i)
  PROVE  Readable(i)'
  <1>1. CASE CanRebuild(GroupOf(i), {i})
    BY <1>1, RebuildKept, GroupOfChunk DEF Readable, GroupOf
  <1>2. CASE Cardinality(BadSlots(data[i])) <= ParityShards
    <2>1. BadSlots(data'[i]) \subseteq BadSlots(data[i])
      BY DEF BadSlots, NoNewDamage
    <2>2. BadSlots(data[i]) \subseteq Slots
      BY DEF BadSlots
    <2>3. IsFiniteSet(BadSlots(data[i]))
      BY <2>2, Countable
    <2>4. /\ Cardinality(BadSlots(data'[i])) \in Nat
          /\ Cardinality(BadSlots(data[i])) \in Nat
          /\ Cardinality(BadSlots(data'[i])) <= Cardinality(BadSlots(data[i]))
      BY <2>1, <2>3, SubsetCounts
    <2>5. Cardinality(BadSlots(data'[i])) <= ParityShards
      BY <1>2, <2>4, ContainerAssumption
    <2> QED
      BY <2>5 DEF Readable, BadSlots, Slots
  <1> QED
    BY <1>1, <1>2 DEF Readable

-----------------------------------------------------------------------------
(* No harm is done.                                                        *)

\* the code of a true column is not the empty one
LEMMA TrueIsGood ==
  /\ True # Bad
  /\ \A g \in Groups : TrueColumn(g) # BadColumn
  <1>1. ASSUME NEW g \in Groups, TrueColumn(g) = BadColumn
        PROVE  FALSE
    <2>1. 1 \in DOMAIN TrueColumn(g)
      BY GroupChunks DEF TrueColumn
    <2>2. DOMAIN BadColumn = {}
      BY DEF BadColumn
    <2> QED
      BY <1>1, <2>1, <2>2
  <1> QED
    BY <1>1 DEF True, Bad

\* no step of a run damages a slot: a repair writes good slots, and a write that is
\* cut short tears a slot that was bad already
LEMMA RunSpares ==
  ASSUME TypeInv, Forgeless, HandsTrue, Next, ~ Hit, ~ Corrupt
  PROVE  NoNewDamage
  <1>0. BodyInv
    BY DEF TypeInv
  <1>1. CASE UNCHANGED bodyVars
    BY <1>1 DEF NoNewDamage, bodyVars
  <1>2. CASE WriteSlot \/ Abort
    <2>1. SUFFICES ASSUME NEW t \in todo, NEW v, SlotBecomes(t, v),
                          \/ v = t.v
                          \/ /\ v = IF t.to = "data" THEN Bad ELSE BadColumn
                             /\ t.v # (IF t.to = "data" THEN data[t.i][t.s]
                                       ELSE parity[grp][t.i][t.s])
                   PROVE  NoNewDamage
      BY <1>1, <1>2 DEF WriteSlot, Abort
    <2>2. t.v = IF t.to = "data" THEN True ELSE TrueColumn(grp)
      BY DEF HandsTrue
    <2>3. v = t.v \/ v = (IF t.to = "data" THEN Bad ELSE BadColumn)
      BY <2>1
    <2>4. CASE t.to = "data"
      <3>1. /\ parity' = parity /\ t.i \in Chunks /\ t.s \in Slots
            /\ \A j \in Chunks, r \in Slots :
                 data'[j][r] = IF j = t.i /\ r = t.s THEN v ELSE data[j][r]
        BY <2>1, <2>3, <2>4, SlotKept
      <3>2. data[t.i][t.s] \in {Bad, True}
        BY <1>0, <3>1 DEF BodyInv, Forgeless
      <3>3. v = Bad => data[t.i][t.s] = Bad
        BY <2>1, <2>2, <2>4, <3>2, TrueIsGood
      <3>4. ASSUME NEW j \in Chunks, NEW r \in Slots, data'[j][r] = Bad
            PROVE  data[j][r] = Bad
        BY <3>1, <3>3, <3>4
      <3> QED
        BY <3>1, <3>4 DEF NoNewDamage
    <2>5. CASE t.to # "data"
      <3>1. /\ data' = data /\ grp \in Groups
            /\ t.i \in 0 .. ParityOf(grp) - 1 /\ t.s \in Slots
            /\ \A h \in Groups : \A q \in 0 .. ParityOf(h) - 1 : \A r \in Slots :
                 parity'[h][q][r] = IF h = grp /\ q = t.i /\ r = t.s THEN v
                                    ELSE parity[h][q][r]
        BY <2>1, <2>3, <2>5, SlotKept
      <3>2. parity[grp][t.i][t.s] \in {BadColumn, TrueColumn(grp)}
        BY <3>1 DEF Forgeless
      <3>3. v = BadColumn => parity[grp][t.i][t.s] = BadColumn
        BY <2>1, <2>2, <2>5, <3>1, <3>2, TrueIsGood
      <3>4. ASSUME NEW h \in Groups, NEW q \in 0 .. ParityOf(h) - 1, NEW r \in Slots,
                   parity'[h][q][r] = BadColumn
            PROVE  parity[h][q][r] = BadColumn
        BY <3>1, <3>3, <3>4
      <3> QED
        BY <3>1, <3>4 DEF NoNewDamage
    <2> QED
      BY <2>4, <2>5
  <1> QED
    BY <1>1, <1>2 DEF Next, Step, Start, Pass1Chunk, Pass1Ends, Pass2Group, Pass2Ends,
      Pass3SkipGroup, Pass3ReadWindow, Pass3Parity, Pass3NextWindow, Pass3Ends

\* RepairDoesNoHarm: as long as every damage is one the tags detect, no step of Verify
\* or Scrub makes a chunk unreadable, also when it is cut short.  (A payload that was
\* forged before can spoil a rebuild once the slots around it are repaired.)
THEOREM ScrubDoesNoHarm == Spec => RepairDoesNoHarm
  <1>1. TypeInv /\ TypeInv' /\ TrueInv /\ TrueInv' /\ [Next]_vars
          => [corrupt = 0 /\ UNCHANGED <<hits, corrupt>> =>
                \A i \in Chunks : Loads(i) => Loads(i)']_vars
    <2> SUFFICES ASSUME TypeInv, TypeInv', TrueInv, TrueInv', Next,
                        corrupt = 0, UNCHANGED <<hits, corrupt>>, NEW i \in Chunks, Loads(i)
                 PROVE  Loads(i)'
      OBVIOUS
    <2>1. corrupt = 0 /\ corrupt' = 0 /\ hits \in Nat
      BY ScrubAssumption DEF TypeInv, RunInv
    <2>2. BodyInv /\ Forgeless /\ HandsTrue /\ BodyInv' /\ Forgeless'
      BY <2>1 DEF TypeInv, TrueInv
    <2>3. ~ Hit /\ ~ Corrupt
      BY <2>1 DEF Hit, Corrupt
    <2>4. NoNewDamage
      BY <2>2, <2>3, RunSpares
    <2>5. Readable(i)
      BY <2>2, LoadsReadable
    <2>6. Readable(i)'
      BY <2>4, <2>5, ReadableKept
    <2> QED
      BY <2>2, <2>6, LoadsReadableNext DEF Chunks
  <1> QED
    BY <1>1, Typed, Truthful, PTL DEF Spec, RepairDoesNoHarm

-----------------------------------------------------------------------------
(* What a run without new damage has settled.                              *)

\* a step of a run that nothing disturbs, with what is known of it
Calmly ==
  /\ TypeInv /\ TypeInv' /\ TrueInv /\ TrueInv'
  /\ Next /\ quiet' /\ corrupt' = 0

LEMMA CalmStep ==
  ASSUME Calmly
  PROVE  /\ corrupt = 0 /\ ~ Hit /\ ~ Corrupt
         /\ BodyInv /\ BodyInv' /\ PlaceInv /\ ReportInv /\ Forgeless /\ Forgeless' /\ HandsTrue
         /\ rep.lost = lostSet /\ NoNewDamage
         /\ (\A w \in BOOLEAN, rp \in BOOLEAN : ~ Start(w, rp)) =>
              /\ quiet /\ UNCHANGED <<writes, rebuildParity>>
  <1>1. corrupt \in Nat
    BY ScrubAssumption DEF Calmly, TypeInv, RunInv
  <1>2. ~ Hit /\ ~ Corrupt
    BY DEF Calmly, Hit, Corrupt, Damaged
  <1>3. corrupt = 0
    BY <1>2, NewCorruption DEF Calmly
  <1>4. /\ BodyInv /\ BodyInv' /\ PlaceInv /\ ReportInv /\ Forgeless /\ Forgeless'
        /\ HandsTrue /\ rep.lost = lostSet
    BY <1>3 DEF Calmly, TypeInv, TrueInv
  <1>5. NoNewDamage
    BY <1>2, <1>4, RunSpares DEF Calmly
  <1>6. ASSUME \A w \in BOOLEAN, rp \in BOOLEAN : ~ Start(w, rp)
        PROVE  quiet /\ UNCHANGED <<writes, rebuildParity>>
    <2>1. CASE Pass1Chunk \/ Pass1Ends \/ Pass2Group \/ Pass2Ends
      <3>1. UNCHANGED <<quiet, writes, rebuildParity>>
        BY <2>1 DEF Pass1Chunk, Pass1Ends, Pass2Group, Pass2Ends, envVars, optVars
      <3> QED
        BY <3>1 DEF Calmly
    <2>2. CASE Pass3SkipGroup \/ Pass3ReadWindow \/ Pass3Parity \/ Pass3NextWindow
                 \/ Pass3Ends
      BY <2>2 DEF Calmly, Pass3SkipGroup, Pass3ReadWindow, Pass3Parity, Pass3NextWindow,
        Pass3Ends, envVars, optVars
    <2>3. CASE WriteSlot \/ Abort
      BY <2>3 DEF Calmly, WriteSlot, Abort, envVars, optVars
    <2> QED
      BY <1>2, <1>6, <2>1, <2>2, <2>3 DEF Calmly, Next, Step
  <1> QED
    BY <1>2, <1>3, <1>4, <1>5, <1>6

LEMMA LoadsKept ==
  ASSUME Calmly, NEW i \in Chunks, Loads(i)
  PROVE  Loads(i)'
  <1>1. Readable(i)
    BY CalmStep, LoadsReadable
  <1>2. Readable(i)'
    BY <1>1, CalmStep, ReadableKept
  <1> QED
    BY <1>2, CalmStep, LoadsReadableNext DEF Chunks

\* a chunk stays settled when the step before it has made its writes
LEMMA SettledKept ==
  ASSUME Calmly, UNCHANGED <<bodyVars, writes>>, todo = {} \/ todo' = todo,
         NEW i \in Chunks, Settled(i)
  PROVE  Settled(i)'
  <1>1. CASE writes
    <2>1. \A s \in Slots : data[i][s] = True \/ DataWrite(i, s, True) \in todo
      BY <1>1 DEF Settled
    <2>2. \A s \in Slots : data'[i][s] = True \/ DataWrite(i, s, True) \in todo'
      BY <2>1 DEF bodyVars
    <2> QED
      BY <1>1, <2>2 DEF Settled, Slots, DataWrite
  <1>2. CASE ~ writes
    BY <1>2, LoadsKept DEF Settled
  <1> QED
    BY <1>1, <1>2

\* the chunk that pass 1 treats, and those it does not
LEMMA Pass1Settles ==
  ASSUME Calmly, Pass1Chunk, NEW i \in Chunks
  PROVE  /\ i = idx => i \in Owed' \/ Settled(i)'
         /\ i # idx /\ i \in Owed => i \in Owed'
         /\ rep'.lost = rep.lost
  <1> DEFINE blob  == data[idx]
             bad   == BadSlots(blob)
             fixed == IF bad = {} THEN blob ELSE RepairIntra(blob)
  <1>0. /\ BodyInv /\ PlaceInv /\ ReportInv /\ Forgeless
        /\ pc = "pass1" /\ pc' = "pass1" /\ todo = {} /\ idx' = idx + 1
        /\ UNCHANGED <<bodyVars, writes>>
    BY CalmStep DEF Pass1Chunk, optVars
  <1>1. idx \in Chunks /\ idx \in Nat /\ ChunkCount \in Nat
    BY <1>0, GroupNumbers DEF Pass1Chunk, PlaceInv
  <1>2. \A s \in Slots : fixed[s] = True
    BY <1>0, <1>1, RepairIsTrue
  <1>3. Decodes(idx, fixed)
    BY <1>2, TrueDecodes
  <1>4. /\ Owed' = needFile' \cup idx' .. ChunkCount - 1
        /\ Owed = needFile \cup idx .. ChunkCount - 1
    BY <1>0 DEF Owed
  <1>5. needFile \subseteq needFile'
    BY DEF Pass1Chunk
  <1>6. i # idx /\ i \in Owed => i \in Owed'
    BY <1>0, <1>1, <1>4, <1>5
  <1>7. rep'.lost = rep.lost
    <2>1. \/ rep' = rep
          \/ rep' = [rep EXCEPT !.clean = @ + 1]
          \/ rep' = [rep EXCEPT !.repaired = @ + 1]
      BY <1>3 DEF Pass1Chunk
    <2> QED
      BY <1>0, <2>1 DEF ReportInv, ReportOK, ReportFields
  <1>8. ASSUME i = idx, bad # {} /\ ~ Repairable(blob)
        PROVE  i \in Owed'
    <2>1. needFile' = needFile \cup {idx}
      BY <1>8 DEF Pass1Chunk
    <2> QED
      BY <1>4, <1>8, <2>1
  <1>9. ASSUME i = idx, bad = {} \/ Repairable(blob), writes
        PROVE  Settled(i)'
    <2>1. ASSUME NEW s \in Slots
          PROVE  data[i][s] = True \/ DataWrite(i, s, True) \in todo'
      <3>1. CASE s \notin bad
        BY <1>0, <1>9, <3>1, RepairIsTrue
      <3>2. CASE s \in bad
        <4>1. Repairable(blob)
          BY <1>9, <3>2
        <4>2. todo' = {DataWrite(idx, r, fixed[r]) : r \in bad}
          BY <1>3, <1>9, <3>2, <4>1 DEF Pass1Chunk, WillWrite
        <4>3. fixed[s] = True
          BY <1>2
        <4> HIDE DEF fixed, bad
        <4>4. DataWrite(idx, s, fixed[s]) \in todo'
          BY <3>2, <4>2
        <4> QED
          BY <1>9, <4>3, <4>4
      <3> QED
        BY <3>1, <3>2
    <2> QED
      BY <1>0, <1>9, <2>1 DEF Settled, bodyVars, Slots, DataWrite
  <1>10. ASSUME i = idx, bad = {} \/ Repairable(blob), ~ writes
         PROVE  Settled(i)'
    <2>1. Loads(i)
      <3>1. CASE bad = {}
        BY <1>3, <1>10, <3>1 DEF Loads
      <3>2. CASE bad # {} /\ Repairable(blob)
        BY <1>3, <1>10, <3>2 DEF Loads
      <3> QED
        BY <1>10, <3>1, <3>2
    <2>2. Loads(i)'
      BY <2>1, LoadsKept
    <2> QED
      BY <1>0, <1>10, <2>2 DEF Settled
  <1> QED
    BY <1>6, <1>7, <1>8, <1>9, <1>10

\* the chunks of the group that pass 2 treats, and the others
LEMMA Pass2Settles ==
  ASSUME Calmly, Pass2Group, NEW i \in Chunks, i \in Owed
  PROVE  i \in Owed' \/ i \in rep'.lost \/ Settled(i)'
  <1> DEFINE m == Missing(grp)
             good == IF CanRebuild(grp, m)
                     THEN {j \in m : Decodes(j, RebuiltBlob(grp, m, j))}
                     ELSE {}
  <1>0. /\ TypeInv /\ Forgeless /\ PlaceInv /\ ReportInv /\ pc = "pass2" /\ pc' = "pass2"
        /\ grp \in Groups /\ grp' = grp + 1 /\ needFile' = needFile
        /\ UNCHANGED <<bodyVars, writes>>
    BY CalmStep DEF Pass2Group, optVars, Calmly
  <1>1. /\ rep' = [rep EXCEPT !.rebuilt = @ + Cardinality(good),
                              !.lost = @ \cup (m \ good),
                              !.lostLen = @ + Cardinality(m \ good)]
        /\ WillWrite({DataWrite(j, s, RebuiltSlot(grp, m, j, s)) : j \in good, s \in Slots})
    BY DEF Pass2Group, Missing
  <1>2. CASE i \notin m
    <2>1. i \in needFile /\ GroupOf(i) >= grp /\ GroupOf(i) # grp
      BY <1>0, <1>2 DEF Owed, Missing
    <2>2. GroupOf(i) \in Nat /\ grp \in Nat
      BY <1>0, GroupOfChunk, GroupNumbers
    <2>3. i \in Owed'
      BY <1>0, <2>1, <2>2 DEF Owed, GroupOf
    <2> QED
      BY <2>3
  <1>3. CASE i \in m /\ ~ CanRebuild(grp, m)
    <2> HIDE DEF m
    <2>1. rep'.lost = rep.lost \cup (m \ good)
      <3> HIDE DEF good
      <3> QED
        BY <1>0, <1>1 DEF ReportInv, ReportOK, ReportFields
    <2> QED
      BY <1>3, <2>1
  <1>4. CASE i \in m /\ CanRebuild(grp, m)
    <2>1. /\ \A s \in Slots : RebuiltSlot(grp, m, i, s) = True
          /\ Decodes(i, RebuiltBlob(grp, m, i))
      BY <1>0, <1>4, GroupRebuilt
    <2>2. i \in good
      BY <1>4, <2>1
    <2> HIDE DEF good
    <2>3. CASE writes
      <3>1. \A s \in Slots : DataWrite(i, s, True) \in todo'
        <4>1. ASSUME NEW s \in Slots
              PROVE  DataWrite(i, s, True) \in todo'
          <5>1. DataWrite(i, s, RebuiltSlot(grp, m, i, s)) \in todo'
            BY <1>1, <2>2, <2>3 DEF WillWrite
          <5> QED
            BY <2>1, <5>1
        <4> QED
          BY <4>1
      <3> QED
        BY <1>0, <2>3, <3>1 DEF Settled, Slots, DataWrite
    <2>4. CASE ~ writes
      <3>1. m \in SUBSET ChunksOf(grp) /\ i \in ChunksOf(grp)
        BY <1>0, <1>4, MissingInGroup
      <3>2. CanRebuild(grp, {i}) /\ GroupOf(i) = grp
        BY <1>0, <1>4, <3>1, RebuiltAlone DEF ChunksOf
      <3>3. Loads(i)
        BY <3>2, CalmStep, LoadsReadable DEF Readable
      <3>4. Loads(i)'
        BY <3>3, LoadsKept
      <3> QED
        BY <1>0, <2>4, <3>4 DEF Settled
    <2> QED
      BY <2>3, <2>4
  <1> QED
    BY <1>2, <1>3, <1>4

\* a write that is made settles its slot
LEMMA WriteSettles ==
  ASSUME Calmly, WriteSlot, NEW i \in Chunks, Settled(i)
  PROVE  Settled(i)'
  <1>0. TypeInv /\ HandsTrue
    BY CalmStep DEF Calmly
  <1>1. PICK t \in todo : SlotBecomes(t, t.v) /\ todo' = todo \ {t}
    BY DEF WriteSlot
  <1>2. t.v = (IF t.to = "data" THEN True ELSE TrueColumn(grp)) /\ writes /\ writes' = writes
    BY <1>0, <1>1, TodoKinds DEF HandsTrue, WriteSlot, optVars
  <1>3. \A s \in Slots : data[i][s] = True \/ DataWrite(i, s, True) \in todo
    BY <1>2 DEF Settled
  <1>4. ASSUME NEW s \in Slots
        PROVE  data'[i][s] = True \/ DataWrite(i, s, True) \in todo'
    <2>1. CASE t.to = "data"
      <3>1. \A j \in Chunks, r \in Slots :
              data'[j][r] = IF j = t.i /\ r = t.s THEN t.v ELSE data[j][r]
        BY <1>0, <1>1, <2>1, SlotKept
      <3>2. CASE i = t.i /\ s = t.s
        BY <1>2, <2>1, <3>1, <3>2
      <3>3. CASE ~ (i = t.i /\ s = t.s)
        <4>1. DataWrite(i, s, True) # t
          BY <3>3 DEF DataWrite
        <4>2. data'[i][s] = data[i][s]
          BY <3>1, <3>3
        <4> QED
          BY <1>1, <1>3, <4>1, <4>2
      <3> QED
        BY <3>2, <3>3
    <2>2. CASE t.to # "data"
      <3>1. data' = data
        BY <1>0, <1>1, <2>2, SlotKept
      <3>2. DataWrite(i, s, True) # t
        BY <2>2 DEF DataWrite
      <3> QED
        BY <1>1, <1>3, <3>1, <3>2
    <2> QED
      BY <2>1, <2>2
  <1> QED
    BY <1>2, <1>4 DEF Settled, Slots, DataWrite

LEMMA SettleStep ==
  TypeInv /\ TypeInv' /\ TrueInv /\ TrueInv' /\ ChunksSettled /\ [Next]_vars => ChunksSettled'
  <1>1. ASSUME TypeInv, TypeInv', TrueInv, TrueInv', ChunksSettled, UNCHANGED vars
        PROVE  ChunksSettled'
    <2> SUFFICES ASSUME pc \in Passes \cup {"done"}, quiet, corrupt = 0, NEW i \in Chunks
                 PROVE  i \in Owed' \/ i \in rep'.lost \/ Settled(i)'
      BY <1>1 DEF ChunksSettled, vars, envVars, Chunks
    <2>1. /\ UNCHANGED <<bodyVars, writes, todo>> /\ UNCHANGED <<pc, posVars, localVars, rep>>
          /\ corrupt' = 0
      BY <1>1 DEF vars, optVars, envVars
    <2>2. i \in Owed \/ i \in rep.lost \/ Settled(i)
      BY <1>1 DEF ChunksSettled
    <2>3. Owed' = Owed
      BY <2>1 DEF Owed, posVars, localVars, GroupOf
    <2>4. Loads(i) => Loads(i)'
      <3>1. NoNewDamage
        BY <2>1 DEF NoNewDamage, bodyVars
      <3>2. BodyInv /\ BodyInv' /\ Forgeless /\ Forgeless'
        BY <1>1, <2>1 DEF TypeInv, TrueInv
      <3>3. Readable(i) => Readable(i)'
        BY <3>1, ReadableKept
      <3> QED
        BY <3>2, <3>3, LoadsReadable, LoadsReadableNext DEF Chunks
    <2>5. Settled(i) => Settled(i)'
      BY <2>1, <2>4 DEF Settled, bodyVars, Slots, DataWrite
    <2> QED
      BY <2>1, <2>2, <2>3, <2>5
  <1>2. ASSUME TypeInv, TypeInv', TrueInv, TrueInv', ChunksSettled, Next,
               pc' \in Passes \cup {"done"}, quiet', corrupt' = 0,
               NEW i \in Chunks
        PROVE  i \in Owed' \/ i \in rep'.lost \/ Settled(i)'
    <2>0. Calmly
      BY <1>2 DEF Calmly
    <2>1. CASE \E w \in BOOLEAN, rp \in BOOLEAN : Start(w, rp)
      <3>1. pc' = "pass1" /\ idx' = 0
        BY <2>1 DEF Start
      <3>2. Owed' = needFile' \cup 0 .. ChunkCount - 1
        BY <3>1 DEF Owed
      <3> QED
        BY <3>2 DEF Chunks
    <2>2. CASE ~ \E w \in BOOLEAN, rp \in BOOLEAN : Start(w, rp)
      <3>0. /\ quiet /\ corrupt = 0 /\ ~ Hit /\ ~ Corrupt /\ PlaceInv /\ ReportInv
            /\ UNCHANGED <<writes, rebuildParity>>
        BY <2>0, <2>2, CalmStep
      <3>1. ASSUME pc \in Passes \cup {"done"}
            PROVE  i \in Owed \/ i \in rep.lost \/ Settled(i)
        BY <1>2, <3>0, <3>1 DEF ChunksSettled
      <3>2. CASE Pass1Chunk
        <4>1. i \in Owed \/ i \in rep.lost \/ Settled(i)
          BY <3>1, <3>2 DEF Pass1Chunk, Passes
        <4>2. Settled(i) => Settled(i)'
          BY <2>0, <3>0, <3>2, SettledKept DEF Pass1Chunk
        <4> QED
          BY <2>0, <3>2, <4>1, <4>2, Pass1Settles
      <3>3. CASE Pass2Group
        <4>1. i \in Owed \/ i \in rep.lost \/ Settled(i)
          BY <3>1, <3>3 DEF Pass2Group, Passes
        <4>2. Settled(i) => Settled(i)'
          BY <2>0, <3>0, <3>3, SettledKept DEF Pass2Group
        <4>3. rep.lost \subseteq rep'.lost
          BY <3>0, <3>3 DEF Pass2Group, ReportInv, ReportOK, ReportFields
        <4> QED
          BY <2>0, <3>3, <4>1, <4>2, <4>3, Pass2Settles
      <3>4. CASE Pass1Ends \/ Pass2Ends
        <4>1. i \in Owed \/ i \in rep.lost \/ Settled(i)
          BY <3>1, <3>4 DEF Pass1Ends, Pass2Ends, Passes
        <4>2. Settled(i) => Settled(i)'
          BY <2>0, <3>0, <3>4, SettledKept DEF Pass1Ends, Pass2Ends
        <4>3. Owed' = Owed /\ rep' = rep
          BY <1>2, <3>4, PassesOwe DEF Pass1Ends, Pass2Ends
        <4> QED
          BY <4>1, <4>2, <4>3
      <3>5. CASE Pass3SkipGroup \/ Pass3ReadWindow \/ Pass3Parity \/ Pass3NextWindow
                   \/ Pass3Ends
        <4>1. pc \in {"pass3", "pass3write"}
          BY <3>5 DEF Pass3SkipGroup, Pass3ReadWindow, Pass3Parity, Pass3NextWindow, Pass3Ends
        <4>2. Owed = {}
          BY <4>1 DEF Owed
        <4>3. i \in rep.lost \/ Settled(i)
          BY <3>1, <4>1, <4>2 DEF Passes
        <4>4. UNCHANGED bodyVars /\ (todo = {} \/ todo' = todo)
          BY <3>5 DEF Pass3SkipGroup, Pass3ReadWindow, Pass3Parity, Pass3NextWindow, Pass3Ends
        <4>5. Settled(i) => Settled(i)'
          BY <2>0, <3>0, <4>4, SettledKept
        <4>6. rep'.lost = rep.lost
          <5>1. CASE Pass3Parity
            BY <3>0, <5>1 DEF Pass3Parity, ReportInv, ReportOK, ReportFields
          <5>2. CASE ~ Pass3Parity
            BY <3>5, <5>2 DEF Pass3SkipGroup, Pass3ReadWindow, Pass3NextWindow, Pass3Ends
          <5> QED
            BY <5>1, <5>2
        <4> QED
          BY <4>3, <4>5, <4>6
      <3>6. CASE WriteSlot
        <4>1. UNCHANGED <<pc, posVars, localVars, rep>>
          BY <3>6 DEF WriteSlot
        <4>2. Owed' = Owed
          BY <4>1 DEF Owed, posVars, localVars, GroupOf
        <4>3. i \in Owed \/ i \in rep.lost \/ Settled(i)
          BY <1>2, <3>1, <4>1
        <4> QED
          BY <2>0, <3>6, <4>1, <4>2, <4>3, WriteSettles
      <3>7. ~ Abort
        BY <1>2 DEF Abort, Passes
      <3> QED
        BY <1>2, <2>2, <3>0, <3>2, <3>3, <3>4, <3>5, <3>6, <3>7 DEF Next, Step
    <2> QED
      BY <2>1, <2>2
  <1>3. TypeInv /\ TypeInv' /\ TrueInv /\ TrueInv' /\ ChunksSettled /\ Next => ChunksSettled'
    BY <1>2 DEF ChunksSettled, Chunks
  <1> QED
    BY <1>1, <1>3

-----------------------------------------------------------------------------
(* What rebuildFileParity has settled.                                     *)

\* a slot of a parity blob that rebuildFileParity has made whole or has still to visit
ParityDone(g, p, s) ==
  \/ parity[g][p][s] = TrueColumn(g)
  \/ pc # "done" /\ Ahead(g, p, s)

\* the numbers of a slot of a parity blob
LEMMA ParityPlace ==
  ASSUME TypeInv, NEW g \in Groups, NEW p \in 0 .. ParityOf(g) - 1, NEW s \in Slots
  PROVE  /\ g \in Nat /\ p \in Nat /\ p < ParityOf(g) /\ ParityOf(g) \in Nat
         /\ s \div WindowCols \in Nat /\ s \div WindowCols \in Windows
         /\ s \in WindowSlots(s \div WindowCols)
         /\ win \in Nat /\ grp \in Nat /\ par \in Nat
         /\ grp \notin Groups => g < grp
  <1>1. /\ s \div WindowCols \in Windows /\ Windows \subseteq Nat
        /\ s \in WindowSlots(s \div WindowCols)
    BY SlotInWindow, FirstWindow
  <1>2. /\ Groups = 0 .. GroupCount(ChunkCount) - 1 /\ GroupCount(ChunkCount) \in Nat
        /\ ParityOf(g) \in Nat
    BY GroupNumbers, GroupChunks
  <1>3. grp \in 0 .. GroupCount(ChunkCount) /\ win \in Windows /\ par \in Nat
    BY DEF TypeInv, PlaceInv
  <1>4. /\ g \in Nat /\ p \in Nat /\ p < ParityOf(g) /\ grp \in Nat
        /\ grp \notin Groups => g < grp
    BY <1>2, <1>3
  <1>5. s \div WindowCols \in Nat /\ win \in Nat
    <2>1. \A w \in Windows : w \in Nat
      BY <1>1
    <2> QED
      BY <1>1, <1>3, <2>1
  <1> QED
    BY <1>1, <1>2, <1>3, <1>4, <1>5

\* in pass 3 the groups that are complete are those without a lost chunk, and
\* their chunks are whole: the pass does not stop at one of them
LEMMA CompleteGroup ==
  ASSUME TypeInv, TrueInv, ChunksSettled, pc = "pass3", writes, quiet, corrupt = 0,
         NEW g \in Groups
  PROVE  /\ GroupComplete(g) <=> ChunksOf(g) \cap rep.lost = {}
         /\ GroupComplete(g) => \A i \in ChunksOf(g) : \A w \in Windows : DataWindowOK(i, w)
  <1>1. rep.lost = lostSet
    BY DEF TrueInv
  <1>2. Owed = {} /\ todo = {}
    BY NoTodo DEF Owed
  <1>3. ASSUME GroupComplete(g), NEW i \in ChunksOf(g), NEW w \in Windows
        PROVE  DataWindowOK(i, w)
    <2>1. i \in Chunks /\ i \notin rep.lost
      BY <1>1, <1>3 DEF GroupComplete, ChunksOf
    <2>2. Settled(i)
      BY <1>2, <2>1 DEF ChunksSettled, Passes
    <2>3. \A s \in Slots : data[i][s] = True
      BY <1>2, <2>2 DEF Settled
    <2> QED
      BY <2>3, TrueIsGood DEF DataWindowOK, WindowSlots
  <1> QED
    BY <1>1, <1>3 DEF GroupComplete

\* each step of the pass, for one slot of one parity blob
LEMMA ParityStep ==
  ASSUME Calmly, ChunksSettled, writes, quiet, rebuildParity,
         pc \in {"pass3", "pass3write"}, pc' \in {"pass3", "pass3write", "done"},
         NEW g \in Groups, NEW p \in 0 .. ParityOf(g) - 1, NEW s \in Slots,
         ChunksOf(g) \cap rep.lost = {}, ParityDone(g, p, s)
  PROVE  ParityDone(g, p, s)'
  <1> DEFINE v == s \div WindowCols
  <1>0. /\ TypeInv /\ TrueInv /\ PlaceInv /\ HandsTrue /\ corrupt = 0 /\ ~ Hit /\ ~ Corrupt
    BY CalmStep DEF Calmly
  <1>1. /\ g \in Nat /\ p \in Nat /\ p < ParityOf(g) /\ ParityOf(g) \in Nat
        /\ v \in Nat /\ v \in Windows /\ s \in WindowSlots(v)
        /\ win \in Nat /\ grp \in Nat /\ par \in Nat
        /\ grp \notin Groups => g < grp
    BY <1>0, ParityPlace
  <1>2. TrueColumn(g)' = TrueColumn(g) /\ v' = v
    BY DEF TrueColumn
  <1>3. ASSUME UNCHANGED parity, parity[g][p][s] = TrueColumn(g)
        PROVE  ParityDone(g, p, s)'
    BY <1>2, <1>3 DEF ParityDone
  <1>4. CASE Pass3SkipGroup
    <2>1. /\ pc = "pass3" /\ pc' = "pass3" /\ grp \in Groups /\ ~ GroupComplete(grp)
          /\ grp' = grp + 1 /\ win' = win /\ UNCHANGED parity /\ todo = {} /\ win = 0
      BY <1>0, <1>4, NoTodo DEF Pass3SkipGroup, PlaceInv, bodyVars
    <2>2. g # grp
      BY <1>0, <2>1, CompleteGroup
    <2>3. CASE parity[g][p][s] = TrueColumn(g)
      BY <1>3, <2>1, <2>3
    <2>4. CASE Ahead(g, p, s)
      <3>1. g > grp
        BY <2>2, <2>4 DEF Ahead
      <3>2. g > grp' \/ (g = grp' /\ (v > win' \/ v = win'))
        BY <1>1, <2>1, <3>1
      <3> QED
        BY <2>1, <3>2 DEF ParityDone, Ahead
    <2> QED
      BY <2>3, <2>4 DEF ParityDone
  <1>5. CASE Pass3ReadWindow
    <2>1. /\ pc = "pass3" /\ grp \in Groups /\ GroupComplete(grp) /\ UNCHANGED parity
          /\ grp' = grp /\ win' = win /\ todo = {}
      BY <1>0, <1>5, NoTodo DEF Pass3ReadWindow, bodyVars
    <2>2. \A i \in ChunksOf(grp) : DataWindowOK(i, win)
      BY <1>0, <2>1, CompleteGroup DEF PlaceInv
    <2>3. pc' = "pass3write" /\ par' = 0
      BY <1>5, <2>2 DEF Pass3ReadWindow
    <2>4. CASE parity[g][p][s] = TrueColumn(g)
      BY <1>3, <2>1, <2>4
    <2>5. CASE Ahead(g, p, s)
      <3>1. g > grp \/ (g = grp /\ (v > win \/ v = win))
        BY <2>5 DEF Ahead
      <3>2. p >= par'
        BY <1>1, <2>3
      <3> QED
        BY <2>1, <2>3, <3>1, <3>2 DEF ParityDone, Ahead
    <2> QED
      BY <2>4, <2>5 DEF ParityDone
  <1>6. CASE Pass3Parity
    <2>1. /\ pc = "pass3write" /\ pc' = pc /\ grp' = grp /\ win' = win /\ todo = {}
          /\ par' = par + 1 /\ UNCHANGED parity
          /\ todo' = {ParityWrite(par, r, cols[r]) :
                        r \in {q \in WindowSlots(win) : parity[grp][par][q] # cols[q]}}
      BY <1>6 DEF Pass3Parity, WillWrite, bodyVars
    <2>2. CASE parity[g][p][s] = TrueColumn(g)
      BY <1>3, <2>1, <2>2
    <2>3. CASE parity[g][p][s] # TrueColumn(g) /\ Ahead(g, p, s)
      <3>1. g > grp \/ (g = grp /\ (v > win \/ (v = win /\ p >= par)))
        BY <2>1, <2>3 DEF Ahead
      <3>2. ASSUME g = grp, v = win, p = par
            PROVE  ParityWrite(p, s, TrueColumn(g)) \in todo'
        <4>1. s \in WindowSlots(win)
          BY <1>1, <3>2
        <4>2. cols[s] = TrueColumn(g)
          BY <1>0, <2>1, <3>2, <4>1 DEF HandsTrue
        <4>3. ParityWrite(par, s, cols[s]) \in todo'
          BY <2>1, <2>3, <3>2, <4>1, <4>2
        <4> QED
          BY <3>2, <4>2, <4>3
      <3>3. p >= par => p >= par' \/ p = par
        BY <1>1, <2>1
      <3>4. \/ g > grp'
            \/ /\ g = grp'
               /\ v > win' \/ (v = win' /\ (p >= par'
                                 \/ ParityWrite(p, s, TrueColumn(g)) \in todo'))
        BY <2>1, <3>1, <3>2, <3>3
      <3> QED
        BY <1>2, <2>1, <3>4 DEF ParityDone, Ahead, ParityWrite
    <2> QED
      BY <2>2, <2>3 DEF ParityDone
  <1>7. CASE Pass3NextWindow
    <2>1. /\ pc = "pass3write" /\ pc' = "pass3" /\ todo = {} /\ par = ParityOf(grp)
          /\ UNCHANGED parity
          /\ \/ win + 1 \in Windows /\ win' = win + 1 /\ grp' = grp
             \/ win + 1 \notin Windows /\ win' = 0 /\ grp' = grp + 1
      BY <1>7 DEF Pass3NextWindow, bodyVars
    <2>2. CASE parity[g][p][s] = TrueColumn(g)
      BY <1>3, <2>1, <2>2
    <2>3. CASE Ahead(g, p, s)
      <3>1. g > grp \/ (g = grp /\ v > win)
        <4>1. g = grp => ~ (p >= par)
          BY <1>1, <2>1
        <4> QED
          BY <2>1, <2>3, <4>1 DEF Ahead
      <3>2. v > win => win + 1 \in Windows
        <4>1. v > win => win + 1 \in Nat /\ win + 1 <= v
          BY <1>1
        <4> QED
          BY <1>1, <4>1, WindowBelow
      <3>3. g > grp' \/ (g = grp' /\ (v > win' \/ v = win'))
        BY <1>1, <2>1, <3>1, <3>2
      <3> QED
        BY <2>1, <3>3 DEF ParityDone, Ahead
    <2> QED
      BY <2>2, <2>3 DEF ParityDone
  <1>8. CASE Pass3Ends
    <2>1. grp \notin Groups /\ UNCHANGED parity
      BY <1>8 DEF Pass3Ends, bodyVars
    <2>2. ~ Ahead(g, p, s)
      BY <1>1, <2>1 DEF Ahead
    <2> QED
      BY <1>3, <2>1, <2>2 DEF ParityDone
  <1>9. CASE WriteSlot
    <2>1. PICK t \in todo : SlotBecomes(t, t.v) /\ todo' = todo \ {t}
      BY <1>9 DEF WriteSlot
    <2>2. /\ pc = "pass3write" /\ t.to = "parity" /\ t.v = TrueColumn(grp)
      BY <1>0, <2>1, TodoKinds DEF HandsTrue
    <2>3. /\ UNCHANGED <<pc, grp, win, par>>
      BY <1>9 DEF WriteSlot, posVars
    <2>4. \A h \in Groups : \A q \in 0 .. ParityOf(h) - 1 : \A r \in Slots :
            parity'[h][q][r] = IF h = grp /\ q = t.i /\ r = t.s THEN t.v
                               ELSE parity[h][q][r]
      BY <1>0, <2>1, <2>2, SlotKept
    <2>5. CASE parity'[g][p][s] = TrueColumn(g)
      BY <1>2, <2>5 DEF ParityDone
    <2>6. CASE parity'[g][p][s] # TrueColumn(g)
      <3>1. ~ (g = grp /\ p = t.i /\ s = t.s) /\ parity[g][p][s] # TrueColumn(g)
        BY <2>2, <2>4, <2>6
      <3>2. Ahead(g, p, s)
        BY <3>1 DEF ParityDone
      <3>3. g = grp => ParityWrite(p, s, TrueColumn(g)) # t
        BY <3>1 DEF ParityWrite
      <3>4. \/ g > grp'
            \/ /\ g = grp'
               /\ v > win' \/ (v = win' /\ (p >= par'
                                 \/ ParityWrite(p, s, TrueColumn(g)) \in todo'))
        BY <2>1, <2>2, <2>3, <3>2, <3>3 DEF Ahead
      <3> QED
        BY <1>2, <2>2, <2>3, <3>4 DEF ParityDone, Ahead, ParityWrite
    <2> QED
      BY <2>5, <2>6
  <1>10. ~ Abort /\ \A a \in BOOLEAN, b \in BOOLEAN : ~ Start(a, b)
    BY DEF Abort, Start, Idle
  <1> QED
    BY <1>0, <1>4, <1>5, <1>6, <1>7, <1>8, <1>9, <1>10
    DEF Calmly, Next, Step, Pass1Chunk, Pass1Ends, Pass2Group, Pass2Ends

LEMMA ParitySettleStep ==
  TypeInv /\ TypeInv' /\ TrueInv /\ TrueInv' /\ ChunksSettled /\ ParitySettled /\ [Next]_vars
    => ParitySettled'
  <1>1. ASSUME TypeInv, ParitySettled, UNCHANGED vars
        PROVE  ParitySettled'
    BY <1>1 DEF ParitySettled, Ahead, ParityWrite, TrueColumn, vars, optVars, posVars,
      localVars, envVars, bodyVars, ChunksOf, Chunks, Groups, Slots, ParityOf, GroupOf
  <1>2. ASSUME TypeInv, TypeInv', TrueInv, TrueInv', ChunksSettled, ParitySettled, Next,
               pc' \in {"pass3", "pass3write", "done"}, writes', rebuildParity', quiet',
               corrupt' = 0, NEW g \in Groups, ChunksOf(g) \cap rep'.lost = {},
               NEW p \in 0 .. ParityOf(g) - 1, NEW s \in Slots
        PROVE  ParityDone(g, p, s)'
    <2>0. Calmly
      BY <1>2 DEF Calmly
    <2>1. \A w \in BOOLEAN, rp \in BOOLEAN : ~ Start(w, rp)
      BY <1>2 DEF Start
    <2>2. /\ quiet /\ corrupt = 0 /\ UNCHANGED <<writes, rebuildParity>> /\ ReportInv
          /\ ~ Hit /\ ~ Corrupt
      BY <2>0, <2>1, CalmStep
    <2>3. writes /\ rebuildParity
      BY <1>2, <2>2
    <2>4. CASE Pass2Ends
      <3>1. pc' = "pass3" /\ grp' = 0 /\ win' = 0
        <4>1. win = 0
          BY <1>2, <2>4 DEF TypeInv, PlaceInv, Pass2Ends
        <4> QED
          BY <2>3, <2>4, <4>1 DEF Pass2Ends
      <3>2. g \in Nat /\ s \div WindowCols \in Nat
        BY <1>2, ParityPlace
      <3>3. g > grp' \/ (g = grp' /\ (s \div WindowCols > win' \/ s \div WindowCols = win'))
        BY <3>1, <3>2
      <3> QED
        BY <3>1, <3>3 DEF ParityDone, Ahead
    <2>5. CASE pc \in {"pass3", "pass3write"}
      <3>1. rep'.lost = rep.lost
        <4>1. CASE Pass3Parity
          BY <2>2, <4>1 DEF Pass3Parity, ReportInv, ReportOK, ReportFields
        <4>2. CASE ~ Pass3Parity
          <5>1. rep' = rep
            BY <1>2, <2>1, <2>2, <2>5, <4>2 DEF Next, Step, Pass1Chunk, Pass1Ends, Pass2Group,
              Pass2Ends, Pass3SkipGroup, Pass3ReadWindow, Pass3NextWindow, Pass3Ends,
              WriteSlot, Abort
          <5> QED
            BY <5>1
        <4> QED
          BY <4>1, <4>2
      <3>2. ChunksOf(g) \cap rep.lost = {}
        BY <1>2, <3>1
      <3>3. ParityDone(g, p, s)
        BY <1>2, <2>2, <2>3, <2>5, <3>2 DEF ParitySettled, ParityDone
      <3> QED
        BY <1>2, <2>0, <2>2, <2>3, <2>5, <3>2, <3>3, ParityStep
    <2>6. pc \in {"pass3", "pass3write"} \/ Pass2Ends
      <3>1. ~ Abort
        BY <1>2 DEF Abort
      <3>2. ~ Pass1Chunk /\ ~ Pass1Ends /\ ~ Pass2Group
        BY <1>2 DEF Pass1Chunk, Pass1Ends, Pass2Group
      <3>3. WriteSlot => pc = "pass3write"
        <4>1. ASSUME WriteSlot
              PROVE  pc = "pass3write"
          <5>1. PICK t \in todo : TRUE
            BY <4>1 DEF WriteSlot
          <5>2. pc' = pc
            BY <4>1 DEF WriteSlot
          <5>3. pc \in {"pass1", "pass2", "pass3write"}
            BY <1>2, <5>1, TodoKinds
          <5> QED
            BY <1>2, <5>2, <5>3
        <4> QED
          BY <4>1
      <3>4. Pass3SkipGroup \/ Pass3ReadWindow \/ Pass3Parity \/ Pass3NextWindow \/ Pass3Ends
              => pc \in {"pass3", "pass3write"}
        BY DEF Pass3SkipGroup, Pass3ReadWindow, Pass3Parity, Pass3NextWindow, Pass3Ends
      <3> QED
        BY <1>2, <2>1, <2>2, <3>1, <3>2, <3>3, <3>4 DEF Next, Step
    <2> QED
      BY <2>4, <2>5, <2>6
  <1>3. TypeInv /\ TypeInv' /\ TrueInv /\ TrueInv' /\ ChunksSettled /\ ParitySettled /\ Next
          => ParitySettled'
    BY <1>2 DEF ParitySettled, ParityDone, Groups, ChunksOf, Chunks, GroupOf, ParityOf, Slots
  <1> QED
    BY <1>1, <1>3

\* what the passes have been through is settled
LEMMA Settling ==
  Spec => [](ChunksSettled /\ ParitySettled)
  <1>1. Init => ChunksSettled /\ ParitySettled
    BY DEF Init, ChunksSettled, ParitySettled, Passes
  <1> QED
    BY <1>1, Typed, Truthful, SettleStep, ParitySettleStep, PTL DEF Spec

\* ScrubHeals: a Scrub that returns, with no damage while it ran and none that the
\* tags do not detect, leaves every chunk it does not report lost whole and, when it
\* rebuilds the parity, the parity of every group without a lost chunk too
THEOREM ScrubRestoresRedundancy ==
  Spec => []ScrubHeals
  <1>1. TypeInv /\ ChunksSettled /\ ParitySettled => ScrubHeals
    <2> SUFFICES ASSUME TypeInv, ChunksSettled, ParitySettled,
                        pc = "done", writes, quiet, corrupt = 0
                 PROVE  /\ \A i \in Chunks \ rep.lost : \A s \in Slots : data[i][s] = True
                        /\ rebuildParity =>
                             \A g \in Groups : ChunksOf(g) \cap rep.lost = {} =>
                               \A p \in 0 .. ParityOf(g) - 1 : \A s \in Slots :
                                 parity[g][p][s] = TrueColumn(g)
      BY DEF ScrubHeals
    <2>1. Owed = {} /\ todo = {}
      BY NoTodo DEF Owed
    <2>2. ASSUME NEW i \in Chunks \ rep.lost
          PROVE  \A s \in Slots : data[i][s] = True
      <3>1. Settled(i)
        BY <2>1 DEF ChunksSettled
      <3> QED
        BY <2>1, <3>1 DEF Settled
    <2> QED
      BY <2>2 DEF ParitySettled
  <1> QED
    BY <1>1, Typed, Settling, PTL

\* UnreadableIsReported: after a Verify or a Scrub with no damage while it ran and
\* none that the tags do not detect, a chunk that is not reported lost can be read
THEOREM NoUnreportedLoss ==
  Spec => []UnreadableIsReported
  <1>1. TypeInv /\ ChunksSettled => UnreadableIsReported
    <2> SUFFICES ASSUME TypeInv, ChunksSettled, pc = "done", quiet, corrupt = 0,
                        NEW i \in Chunks, i \notin rep.lost
                 PROVE  Loads(i)
      BY DEF UnreadableIsReported
    <2>1. Owed = {} /\ todo = {}
      BY NoTodo DEF Owed
    <2>2. Settled(i)
      BY <2>1 DEF ChunksSettled
    <2>3. CASE writes
      <3>1. \A s \in Slots : data[i][s] = True
        BY <2>1, <2>2, <2>3 DEF Settled
      <3>2. BadSlots(data[i]) = {}
        BY <3>1, TrueIsGood DEF BadSlots
      <3> QED
        BY <3>1, <3>2, TrueDecodes DEF Loads
    <2> QED
      BY <2>2, <2>3 DEF Settled
  <1> QED
    BY <1>1, Typed, Settling, PTL

-----------------------------------------------------------------------------
(* What redundancy is left.  As long as the tags detect every damage, only *)
(* Hit damages a blob, and one at a time.                                  *)
HitData == {i \in Chunks : \E s \in Slots : data[i][s] = Bad}
HitParity(g) == {p \in 0 .. ParityOf(g) - 1 : \E s \in Slots : parity[g][p][s] = BadColumn}

DataTagged(A) == {<<"data", i>> : i \in A}
ParityTagged(g, B) == {<<"parity", g, p>> : p \in B}
HitBlobs == DataTagged(HitData) \cup UNION {ParityTagged(g, HitParity(g)) : g \in Groups}

DamageInv ==
  corrupt = 0 => IsFiniteSet(HitBlobs) /\ Cardinality(HitBlobs) <= hits

\* where nothing is damaged that was not before, no blob is
LEMMA SparedBlobs ==
  ASSUME NoNewDamage
  PROVE  HitBlobs' \subseteq HitBlobs
  <1>1. HitData' \subseteq HitData
    BY DEF HitData, NoNewDamage, Chunks, Slots
  <1>2. \A g \in Groups : HitParity(g)' \subseteq HitParity(g)
    BY DEF HitParity, NoNewDamage, ParityOf, Slots
  <1>3. Groups' = Groups
    BY DEF Groups
  <1> QED
    BY <1>1, <1>2, <1>3 DEF HitBlobs, DataTagged, ParityTagged

\* Hit damages one
LEMMA OneBlobHit ==
  ASSUME BodyInv, Hit
  PROVE  \E b : HitBlobs' \subseteq HitBlobs \cup {b}
  <1>1. ASSUME NEW S, NEW i \in Chunks, DataHit(S, i)
        PROVE  HitBlobs' \subseteq HitBlobs \cup {<<"data", i>>}
    <2>1. \A j \in Chunks \ {i} : data'[j] = data[j]
      BY <1>1 DEF DataHit, BodyInv
    <2>2. HitData' \subseteq HitData \cup {i}
      BY <2>1 DEF HitData, Chunks, Slots
    <2>3. \A g \in Groups : HitParity(g)' = HitParity(g)
      BY <1>1 DEF DataHit, HitParity, ParityOf, Slots
    <2>4. Groups' = Groups
      BY DEF Groups
    <2> QED
      BY <2>2, <2>3, <2>4 DEF HitBlobs, DataTagged, ParityTagged
  <1>2. ASSUME NEW S, NEW g \in Groups, NEW p \in 0 .. ParityOf(g) - 1,
               ParityHit(S, g, p)
        PROVE  HitBlobs' \subseteq HitBlobs \cup {<<"parity", g, p>>}
    <2>1. ASSUME NEW h \in Groups, NEW q \in 0 .. ParityOf(h) - 1, h # g \/ q # p
          PROVE  parity'[h][q] = parity[h][q]
      <3>1. CASE h # g
        BY <1>2, <3>1 DEF ParityHit, BodyInv
      <3>2. CASE h = g
        <4>1. parity'[g] = [parity[g] EXCEPT ![p] =
                   [r \in Slots |-> IF r \in S THEN BadColumn ELSE parity[g][p][r]]]
          BY <1>2 DEF ParityHit, BodyInv
        <4>2. DOMAIN parity[g] = 0 .. ParityOf(g) - 1
          BY DEF BodyInv
        <4> QED
          BY <2>1, <3>2, <4>1, <4>2
      <3> QED
        BY <3>1, <3>2
    <2>2. HitData' = HitData
      BY <1>2 DEF ParityHit, HitData, Chunks, Slots
    <2>3. \A h \in Groups : \A q \in HitParity(h)' : q \in HitParity(h) \/ (h = g /\ q = p)
      BY <2>1 DEF HitParity, ParityOf, Slots
    <2>4. Groups' = Groups
      BY DEF Groups
    <2> QED
      BY <2>2, <2>3, <2>4 DEF HitBlobs, DataTagged, ParityTagged
  <1>3. PICK S \in (SUBSET Slots) \ {{}} :
          \/ \E i \in Chunks : DataHit(S, i)
          \/ \E g \in Groups : \E p \in 0 .. ParityOf(g) - 1 : ParityHit(S, g, p)
    BY HitKinds
  <1>4. CASE \E i \in Chunks : DataHit(S, i)
    <2>1. PICK i \in Chunks : DataHit(S, i)
      BY <1>4
    <2>2. HitBlobs' \subseteq HitBlobs \cup {<<"data", i>>}
      BY <1>1, <2>1
    <2> QED
      BY <2>2
  <1>5. CASE \E g \in Groups : \E p \in 0 .. ParityOf(g) - 1 : ParityHit(S, g, p)
    <2>1. PICK g \in Groups : \E p \in 0 .. ParityOf(g) - 1 : ParityHit(S, g, p)
      BY <1>5
    <2>2. PICK p \in 0 .. ParityOf(g) - 1 : ParityHit(S, g, p)
      BY <2>1
    <2>3. HitBlobs' \subseteq HitBlobs \cup {<<"parity", g, p>>}
      BY <1>2, <2>2
    <2> QED
      BY <2>3
  <1> QED
    BY <1>3, <1>4, <1>5

LEMMA DamageStep ==
  TypeInv /\ TrueInv /\ DamageInv /\ [Next]_vars => DamageInv'
  <1> SUFFICES ASSUME TypeInv, TrueInv, DamageInv, [Next]_vars, corrupt' = 0
               PROVE  IsFiniteSet(HitBlobs') /\ Cardinality(HitBlobs') <= hits'
    BY DEF DamageInv
  <1>1. ~ Corrupt /\ hits \in Nat
    BY ScrubAssumption DEF Corrupt, TypeInv, RunInv
  <1>2. corrupt = 0
    BY <1>1, NewCorruption
  <1>3. BodyInv /\ Forgeless /\ HandsTrue /\ IsFiniteSet(HitBlobs) /\ Cardinality(HitBlobs) <= hits
    BY <1>2 DEF TypeInv, TrueInv, DamageInv
  <1>4. CASE Hit
    <2>1. PICK b : HitBlobs' \subseteq HitBlobs \cup {b}
      BY <1>3, <1>4, OneBlobHit
    <2>2. /\ IsFiniteSet(HitBlobs \cup {b}) /\ Cardinality(HitBlobs) \in Nat
          /\ Cardinality(HitBlobs \cup {b}) \in {Cardinality(HitBlobs), Cardinality(HitBlobs) + 1}
      BY <1>3, FS_AddElement, FS_CardinalityType
    <2>3. /\ IsFiniteSet(HitBlobs')
          /\ Cardinality(HitBlobs') <= Cardinality(HitBlobs \cup {b})
          /\ Cardinality(HitBlobs') \in Nat
      BY <2>1, <2>2, FS_Subset, FS_CardinalityType
    <2>4. hits' = hits + 1
      BY <1>4 DEF Hit
    <2> QED
      BY <1>1, <1>3, <2>2, <2>3, <2>4
  <1>5. CASE ~ Hit
    <2>1. HitBlobs' \subseteq HitBlobs
      <3>1. CASE Next
        BY <1>1, <1>3, <1>5, <3>1, RunSpares, SparedBlobs
      <3>2. CASE UNCHANGED vars
        BY <3>2 DEF vars, bodyVars, HitBlobs, DataTagged, ParityTagged, HitData, HitParity,
                    Groups, Chunks, Slots, ParityOf
      <3> QED
        BY <3>1, <3>2
    <2>2. hits' = hits
      BY <1>1, <1>5 DEF Next, Step, Start, Pass1Chunk, Pass1Ends, Pass2Group, Pass2Ends,
        Pass3SkipGroup, Pass3ReadWindow, Pass3Parity, Pass3NextWindow, Pass3Ends, WriteSlot,
        Abort, vars, envVars
    <2>3. /\ IsFiniteSet(HitBlobs')
          /\ Cardinality(HitBlobs') \in Nat /\ Cardinality(HitBlobs) \in Nat
          /\ Cardinality(HitBlobs') <= Cardinality(HitBlobs)
      BY <1>3, <2>1, FS_Subset, FS_CardinalityType
    <2> QED
      BY <1>1, <1>3, <2>2, <2>3
  <1> QED
    BY <1>4, <1>5

\* the pairs and triples that stand for blobs are as many as the blobs
LEMMA Tagged ==
  ASSUME NEW A, NEW B, NEW g, IsFiniteSet(A), IsFiniteSet(B)
  PROVE  /\ IsFiniteSet(DataTagged(A) \cup ParityTagged(g, B))
         /\ Cardinality(DataTagged(A) \cup ParityTagged(g, B)) = Cardinality(A) + Cardinality(B)
  <1> DEFINE D == {<<"data", i>> : i \in A}
             R == {<<"parity", g, p>> : p \in B}
             f == [i \in A |-> <<"data", i>>]
             h == [p \in B |-> <<"parity", g, p>>]
  <1>1. f \in Bijection(A, D)
    <2>1. f \in [A -> D] /\ \A i, j \in A : f[i] = f[j] => i = j
      OBVIOUS
    <2>2. \A d \in D : \E i \in A : f[i] = d
      OBVIOUS
    <2> HIDE DEF f, D
    <2> QED
      BY <2>1, <2>2 DEF Bijection, Injection, IsInjective, Surjection
  <1>2. h \in Bijection(B, R)
    <2>1. h \in [B -> R] /\ \A p, q \in B : h[p] = h[q] => p = q
      OBVIOUS
    <2>2. \A d \in R : \E p \in B : h[p] = d
      OBVIOUS
    <2> HIDE DEF h, R
    <2> QED
      BY <2>1, <2>2 DEF Bijection, Injection, IsInjective, Surjection
  <1>3. D \cap R = {}
    OBVIOUS
  <1> HIDE DEF D, R, f, h
  <1>4. IsFiniteSet(D) /\ Cardinality(D) = Cardinality(A)
    <2>1. ExistsBijection(A, D)
      BY <1>1 DEF ExistsBijection
    <2> QED
      BY <2>1, FS_Bijection
  <1>5. IsFiniteSet(R) /\ Cardinality(R) = Cardinality(B)
    <2>1. ExistsBijection(B, R)
      BY <1>2 DEF ExistsBijection
    <2> QED
      BY <2>1, FS_Bijection
  <1>6. /\ IsFiniteSet(D \cup R)
        /\ Cardinality(D \cup R) = Cardinality(D) + Cardinality(R) - Cardinality(D \cap R)
    BY <1>4, <1>5, FS_Union
  <1>7. Cardinality(D \cap R) = 0 /\ Cardinality(D) \in Nat /\ Cardinality(R) \in Nat
    BY <1>3, <1>4, <1>5, FS_EmptySet, FS_CardinalityType
  <1>8. Cardinality(D \cup R) = Cardinality(A) + Cardinality(B)
    BY <1>4, <1>5, <1>6, <1>7
  <1> QED
    BY <1>6, <1>8 DEF D, R, DataTagged, ParityTagged

\* a blob whose tags fail somewhere counts once among the erasures of each window
\* at most, so the erasures are no more than the blobs that were hit
LEMMA FewErasures ==
  ASSUME BodyInv, IsFiniteSet(HitBlobs), NEW g \in Groups, NEW i \in ChunksOf(g) \cap HitData,
         NEW w \in Windows
  PROVE  Erasures(g, {i}, w) <= Cardinality(HitBlobs)
  <1> DEFINE UD == UsableData(g, {i}, w)
             UP == UsableParity(g, w)
             Q == 0 .. ParityOf(g) - 1
             A == ChunksOf(g) \ UD
             B == Q \ UP
             H == DataTagged(A) \cup ParityTagged(g, B)
  <1>1. /\ IsFiniteSet(ChunksOf(g)) /\ Cardinality(ChunksOf(g)) = DataChunks(g)
        /\ DataChunks(g) \in Nat /\ ParityOf(g) \in Nat
        /\ ChunksOf(g) \subseteq Chunks
    BY GroupHolds, GroupChunks
  <1>2. IsFiniteSet(Q) /\ Cardinality(Q) = ParityOf(g)
    <2>1. 0 \in Int /\ ParityOf(g) - 1 \in Int
      BY <1>1
    <2>2. CASE ParityOf(g) = 0
      <3>1. Q = {}
        BY <2>2
      <3> QED
        BY <2>2, <3>1, FS_EmptySet
    <2>3. CASE ParityOf(g) # 0
      <3>1. ~ (0 > ParityOf(g) - 1) /\ ParityOf(g) - 1 - 0 + 1 = ParityOf(g)
        BY <1>1, <2>3
      <3> QED
        BY <2>1, <3>1, FS_Interval
    <2> QED
      BY <2>2, <2>3
  <1>3. UD \subseteq ChunksOf(g) /\ UP \subseteq Q
    BY DEF UsableData, UsableParity
  <1>4. A \subseteq HitData
    <2> SUFFICES ASSUME NEW j \in ChunksOf(g), j \notin UD PROVE j \in HitData
      OBVIOUS
    <2>1. CASE j = i
      BY <2>1
    <2>2. CASE j # i
      BY <1>1, <2>2 DEF UsableData, DataWindowOK, WindowSlots, HitData
    <2> QED
      BY <2>1, <2>2
  <1>5. B \subseteq HitParity(g)
    BY DEF UsableParity, ParityWindowOK, WindowSlots, HitParity
  <1>6. H \subseteq HitBlobs
    <2>1. \A j \in A : <<"data", j>> \in HitBlobs
      BY <1>4 DEF HitBlobs, DataTagged, ParityTagged
    <2>2. \A p \in B : <<"parity", g, p>> \in HitBlobs
      BY <1>5 DEF HitBlobs, DataTagged, ParityTagged
    <2> HIDE DEF A, B
    <2> QED
      BY <2>1, <2>2 DEF DataTagged, ParityTagged
  <1> HIDE DEF UD, UP, Q
  <1>7. /\ IsFiniteSet(A) /\ IsFiniteSet(UD) /\ Cardinality(UD) \in Nat
        /\ Cardinality(A) = DataChunks(g) - Cardinality(UD)
    <2>1. ChunksOf(g) \cap UD = UD
      BY <1>3
    <2>2. /\ IsFiniteSet(A)
          /\ Cardinality(A) = Cardinality(ChunksOf(g)) - Cardinality(ChunksOf(g) \cap UD)
      BY <1>1, FS_Difference
    <2>3. IsFiniteSet(UD) /\ Cardinality(UD) \in Nat
      BY <1>1, <1>3, FS_Subset, FS_CardinalityType
    <2> QED
      BY <1>1, <2>1, <2>2, <2>3
  <1>8. /\ IsFiniteSet(B) /\ IsFiniteSet(UP) /\ Cardinality(UP) \in Nat
        /\ Cardinality(B) = ParityOf(g) - Cardinality(UP)
    <2>1. Q \cap UP = UP
      BY <1>3
    <2>2. /\ IsFiniteSet(B)
          /\ Cardinality(B) = Cardinality(Q) - Cardinality(Q \cap UP)
      BY <1>2, FS_Difference
    <2>3. IsFiniteSet(UP) /\ Cardinality(UP) \in Nat
      BY <1>2, <1>3, FS_Subset, FS_CardinalityType
    <2> QED
      BY <1>2, <2>1, <2>2, <2>3
  <1> HIDE DEF A, B
  <1>9. IsFiniteSet(H) /\ Cardinality(H) = Cardinality(A) + Cardinality(B)
    <2>1. IsFiniteSet(A) /\ IsFiniteSet(B)
      BY <1>7, <1>8
    <2> QED
      BY <2>1, Tagged
  <1>10. Cardinality(H) <= Cardinality(HitBlobs)
    BY <1>6, FS_Subset
  <1>11. Erasures(g, {i}, w) = DataChunks(g) + ParityOf(g) - Cardinality(UD) - Cardinality(UP)
    BY DEF Erasures, UD, UP
  <1>12. Erasures(g, {i}, w) = Cardinality(H)
    BY <1>1, <1>7, <1>8, <1>9, <1>11
  <1> QED
    BY <1>10, <1>12

\* VaultSurvives: a vault whose tags detect every damage loads every chunk of a group
\* as long as no more blobs were hit than the group has parity blobs, whatever scrubs
\* ran, wherever they were cut short and whenever the damage came
THEOREM VaultSurvivesHits ==
  Spec => []VaultSurvives
  <1>1. TypeInv /\ TrueInv /\ DamageInv => VaultSurvives
    <2> SUFFICES ASSUME TypeInv, TrueInv, DamageInv, corrupt = 0, NEW i \in Chunks,
                        hits <= ParityOf(GroupOf(i))
                 PROVE  Loads(i)
      BY DEF VaultSurvives
    <2> DEFINE g == GroupOf(i)
    <2>1. BodyInv /\ Forgeless /\ IsFiniteSet(HitBlobs) /\ Cardinality(HitBlobs) <= hits
      BY DEF TypeInv, TrueInv, DamageInv
    <2>2. g \in Groups /\ i \in ChunksOf(g) /\ ParityOf(g) \in Nat
      BY GroupOfChunk, GroupChunks
    <2>3. hits \in Nat /\ Cardinality(HitBlobs) \in Nat
      BY <2>1, ScrubAssumption, FS_CardinalityType DEF TypeInv, RunInv
    <2>4. CASE i \in HitData
      <3>1. <<"data", i>> \in HitBlobs
        BY <2>4 DEF HitBlobs, DataTagged, ParityTagged
      <3>2. Cardinality(HitBlobs) # 0
        BY <2>1, <3>1, FS_EmptySet
      <3>3. Cardinality({i}) = 1
        BY FS_Singleton
      <3>4. Cardinality({i}) \in 1 .. ParityOf(g)
        BY <2>1, <2>2, <2>3, <3>2, <3>3
      <3>5. ASSUME NEW w \in Windows
            PROVE  Erasures(g, {i}, w) <= ParityOf(g)
        <4>1. Erasures(g, {i}, w) <= Cardinality(HitBlobs)
          BY <2>1, <2>2, <2>4, FewErasures
        <4>2. Erasures(g, {i}, w) \in Int
          BY <2>2, UsableFinite, FS_CardinalityType DEF Erasures
        <4> QED
          BY <2>1, <2>2, <2>3, <4>1, <4>2
      <3>6. CanRebuild(g, {i})
        BY <3>4, <3>5 DEF CanRebuild
      <3> QED
        BY <2>1, <3>6, LoadsReadable DEF Readable
    <2>5. CASE i \notin HitData
      <3>1. BadSlots(data[i]) = {}
        BY <2>5 DEF BadSlots, HitData
      <3>2. Cardinality(BadSlots(data[i])) <= ParityShards
        BY <3>1, FS_EmptySet, ContainerAssumption
      <3> QED
        BY <2>1, <3>2, LoadsReadable DEF Readable
    <2> QED
      BY <2>4, <2>5
  <1>2. Init => DamageInv
    <2> SUFFICES ASSUME Init PROVE HitBlobs = {} /\ hits = 0
      BY FS_EmptySet DEF DamageInv
    <2>1. HitData = {}
      BY TrueIsGood DEF HitData, Init, IntactBody
    <2>2. \A g \in Groups : HitParity(g) = {}
      BY TrueIsGood DEF HitParity, Init, IntactBody
    <2> QED
      BY <2>1, <2>2 DEF HitBlobs, DataTagged, ParityTagged, Init
  <1> QED
    BY <1>1, <1>2, Typed, Truthful, DamageStep, PTL DEF Spec

=============================================================================
