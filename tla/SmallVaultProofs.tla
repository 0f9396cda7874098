-------------------------- MODULE SmallVaultProofs --------------------------
(***************************************************************************)
(* The code of an rs-strong vault, and on it the properties of the         *)
(* small-file vaults.                                                      *)
(*                                                                         *)
(* What decoding an rs-strong vault needs of the code and of the layout:   *)
(* the decoder always finds as many sources as it needs, these have one    *)
(* codeword, and the slots that the header and the ciphertext use are data *)
(* slots.  The counting of the sources: the rank of a slot among the good  *)
(* ones is a bijection, and the sources are the slots of the first KStrong *)
(* ranks.                                                                  *)
(***************************************************************************)
EXTENDS SmallVaultProps, FiniteSetTheorems, SequenceTheorems, TLAPS

-----------------------------------------------------------------------------
(* The layout.                                                             *)

\* a multiple of d that is at least n has a factor of at least ceil(n / d)
LEMMA CeilBound ==
  ASSUME NEW d \in Nat \ {0}, NEW n \in Nat, NEW q \in Nat, n <= q * d
  PROVE  CeilDiv(n, d) <= q
  <1> DEFINE m == n + d - 1
  <1>1. m \in Nat /\ m \div d \in Nat /\ (m \div d) * d <= m
    BY SMT
  <1>2. ~(q < m \div d)
    <2> SUFFICES ASSUME q + 1 <= m \div d PROVE FALSE
      BY <1>1, SMT
    <2>1. (m \div d - (q + 1)) * d >= 0
      BY <1>1, SMT
    <2>2. (m \div d - (q + 1)) * d = (m \div d) * d - (q * d + d) /\ q * d \in Nat
      BY <1>1, SMT
    <2> QED
      BY <1>1, <2>1, <2>2, SMT
  <1> QED
    BY <1>1, <1>2, SMT DEF CeilDiv

\* ceil(n / d) is enough
LEMMA CeilCovers ==
  ASSUME NEW d \in Nat \ {0}, NEW n \in Nat \ {0}
  PROVE  CeilDiv(n, d) \in Nat \ {0} /\ n <= CeilDiv(n, d) * d
  <1> DEFINE m == n + d - 1
  <1>1. m \in Nat /\ m \div d \in Nat /\ m = (m \div d) * d + (m % d) /\ m % d <= d - 1
    BY SMT
  <1>2. m \div d # 0
    BY <1>1, SMT
  <1> QED
    BY <1>1, <1>2, SMT DEF CeilDiv

(* The used slots are data slots: they are among the first KStrong.        *)
LEMMA UsedAreData ==
  ASSUME NEW n \in Nat
  PROVE  /\ StrongShardSize(n) \in Nat \ {0}
         /\ UsedSlots(n) \in 1 .. KStrong
  <1> DEFINE d == StrongDataLen(n)
             sh == StrongShardSize(n)
  <1>1. d \in Nat \ {0} /\ KStrong \in Nat \ {0}
    BY SmallLayoutAssumption, SMT DEF StrongDataLen
  <1>2. sh \in Nat \ {0} /\ d <= sh * KStrong
    BY <1>1, CeilCovers, Zenon DEF StrongShardSize
  <1>3. d <= KStrong * sh
    BY <1>1, <1>2, SMT
  <1> HIDE DEF d, sh
  <1>4. CeilDiv(d, sh) \in Nat \ {0}
    BY <1>1, <1>2, CeilCovers, Zenon
  <1>5. CeilDiv(d, sh) <= KStrong
    <2>1. d \in Nat /\ KStrong \in Nat
      BY <1>1, SMT
    <2> QED
      BY <1>2, <1>3, <2>1, CeilBound, Zenon
  <1>6. UsedSlots(n) = CeilDiv(d, sh) /\ StrongShardSize(n) = sh
    BY Zenon DEF UsedSlots, d, sh
  <1> QED
    BY <1>1, <1>2, <1>4, <1>5, <1>6, SMT

-----------------------------------------------------------------------------
(* Counting slots.                                                         *)

LEMMA SlotsFinite ==
  /\ StrongSlots \in Nat
  /\ IsFiniteSet(Slots) /\ Cardinality(Slots) = StrongSlots
  /\ \A S \in SUBSET Slots : IsFiniteSet(S) /\ Cardinality(S) \in 0 .. StrongSlots
  <1>1. StrongSlots \in Nat \ {0}
    BY SmallLayoutAssumption, SMT DEF StrongSlots
  <1>2. IsFiniteSet(Slots) /\ Cardinality(Slots) = StrongSlots
    BY <1>1, FS_Interval, SMT DEF Slots
  <1>3. ASSUME NEW S \in SUBSET Slots
        PROVE  IsFiniteSet(S) /\ Cardinality(S) \in 0 .. StrongSlots
    <2>1. IsFiniteSet(S) /\ Cardinality(S) <= StrongSlots
      BY <1>2, FS_Subset, Zenon
    <2>2. Cardinality(S) \in Nat
      BY <2>1, FS_CardinalityType, Zenon
    <2> QED
      BY <1>1, <2>1, <2>2, SMT
  <1> QED
    BY <1>1, <1>2, <1>3, Zenon

(* A slot is good or bad, so at most MStrong bad ones leave enough.        *)
LEMMA GoodAndBad ==
  ASSUME NEW s
  PROVE  /\ GoodSlots(s) \in SUBSET Slots /\ BadSlots(s) \in SUBSET Slots
         /\ BadSlots(s) = {i \in Slots : s[i] = Bad}
         /\ Cardinality(BadSlots(s)) \in Nat
         /\ Cardinality(BadSlots(s)) = 0 <=> BadSlots(s) = {}
         /\ Cardinality(BadSlots(s)) <= MStrong
              => Cardinality(GoodSlots(s)) >= KStrong
  <1> DEFINE G == GoodSlots(s)
             B == BadSlots(s)
  <1>1. G \in SUBSET Slots /\ B \in SUBSET Slots /\ B = {i \in Slots : s[i] = Bad}
    BY Zenon DEF GoodSlots, BadSlots
  <1>2. /\ IsFiniteSet(B) /\ Cardinality(B) \in 0 .. StrongSlots
        /\ IsFiniteSet(G) /\ Cardinality(G) \in 0 .. StrongSlots
    BY <1>1, SlotsFinite, Zenon
  <1>3. Slots \cap G = G /\ B = Slots \ G
    BY <1>1, Zenon DEF BadSlots
  <1>4. Cardinality(B) = StrongSlots - Cardinality(G)
    BY <1>3, SlotsFinite, FS_Difference, SMT
  <1>5. Cardinality(B) = 0 <=> B = {}
    BY <1>2, FS_EmptySet, Zenon
  <1> HIDE DEF G, B
  <1>6. Cardinality(B) <= MStrong => Cardinality(G) >= KStrong
    BY <1>2, <1>4, SmallLayoutAssumption, SMT DEF StrongSlots
  <1>7. Cardinality(B) \in Nat
    BY <1>2, SMT
  <1> QED
    BY <1>1, <1>5, <1>6, <1>7, Zenon DEF G, B

\* the slots of G up to i; their number is the rank of i in G
UpTo(G, i) == {j \in G : j <= i}
Rank(G) == [i \in G |-> Cardinality(UpTo(G, i))]

\* ranks are a bijection
LEMMA RankBijection ==
  ASSUME NEW G \in SUBSET Slots
  PROVE  Rank(G) \in Bijection(G, 1 .. Cardinality(G))
  <1> DEFINE n == Cardinality(G)
             r == Rank(G)
  <1>1. IsFiniteSet(G) /\ n \in Nat /\ G \subseteq Int
    <2>1. IsFiniteSet(G) /\ n \in 0 .. StrongSlots
      BY SlotsFinite, Zenon
    <2> QED
      BY <2>1, SlotsFinite, SMT DEF Slots
  <1>2. ASSUME NEW i \in G
        PROVE  /\ IsFiniteSet(UpTo(G, i)) /\ Cardinality(UpTo(G, i)) \in 1 .. n
    <2>1. UpTo(G, i) \in SUBSET G
      BY Zenon DEF UpTo
    <2>2. IsFiniteSet(UpTo(G, i)) /\ Cardinality(UpTo(G, i)) <= n
      BY <1>1, <2>1, FS_Subset, Zenon
    <2>3. i \in UpTo(G, i)
      BY <1>1, SMT DEF UpTo
    <2>4. Cardinality(UpTo(G, i)) \in Nat /\ Cardinality(UpTo(G, i)) # 0
      BY <2>2, <2>3, FS_CardinalityType, FS_EmptySet, Zenon
    <2> QED
      BY <1>1, <2>2, <2>4, SMT
  <1>3. r \in [G -> 1 .. n]
    BY <1>2, Zenon DEF Rank
  <1>4. ASSUME NEW i \in G, NEW j \in G, i < j
        PROVE  r[i] # r[j]
    <2>1. j \notin UpTo(G, i) /\ UpTo(G, i) \cup {j} \in SUBSET UpTo(G, j)
      <3>1. \A k \in G : k <= i => k <= j
        BY <1>1, <1>4, SMT
      <3>2. ~(j <= i) /\ j <= j
        BY <1>1, <1>4, SMT
      <3> QED
        BY <3>1, <3>2, Zenon DEF UpTo
    <2>2. Cardinality(UpTo(G, i) \cup {j}) = Cardinality(UpTo(G, i)) + 1
      BY <1>2, <2>1, FS_AddElement, Zenon
    <2>3. Cardinality(UpTo(G, i) \cup {j}) <= Cardinality(UpTo(G, j))
      BY <1>2, <2>1, FS_Subset, Zenon
    <2>4. Cardinality(UpTo(G, i)) \in 1 .. n /\ Cardinality(UpTo(G, j)) \in 1 .. n
      BY <1>2, Zenon
    <2>5. Cardinality(UpTo(G, i)) # Cardinality(UpTo(G, j))
      BY <1>1, <2>2, <2>3, <2>4, SMT
    <2> QED
      BY <2>5, Zenon DEF Rank
  <1>5. \A i \in G, j \in G : r[i] = r[j] => i = j
    <2> SUFFICES ASSUME NEW i \in G, NEW j \in G, i # j PROVE r[i] # r[j]
      BY Zenon
    <2>1. i < j \/ j < i
      BY <1>1, SMT
    <2> QED
      BY <1>4, <2>1, Zenon
  <1>6. r \in Injection(G, 1 .. n)
    BY <1>3, <1>5, Zenon DEF Injection, IsInjective
  <1>7. IsFiniteSet(1 .. n) /\ Cardinality(1 .. n) = n
    BY <1>1, FS_Interval, SMT
  <1>8. r \in Surjection(G, 1 .. n)
    BY <1>1, <1>6, <1>7, FS_Injection, Zenon
  <1> QED
    BY <1>6, <1>8, Zenon DEF Bijection

(* The decoder has exactly KStrong sources when it has KStrong slots.      *)
LEMMA SourcesCount ==
  ASSUME NEW s, Cardinality(GoodSlots(s)) >= KStrong
  PROVE  /\ Sources(s) \in SUBSET GoodSlots(s)
         /\ Sources(s) \in SUBSET Slots
         /\ Cardinality(Sources(s)) = KStrong
  <1> DEFINE G == GoodSlots(s)
             S == Sources(s)
             n == Cardinality(G)
             r == Rank(G)
             q == [i \in S |-> r[i]]
  <1>1. G \in SUBSET Slots /\ n \in Nat /\ n >= KStrong /\ KStrong \in Nat \ {0}
    <2>1. G \in SUBSET Slots
      BY Zenon DEF GoodSlots
    <2>2. n \in 0 .. StrongSlots
      BY <2>1, SlotsFinite, Zenon
    <2> QED
      BY <2>1, <2>2, SlotsFinite, SmallLayoutAssumption, SMT
  <1>2. r \in Bijection(G, 1 .. n)
    BY <1>1, RankBijection, Zenon
  <1>3. S = {i \in G : r[i] <= KStrong}
    BY Zenon DEF Sources, Rank, UpTo
  <1> HIDE DEF G, S, n, r
  <1>4. /\ r \in [G -> 1 .. n]
        /\ \A i \in G, j \in G : r[i] = r[j] => i = j
        /\ \A k \in 1 .. n : \E i \in G : r[i] = k
    BY <1>2, Zenon DEF Bijection, Injection, IsInjective, Surjection
  <1>5. q \in [S -> 1 .. KStrong]
    <2> SUFFICES ASSUME NEW i \in S PROVE r[i] \in 1 .. KStrong
      BY Zenon
    <2>1. r[i] \in 1 .. n /\ r[i] <= KStrong
      BY <1>3, <1>4, Zenon
    <2> QED
      BY <1>1, <2>1, SMT
  <1>6. \A i \in S, j \in S : q[i] = q[j] => i = j
    BY <1>3, <1>4, Zenon
  <1>7. \A k \in 1 .. KStrong : \E i \in S : q[i] = k
    <2> SUFFICES ASSUME NEW k \in 1 .. KStrong PROVE \E i \in S : q[i] = k
      BY Zenon
    <2>1. k \in 1 .. n /\ k <= KStrong
      BY <1>1, SMT
    <2>2. PICK i \in G : r[i] = k
      BY <1>4, <2>1, Zenon
    <2>3. i \in S
      BY <1>3, <2>1, <2>2, Zenon
    <2> QED
      BY <2>2, <2>3, Zenon
  <1>8. q \in Bijection(S, 1 .. KStrong)
    BY <1>5, <1>6, <1>7, Zenon DEF Bijection, Injection, IsInjective, Surjection
  <1>9. IsFiniteSet(S) /\ S \in SUBSET G /\ S \in SUBSET Slots
    <2>1. S \in SUBSET G /\ S \in SUBSET Slots
      BY <1>1, <1>3, Zenon
    <2> QED
      BY <2>1, SlotsFinite, Zenon
  <1>10. Cardinality(1 .. KStrong) = Cardinality(S)
    BY <1>8, <1>9, FS_Bijection, Zenon DEF ExistsBijection
  <1>11. Cardinality(1 .. KStrong) = KStrong
    BY <1>1, FS_Interval, SMT
  <1> QED
    BY <1>9, <1>10, <1>11, Zenon DEF S, G

-----------------------------------------------------------------------------
(* Decoding.                                                               *)
Shards == [Slots -> Symbols \cup {Bad}]

(* With enough slots there is a codeword through the sources, and one only.*)
LEMMA CodewordExists ==
  ASSUME NEW s \in Shards, Cardinality(GoodSlots(s)) >= KStrong
  PROVE  /\ Codeword(s) \in Code
         /\ \A i \in Sources(s) : Codeword(s)[i] = s[i]
  <1> DEFINE S == Sources(s)
             v == [i \in S |-> s[i]]
  <1>1. S \in SUBSET Slots /\ S \in SUBSET GoodSlots(s) /\ Cardinality(S) = KStrong
    BY SourcesCount, Zenon
  <1>2. v \in [S -> Symbols]
    <2> SUFFICES ASSUME NEW i \in S PROVE s[i] \in Symbols
      BY Zenon
    <2>1. i \in Slots /\ s[i] # Bad
      BY <1>1, Zenon DEF GoodSlots
    <2> QED
      BY <2>1, Zenon DEF Shards
  <1> HIDE DEF S
  <1>3. \E c \in Code : \A i \in S : c[i] = v[i]
    BY <1>1, <1>2, CodeIsFull, Zenon
  <1>4. \E c \in Code : \A i \in S : c[i] = s[i]
    BY <1>3, Zenon
  <1> QED
    BY <1>4, Zenon DEF Codeword, S

LEMMA CodewordIs ==
  ASSUME NEW s \in Shards, Cardinality(GoodSlots(s)) >= KStrong,
         NEW c \in Code, \A i \in Sources(s) : c[i] = s[i]
  PROVE  Codeword(s) = c
  <1> DEFINE d == Codeword(s)
             E == {i \in Slots : d[i] = c[i]}
  <1>1. d \in Code /\ \A i \in Sources(s) : d[i] = s[i]
    BY CodewordExists, Zenon
  <1>2. Sources(s) \in SUBSET Slots /\ Cardinality(Sources(s)) = KStrong
    BY SourcesCount, Zenon
  <1> HIDE DEF d
  <1>3. Sources(s) \in SUBSET E /\ E \in SUBSET Slots
    BY <1>1, <1>2, Zenon
  <1>4. IsFiniteSet(E) /\ Cardinality(E) \in 0 .. StrongSlots
    BY <1>3, SlotsFinite, Zenon
  <1>5. Cardinality(Sources(s)) <= Cardinality(E)
    BY <1>3, <1>4, FS_Subset, Zenon
  <1>6. Cardinality(E) >= KStrong
    BY <1>2, <1>4, <1>5, SlotsFinite, SmallLayoutAssumption, SMT
  <1>7. d = c
    BY <1>1, <1>6, CodeDistance, Zenon
  <1> QED
    BY <1>7, Zenon DEF d

(* Reconstruct fills every slot and changes none that is good.             *)
LEMMA ReconstructType ==
  ASSUME NEW s \in Shards, Cardinality(GoodSlots(s)) >= KStrong
  PROVE  /\ Reconstruct(s) \in [Slots -> Symbols]
         /\ \A i \in GoodSlots(s) : Reconstruct(s)[i] = s[i]
         /\ \A i \in BadSlots(s) : Reconstruct(s)[i] = Codeword(s)[i]
  <1>1. Codeword(s) \in [Slots -> Symbols]
    BY CodewordExists, CodeAssumption, Zenon
  <1>2. \A i \in Slots : s[i] = Bad \/ s[i] \in Symbols
    BY Zenon DEF Shards
  <1>3. Reconstruct(s) = [i \in Slots |-> IF s[i] = Bad THEN Codeword(s)[i] ELSE s[i]]
    BY Zenon DEF Reconstruct
  <1>4. \A i \in Slots : Codeword(s)[i] \in Symbols
    BY <1>1, Zenon
  <1> QED
    BY <1>2, <1>3, <1>4, Zenon DEF GoodSlots, BadSlots

(* Slots that belong to a codeword reconstruct to that codeword.           *)
LEMMA ReconstructIs ==
  ASSUME NEW s \in Shards, Cardinality(GoodSlots(s)) >= KStrong,
         NEW c \in Code, \A i \in GoodSlots(s) : s[i] = c[i]
  PROVE  \A i \in Slots : Reconstruct(s)[i] = c[i]
  <1>1. Codeword(s) = c
    <2>1. \A i \in Sources(s) : c[i] = s[i]
      BY SourcesCount, Zenon
    <2> QED
      BY <2>1, CodewordIs, Zenon
  <1>2. \A i \in Slots : i \in GoodSlots(s) \/ i \in BadSlots(s)
    BY Zenon DEF BadSlots
  <1> QED
    BY <1>1, <1>2, ReconstructType, Zenon

(* A slot that is filled with the symbol its codeword has leaves the       *)
(* codeword what it was, although the decoder may now start from others.   *)
LEMMA SameCodeword ==
  ASSUME NEW s \in Shards, Cardinality(GoodSlots(s)) >= KStrong,
         NEW t \in Shards, NEW i \in BadSlots(s),
         \A j \in Slots : t[j] = IF j = i THEN Codeword(s)[i] ELSE s[j]
  PROVE  /\ GoodSlots(t) = GoodSlots(s) \cup {i}
         /\ Cardinality(GoodSlots(t)) >= KStrong
         /\ Codeword(t) = Codeword(s)
  <1> DEFINE c == Codeword(s)
  <1>1. c \in Code /\ \A j \in Sources(s) : c[j] = s[j]
    BY CodewordExists, Zenon
  <1>2. c[i] # Bad /\ i \in Slots /\ i \notin GoodSlots(s)
    <2>1. c \in [Slots -> Symbols] /\ i \in Slots /\ i \notin GoodSlots(s)
      BY <1>1, CodeAssumption, Zenon DEF BadSlots
    <2> QED
      BY <2>1, CodeAssumption, Zenon
  <1> HIDE DEF c
  <1>3. \A j \in Slots : t[j] = IF j = i THEN c[i] ELSE s[j]
    BY Zenon DEF c
  <1>4. GoodSlots(t) = GoodSlots(s) \cup {i}
    BY <1>2, <1>3, Zenon DEF GoodSlots
  <1>5. /\ GoodSlots(s) \in SUBSET Slots /\ IsFiniteSet(GoodSlots(s))
        /\ Cardinality(GoodSlots(s)) \in 0 .. StrongSlots
    BY GoodAndBad, SlotsFinite, Zenon
  <1>6. Cardinality(GoodSlots(t)) >= KStrong
    <2>1. Cardinality(GoodSlots(t)) = Cardinality(GoodSlots(s)) + 1
      BY <1>2, <1>4, <1>5, FS_AddElement, Zenon
    <2> QED
      BY <1>5, <2>1, SlotsFinite, SmallLayoutAssumption, SMT
  <1>7. ASSUME NEW j \in Sources(t)
        PROVE  c[j] = t[j]
    <2>1. CASE j = i
      BY <1>2, <1>3, <2>1, Zenon
    <2>2. CASE j # i
      <3>1. j \in GoodSlots(s) /\ j \in Slots
        BY <1>4, <1>5, <2>2, Zenon DEF Sources
      <3>2. /\ UpTo(GoodSlots(s), j) \in SUBSET UpTo(GoodSlots(t), j)
            /\ UpTo(GoodSlots(t), j) \in SUBSET Slots
        <4>1. GoodSlots(t) \in SUBSET Slots
          BY <1>2, <1>4, <1>5, Zenon
        <4> QED
          BY <1>4, <4>1, Zenon DEF UpTo
      <3>3. /\ IsFiniteSet(UpTo(GoodSlots(t), j))
            /\ Cardinality(UpTo(GoodSlots(t), j)) \in 0 .. StrongSlots
        BY <3>2, SlotsFinite, Zenon
      <3>4. /\ Cardinality(UpTo(GoodSlots(s), j)) <= Cardinality(UpTo(GoodSlots(t), j))
            /\ Cardinality(UpTo(GoodSlots(s), j)) \in 0 .. StrongSlots
        <4>1. UpTo(GoodSlots(s), j) \in SUBSET Slots
          BY <3>2, Zenon
        <4> QED
          BY <3>2, <3>3, <4>1, FS_Subset, SlotsFinite, Zenon
      <3>5. Cardinality(UpTo(GoodSlots(t), j)) <= KStrong
        BY Zenon DEF Sources, UpTo
      <3>6. Cardinality(UpTo(GoodSlots(s), j)) <= KStrong
        BY <3>3, <3>4, <3>5, SlotsFinite, SmallLayoutAssumption, SMT
      <3>7. j \in Sources(s)
        BY <3>1, <3>6, Zenon DEF Sources, UpTo
      <3> QED
        BY <1>1, <1>3, <2>2, <3>1, <3>7, Zenon
    <2> QED
      BY <2>1, <2>2, Zenon
  <1>8. Codeword(t) = c
    BY <1>1, <1>6, <1>7, CodewordIs, Zenon
  <1> QED
    BY <1>4, <1>6, <1>8, Zenon DEF c

-----------------------------------------------------------------------------
(* The properties of SmallVaultProps hold for every erasure code, every    *)
(* length of the plaintext and any number of faults.                       *)
(*                                                                         *)
(* The argument: while nothing is displaced, each cell of the file and of  *)
(* the medium is the writer's or lost (ContentInv), and if the vault was   *)
(* on the medium once, it lacks no more cells than were hit (HistoryInv);  *)
(* a scrub that nothing disturbs works through the bad slots of a file     *)
(* whose codeword does not change under it (PlanInv).                      *)

(* The inductive invariant.  Schemes and lengths are parameters, so that   *)
(* a step that leaves them alone leaves the operators alone.               *)
Scheme == {"gcm", "rs-strong"}

Whole(sch, n) == PayloadCells(sch, n) + TrailerCells

\* the cell the writer puts at position i
Cell(sch, n, i) ==
    IF i <= PayloadCells(sch, n)
    THEN IF sch = "gcm" THEN Sealed ELSE Written[i]
    ELSE IF i = PayloadCells(sch, n) + 1 THEN TrailerHead ELSE TrailerEnd

\* f has lost cells, but what it has is the writer's
Keeps(sch, n, f) ==
    /\ Len(f) <= Whole(sch, n)
    /\ \A i \in 1 .. Len(f) : f[i] \in {Cell(sch, n, i), Bad}

Lost(sch, n, f) == {i \in 1 .. PayloadCells(sch, n) : f[i] = Bad}

\* f is the whole vault but for h hits, or less, in its body
Hurt(sch, n, f, h) ==
    /\ Len(f) = Whole(sch, n)
    /\ f[PayloadCells(sch, n) + 1] = TrailerHead
    /\ f[PayloadCells(sch, n) + 2] = TrailerEnd
    /\ Cardinality(Lost(sch, n, f)) <= h

\* reports about the contents of the file
Verdicts == {"plaintext", "clean", "repairable", "repaired", "error", "lost"}

\* who has a manifest, a container, slots to write
WriterInv ==
    /\ man = IF wpc = "done" THEN Manifest ELSE NoManifest
    /\ wpc = "open" => file = << >> /\ disk = << >>
    /\ wpc = "drained" => file = Body
    /\ wpc # "done" => strays = 0 /\ hits = 0 /\ ~opened
    /\ todo # {} => opened /\ rep = "repairing"
    /\ rep \in Verdicts => wpc = "done" /\ todo = {}
    /\ rep = "repaired" => scheme = "rs-strong"
    /\ life = "settled" => wpc = "done"

\* nothing displaced: content is the writer's, and so is what a scrub writes
ContentInv ==
    strays = 0 =>
      /\ Keeps(scheme, buffered, file) /\ Keeps(scheme, buffered, disk)
      /\ Len(disk) <= Len(file)
      /\ \A i \in todo : /\ fixed[i] = Written[i]
                         /\ i <= Len(file) => file[i] = Bad

\* nothing displaced and no crash before the vault was on the medium
HistoryInv ==
    strays = 0 /\ wpc = "done" =>
      /\ life # "crashed" => Hurt(scheme, buffered, file, hits)
      /\ life = "settled" =>
           /\ Hurt(scheme, buffered, disk, hits)
           /\ Lost(scheme, buffered, file) \subseteq Lost(scheme, buffered, disk)

Decodes(n, s) == \A i \in 1 .. UsedSlots(n) : s[i] = Written[i]

\* s is as ScrubStrong has read it, apart from the slots it has written
Plan(s) ==
    /\ todo = BadSlots(s) /\ Cardinality(todo) <= MStrong
    /\ \A i \in GoodSlots(s) : fixed[i] = s[i]
    /\ \A i \in todo : fixed[i] = Codeword(s)[i]
    /\ Decodes(buffered, fixed)

PlanInv == todo # {} /\ quiet => Plan(gatherStrongSlots(file))

IInv == TypeOK /\ WriterInv /\ ContentInv /\ HistoryInv /\ PlanInv /\ ReportIsTrue

-----------------------------------------------------------------------------
(* Files.                                                                  *)

LEMMA Sizes ==
  ASSUME NEW sch \in Scheme, NEW n \in Nat
  PROVE  /\ PayloadCells(sch, n) \in Nat \ {0}
         /\ Whole(sch, n) \in Nat /\ Whole(sch, n) = PayloadCells(sch, n) + 2
         /\ sch = "rs-strong" => PayloadCells(sch, n) = StrongSlots
  BY SmallLayoutAssumption, SMT
     DEF Scheme, PayloadCells, Whole, TrailerCells, GCMOnlyPayloadSize, StrongSlots

LEMMA SymbolCells ==
  /\ \A i \in Slots : Written[i] \in Symbols
  /\ Bad \notin Symbols /\ Symbols \subseteq Cells /\ Bad \in Cells
  /\ {Sealed, TrailerHead, TrailerEnd} \subseteq Cells
  BY CodeAssumption, SmallVaultAssumption, Zenon DEF Cells

\* what the writer writes is never a lost cell
LEMMA CellType ==
  ASSUME NEW sch \in Scheme, NEW n \in Nat, NEW i \in 1 .. Whole(sch, n)
  PROVE  Cell(sch, n, i) \in Cells /\ Cell(sch, n, i) # Bad
  <1>1. CASE i <= PayloadCells(sch, n) /\ sch # "gcm"
    <2>1. i \in Slots
      BY <1>1, Sizes, SMT DEF Scheme, Slots
    <2>2. Cell(sch, n, i) = Written[i]
      BY <1>1, Zenon DEF Cell
    <2> QED
      BY <2>1, <2>2, SymbolCells, Zenon
  <1>2. CASE ~(i <= PayloadCells(sch, n) /\ sch # "gcm")
    <2>1. Cell(sch, n, i) \in {Sealed, TrailerHead, TrailerEnd}
      BY <1>2, Zenon DEF Cell
    <2> QED
      BY <2>1, SymbolCells, SmallVaultAssumption, Zenon
  <1> QED
    BY <1>1, <1>2, Zenon

\* a function on 1 .. n is a sequence
LEMMA FunctionSeq ==
  ASSUME NEW S, NEW n \in Nat, NEW f \in [1 .. n -> S]
  PROVE  f \in Seq(S) /\ Len(f) = n
  BY SMT

LEMMA PutIs ==
  ASSUME NEW f \in Seq(Cells), NEW off \in Nat, NEW cells \in Seq(Cells)
  PROVE  /\ Put(f, off, cells) \in Seq(Cells)
         /\ Len(Put(f, off, cells)) = Longer(Len(f), off + Len(cells))
         /\ \A i \in 1 .. Longer(Len(f), off + Len(cells)) :
              Put(f, off, cells)[i] = IF i \in off + 1 .. off + Len(cells)
                                      THEN cells[i - off]
                                      ELSE IF i <= Len(f) THEN f[i] ELSE Bad
  <1> DEFINE n == Longer(Len(f), off + Len(cells))
  <1>1. n \in Nat /\ Len(f) <= n /\ off + Len(cells) <= n
    BY SMT DEF Longer
  <1>2. ASSUME NEW i \in 1 .. n
        PROVE  (IF i \in off + 1 .. off + Len(cells) THEN cells[i - off]
                ELSE IF i <= Len(f) THEN f[i] ELSE Bad) \in Cells
    <2>1. CASE i \in off + 1 .. off + Len(cells)
      <3>1. i - off \in 1 .. Len(cells)
        BY <1>1, <2>1, SMT
      <3> QED
        BY <2>1, <3>1, SMT
    <2>2. CASE i \notin off + 1 .. off + Len(cells)
      <3>1. i <= Len(f) => f[i] \in Cells
        BY <1>1, SMT
      <3> QED
        BY <2>2, <3>1, SymbolCells, Zenon
    <2> QED
      BY <2>1, <2>2, Zenon
  <1> HIDE DEF n
  <1>3. Put(f, off, cells) = [i \in 1 .. n |->
          IF i \in off + 1 .. off + Len(cells) THEN cells[i - off]
          ELSE IF i <= Len(f) THEN f[i] ELSE Bad]
    BY Zenon DEF Put, n
  <1>4. Put(f, off, cells) \in [1 .. n -> Cells]
    BY <1>2, <1>3, Zenon
  <1>5. Put(f, off, cells) \in Seq(Cells) /\ Len(Put(f, off, cells)) = n
    BY <1>1, <1>4, FunctionSeq, Zenon
  <1> QED
    BY <1>3, <1>5, Zenon DEF n

\* writing the right cells, or losing some, keeps the rest
LEMMA PutKeeps ==
  ASSUME NEW sch \in Scheme, NEW n \in Nat, NEW f \in Seq(Cells),
         NEW off \in Nat, NEW cells \in Seq(Cells),
         Keeps(sch, n, f), off + Len(cells) <= Whole(sch, n),
         \A i \in 1 .. Len(cells) : cells[i] \in {Cell(sch, n, off + i), Bad}
  PROVE  /\ Keeps(sch, n, Put(f, off, cells))
         /\ Len(f) <= Len(Put(f, off, cells))
  <1> DEFINE g == Put(f, off, cells)
             m == Longer(Len(f), off + Len(cells))
  <1>1. /\ Len(g) = m
        /\ \A i \in 1 .. m : g[i] = IF i \in off + 1 .. off + Len(cells)
                                    THEN cells[i - off]
                                    ELSE IF i <= Len(f) THEN f[i] ELSE Bad
    BY PutIs, ZenonT(60)
  <1>2. m <= Whole(sch, n) /\ Len(f) <= m /\ m \in Nat
    <2>1. Len(f) \in Nat /\ Len(cells) \in Nat /\ Whole(sch, n) \in Nat
      BY Sizes, LenProperties, Zenon
    <2>2. Len(f) <= Whole(sch, n)
      BY Zenon DEF Keeps
    <2> QED
      BY <2>1, <2>2, SMT DEF Longer
  <1> HIDE DEF g, m
  <1>3. ASSUME NEW i \in 1 .. m
        PROVE  g[i] \in {Cell(sch, n, i), Bad}
    <2>1. CASE i \in off + 1 .. off + Len(cells)
      <3>1. i - off \in 1 .. Len(cells) /\ off + (i - off) = i
        BY <1>2, <2>1, SMT
      <3> QED
        BY <1>1, <2>1, <3>1, Zenon
    <2>2. CASE i \notin off + 1 .. off + Len(cells)
      <3>1. i <= Len(f) => i \in 1 .. Len(f)
        BY <1>2, SMT
      <3> QED
        BY <1>1, <2>2, <3>1, Zenon DEF Keeps
    <2> QED
      BY <2>1, <2>2, Zenon
  <1>4. Keeps(sch, n, g)
    BY <1>1, <1>2, <1>3, Zenon DEF Keeps
  <1> QED
    BY <1>1, <1>2, <1>4, Zenon DEF g

\* one slot written in place
LEMMA PutOne ==
  ASSUME NEW f \in Seq(Cells), NEW i \in Nat \ {0}, NEW v \in Cells
  PROVE  /\ Put(f, i - 1, <<v>>) \in Seq(Cells)
         /\ Len(Put(f, i - 1, <<v>>)) = Longer(Len(f), i)
         /\ \A j \in 1 .. Longer(Len(f), i) :
              Put(f, i - 1, <<v>>)[j] = IF j = i THEN v
                                        ELSE IF j <= Len(f) THEN f[j] ELSE Bad
  <1>1. i - 1 \in Nat /\ <<v>> \in Seq(Cells) /\ Len(<<v>>) = 1 /\ <<v>>[1] = v
    BY SMT
  <1>2. i - 1 + Len(<<v>>) = i /\ i - 1 + 1 = i
    BY <1>1, SMT
  <1> DEFINE g == Put(f, i - 1, <<v>>)
             one == <<v>>
  <1> HIDE DEF g, one
  <1>3. /\ Put(f, i - 1, <<v>>) \in Seq(Cells)
        /\ Len(Put(f, i - 1, <<v>>)) = Longer(Len(f), i)
        /\ \A j \in 1 .. Longer(Len(f), i) :
             Put(f, i - 1, <<v>>)[j] = IF j \in i .. i
                                       THEN <<v>>[j - (i - 1)]
                                       ELSE IF j <= Len(f) THEN f[j] ELSE Bad
    <2>1. /\ g \in Seq(Cells)
          /\ Len(g) = Longer(Len(f), i - 1 + Len(one))
          /\ \A j \in 1 .. Longer(Len(f), i - 1 + Len(one)) :
               g[j] = IF j \in i - 1 + 1 .. i - 1 + Len(one)
                      THEN one[j - (i - 1)]
                      ELSE IF j <= Len(f) THEN f[j] ELSE Bad
      BY <1>1, PutIs, ZenonT(60) DEF g, one
    <2>2. i - 1 + Len(one) = i
      BY <1>2, Zenon DEF one
    <2> QED
      BY <1>2, <2>1, <2>2, Zenon DEF g, one
  <1>4. \A j : j \in i .. i <=> j = i
    BY SMT
  <1>5. i - (i - 1) = 1
    BY SMT
  <1> QED
    BY <1>1, <1>3, <1>4, <1>5, Zenon

\* lost cells are counted
LEMMA LostFinite ==
  ASSUME NEW sch \in Scheme, NEW n \in Nat, NEW f
  PROVE  IsFiniteSet(Lost(sch, n, f)) /\ Cardinality(Lost(sch, n, f)) \in Nat
  <1>1. IsFiniteSet(1 .. PayloadCells(sch, n))
    BY Sizes, FS_Interval, SMT
  <1>2. Lost(sch, n, f) \in SUBSET (1 .. PayloadCells(sch, n))
    BY Zenon DEF Lost
  <1> QED
    BY <1>1, <1>2, FS_Subset, FS_CardinalityType, Zenon

LEMMA LostShrinks ==
  ASSUME NEW sch \in Scheme, NEW n \in Nat, NEW f, NEW g, NEW h \in Nat,
         Lost(sch, n, f) \subseteq Lost(sch, n, g), Cardinality(Lost(sch, n, g)) <= h
  PROVE  Cardinality(Lost(sch, n, f)) <= h
  <1>1. Cardinality(Lost(sch, n, f)) <= Cardinality(Lost(sch, n, g))
    BY LostFinite, FS_Subset, Zenon
  <1>2. Cardinality(Lost(sch, n, f)) \in Nat /\ Cardinality(Lost(sch, n, g)) \in Nat
    BY LostFinite, Zenon
  <1> QED
    BY <1>1, <1>2, SMT

LEMMA LostGrows ==
  ASSUME NEW sch \in Scheme, NEW n \in Nat, NEW f, NEW g, NEW h \in Nat,
         NEW S, IsFiniteSet(S), Lost(sch, n, f) \subseteq Lost(sch, n, g) \cup S,
         Cardinality(Lost(sch, n, g)) <= h
  PROVE  Cardinality(Lost(sch, n, f)) <= h + Cardinality(S)
  <1> DEFINE F == Lost(sch, n, f)
             G == Lost(sch, n, g)
  <1>1. /\ IsFiniteSet(F) /\ Cardinality(F) \in Nat
        /\ IsFiniteSet(G) /\ Cardinality(G) \in Nat
    BY LostFinite, Zenon
  <1> HIDE DEF F, G
  <1>2. /\ IsFiniteSet(G \cup S)
        /\ Cardinality(G \cup S) = Cardinality(G) + Cardinality(S) - Cardinality(G \cap S)
        /\ IsFiniteSet(G \cap S)
    BY <1>1, FS_Union, FS_Intersection, Zenon
  <1>3. Cardinality(S) \in Nat /\ Cardinality(G \cap S) \in Nat
        /\ Cardinality(G \cup S) \in Nat
    BY <1>2, FS_CardinalityType, Zenon
  <1>4. Cardinality(F) <= Cardinality(G \cup S)
    BY <1>2, FS_Subset, Zenon DEF F, G
  <1>5. Cardinality(G) <= h
    BY Zenon DEF G
  <1>6. Cardinality(F) <= h + Cardinality(S)
    BY <1>1, <1>2, <1>3, <1>4, <1>5, SMT
  <1> QED
    BY <1>6, Zenon DEF F

\* the first m cells of a sequence
LEMMA PrefixIs ==
  ASSUME NEW s \in Seq(Cells), NEW m \in 0 .. Len(s)
  PROVE  /\ SubSeq(s, 1, m) \in Seq(Cells) /\ Len(SubSeq(s, 1, m)) = m
         /\ \A i \in 1 .. m : SubSeq(s, 1, m)[i] = s[i]
  BY SMT

LEMMA TrailerIs ==
  /\ Trailer \in Seq(Cells) /\ Len(Trailer) = 2
  /\ Trailer[1] = TrailerHead /\ Trailer[2] = TrailerEnd
  <1>1. TrailerHead \in Cells /\ TrailerEnd \in Cells
    BY SymbolCells, Zenon
  <1> QED
    BY <1>1, SMT DEF Trailer

\* the body is as long as the payload, and consists of the writer's cells
LEMMA BodyIs ==
  ASSUME scheme \in Scheme, buffered \in Nat
  PROVE  /\ Body \in Seq(Cells) /\ Len(Body) = PayloadCells(scheme, buffered)
         /\ \A i \in 1 .. PayloadCells(scheme, buffered) :
              Body[i] = Cell(scheme, buffered, i)
  <1> DEFINE p == PayloadCells(scheme, buffered)
             Val(i) == IF scheme = "gcm" THEN Sealed ELSE Written[i]
  <1>1. p \in Nat /\ Whole(scheme, buffered) = p + 2
    BY Sizes, SMT
  <1>2. Body = [i \in 1 .. p |-> Val(i)]
    BY Zenon DEF Body
  <1> HIDE DEF p
  <1>3. ASSUME NEW i \in 1 .. p
        PROVE  Val(i) = Cell(scheme, buffered, i) /\ Val(i) \in Cells
    <2>1. i <= p /\ i \in 1 .. Whole(scheme, buffered)
      BY <1>1, SMT
    <2>2. Val(i) = Cell(scheme, buffered, i)
      BY <2>1, Zenon DEF Cell, p
    <2> QED
      BY <2>1, <2>2, CellType, Zenon
  <1>4. Body \in [1 .. p -> Cells]
    BY <1>2, <1>3, Zenon
  <1>5. Body \in Seq(Cells) /\ Len(Body) = p
    BY <1>1, <1>4, FunctionSeq, Zenon
  <1>6. \A i \in 1 .. p : Body[i] = Cell(scheme, buffered, i)
    BY <1>2, <1>3, Zenon
  <1> QED
    BY <1>5, <1>6, Zenon DEF p

-----------------------------------------------------------------------------
(* Opening and loading.                                                    *)

LEMMA ManifestIs ==
  /\ Manifest.scheme = scheme /\ Manifest.plainSize = buffered
  /\ Manifest.shardSize = IF scheme = "gcm" THEN 0 ELSE StrongShardSize(buffered)
  BY Zenon DEF Manifest

(* A file opens if Close succeeded and it has the length that Close left   *)
(* and its trailer at the end.                                             *)
LEMMA OpensIs ==
  ASSUME TypeOK, WriterInv, NEW f \in Seq(Cells)
  PROVE  Opens(f) <=> /\ wpc = "done" /\ Len(f) = Whole(scheme, buffered)
                      /\ f[PayloadCells(scheme, buffered) + 1] = TrailerHead
                      /\ f[PayloadCells(scheme, buffered) + 2] = TrailerEnd
  <1> DEFINE p == PayloadCells(scheme, buffered)
  <1>1. scheme \in Scheme /\ buffered \in Nat
    BY SmallVaultAssumption, SMT DEF TypeOK, Scheme
  <1>2. p \in Nat /\ Whole(scheme, buffered) = p + 2 /\ p + TrailerCells = p + 2
    <2>1. p \in Nat \ {0} /\ Whole(scheme, buffered) = p + 2
      BY <1>1, Sizes, Zenon
    <2> QED
      BY <2>1, SMT DEF TrailerCells
  <1>3. CASE wpc # "done"
    <2>1. man.plainSize = -1
      BY <1>3, Zenon DEF WriterInv, NoManifest
    <2>2. ~(man.plainSize >= 0)
      BY <2>1, SMT
    <2> QED
      BY <1>3, <2>2, Zenon DEF Opens, Validate
  <1>4. CASE wpc = "done"
    <2>1. man = Manifest
      BY <1>4, Zenon DEF WriterInv
    <2>2. Validate(man, Len(f)) <=> Len(f) = p + TrailerCells
      <3>1. buffered >= 0
        BY <1>1, SMT
      <3> QED
        BY <2>1, <3>1, ManifestIs, Zenon DEF Validate
    <2>3. ASSUME Len(f) = p + 2
          PROVE  ParseTrailer(f) <=> f[p + 1] = TrailerHead /\ f[p + 2] = TrailerEnd
      <3>1. Len(f) - 1 = p + 1 /\ Len(f) >= TrailerCells
        BY <1>2, <2>3, SMT DEF TrailerCells
      <3> QED
        BY <2>3, <3>1, Zenon DEF ParseTrailer
    <2> QED
      BY <1>2, <1>4, <2>2, <2>3, Zenon DEF Opens
  <1> QED
    BY <1>3, <1>4, Zenon

LEMMA GatherIs ==
  ASSUME NEW f \in Seq(Cells)
  PROVE  /\ gatherStrongSlots(f) \in Shards
         /\ \A i \in Slots :
              gatherStrongSlots(f)[i] = IF i <= Len(f) /\ f[i] \in Symbols
                                        THEN f[i] ELSE Bad
  BY Zenon DEF gatherStrongSlots, Shards

(* LoadStrong with the length of the plaintext as a parameter.             *)
StrongLoads(n, f) ==
    LET s == gatherStrongSlots(f)
    IN  IF BadSlots(s) = {} THEN Decodes(n, s)
        ELSE Reconstructible(s) /\ Decodes(n, Reconstruct(s))

GCMLoads(n, f) == \A i \in 1 .. GCMOnlyPayloadSize(n) : i <= Len(f) /\ f[i] = Sealed

LEMMA LoadsIs ==
  ASSUME wpc = "done", WriterInv, NEW f
  PROVE  /\ scheme = "gcm" => (Loads(f) <=> GCMLoads(buffered, f))
         /\ scheme # "gcm" => (Loads(f) <=> StrongLoads(buffered, f))
         /\ LoadStrong(f) <=> StrongLoads(buffered, f)
  <1>1. man = Manifest
    BY Zenon DEF WriterInv
  <1>2. LoadStrong(f) <=> StrongLoads(buffered, f)
    BY <1>1, ManifestIs, Zenon DEF LoadStrong, StrongLoads, decodeStrongArea, Decodes
  <1> QED
    BY <1>1, <1>2, ManifestIs, Zenon DEF Loads, LoadGCMOnly, GCMLoads

\* slots that are all the writer's decode
LEMMA WrittenDecodes ==
  ASSUME NEW n \in Nat, NEW s, \A i \in Slots : s[i] = Written[i]
  PROVE  Decodes(n, s)
  <1>1. 1 .. UsedSlots(n) \subseteq Slots
    BY UsedAreData, SmallLayoutAssumption, SMT DEF Slots, StrongSlots
  <1> QED
    BY <1>1, Zenon DEF Decodes

\* the number of bad slots says whether there is something to reconstruct
LEMMA WhenReconstructible ==
  ASSUME NEW s
  PROVE  /\ Reconstructible(s) => Cardinality(GoodSlots(s)) >= KStrong
         /\ Reconstructible(s) => BadSlots(s) # {}
         /\ Reconstructible(s) => Cardinality(BadSlots(s)) <= MStrong
         /\ Cardinality(BadSlots(s)) <= MStrong /\ BadSlots(s) # {}
              => Reconstructible(s)
  <1>1. Cardinality(BadSlots(s)) \in Nat
    BY GoodAndBad, Zenon
  <1>2. Reconstructible(s) => Cardinality(BadSlots(s)) <= MStrong
                              /\ Cardinality(BadSlots(s)) # 0
    BY <1>1, SmallLayoutAssumption, SMT DEF Reconstructible
  <1>3. Cardinality(BadSlots(s)) <= MStrong /\ Cardinality(BadSlots(s)) # 0
          => Reconstructible(s)
    BY <1>1, SmallLayoutAssumption, SMT DEF Reconstructible
  <1> QED
    BY <1>2, <1>3, GoodAndBad, Zenon

(* A file that has only lost cells: its slots are the writer's or bad, and *)
(* they reconstruct to the writer's.                                       *)
LEMMA KeptSlots ==
  ASSUME NEW n \in Nat, NEW f \in Seq(Cells), Keeps("rs-strong", n, f)
  PROVE  LET s == gatherStrongSlots(f)
         IN  /\ \A i \in Slots : i <= Len(f) => s[i] = f[i]
             /\ \A i \in GoodSlots(s) : s[i] = Written[i]
             /\ Reconstructible(s) =>
                  \A i \in Slots : Reconstruct(s)[i] = Written[i]
             /\ Cardinality(BadSlots(s)) <= MStrong => StrongLoads(n, f)
             /\ StrongLoads(n, f) => Cardinality(BadSlots(s)) <= MStrong
  <1> DEFINE s == gatherStrongSlots(f)
  <1>1. s \in Shards /\ \A i \in Slots : s[i] = IF i <= Len(f) /\ f[i] \in Symbols
                                                THEN f[i] ELSE Bad
    BY GatherIs, Zenon
  <1>2. ASSUME NEW i \in Slots, i <= Len(f)
        PROVE  f[i] \in {Written[i], Bad}
    <2>1. i \in 1 .. Len(f) /\ PayloadCells("rs-strong", n) = StrongSlots
      BY <1>2, SMT DEF Slots, PayloadCells
    <2>2. i <= PayloadCells("rs-strong", n)
      BY <2>1, SmallLayoutAssumption, SMT DEF Slots, StrongSlots
    <2>3. f[i] \in {Cell("rs-strong", n, i), Bad}
      BY <2>1, Zenon DEF Keeps
    <2> QED
      BY <2>2, <2>3, SMT DEF Cell
  <1> HIDE DEF s
  <1>3. \A i \in Slots : i <= Len(f) => s[i] = f[i]
    BY <1>1, <1>2, SymbolCells, Zenon
  <1>4. \A i \in GoodSlots(s) : s[i] = Written[i]
    BY <1>1, <1>2, Zenon DEF GoodSlots
  <1>5. Reconstructible(s) => \A i \in Slots : Reconstruct(s)[i] = Written[i]
    BY <1>1, <1>4, ReconstructIs, WhenReconstructible, SmallVaultAssumption, Zenon
  <1>6. StrongLoads(n, f) <=> IF BadSlots(s) = {} THEN Decodes(n, s)
                              ELSE Reconstructible(s) /\ Decodes(n, Reconstruct(s))
    BY Zenon DEF StrongLoads, s
  <1>7. BadSlots(s) = {} => Decodes(n, s)
    <2> SUFFICES ASSUME BadSlots(s) = {} PROVE Decodes(n, s)
      BY Zenon
    <2>1. \A i \in Slots : i \in GoodSlots(s)
      BY Zenon DEF BadSlots
    <2> QED
      BY <1>4, <2>1, WrittenDecodes, Zenon
  <1>8. Reconstructible(s) => Decodes(n, Reconstruct(s))
    BY <1>5, WrittenDecodes, Zenon
  <1>9. Cardinality(BadSlots(s)) <= MStrong => StrongLoads(n, f)
    BY <1>6, <1>7, <1>8, WhenReconstructible, Zenon
  <1>10. BadSlots(s) = {} => Cardinality(BadSlots(s)) <= MStrong
    <2>1. Cardinality({}) = 0
      BY FS_EmptySet, Zenon
    <2> QED
      BY <2>1, SmallLayoutAssumption, SMT
  <1>11. StrongLoads(n, f) => Cardinality(BadSlots(s)) <= MStrong
    BY <1>6, <1>10, WhenReconstructible, Zenon
  <1> QED
    BY <1>3, <1>4, <1>5, <1>9, <1>11, Zenon DEF s

-----------------------------------------------------------------------------
(* The invariant holds at the start, and each step of the writer keeps it. *)

LEMMA Types ==
  ASSUME TypeOK
  PROVE  /\ scheme \in Scheme /\ buffered \in Nat /\ buffered \in 0 .. MaxPlain
         /\ file \in Seq(Cells) /\ disk \in Seq(Cells) /\ todo \in SUBSET Slots
         /\ Len(file) \in Nat /\ Len(disk) \in Nat
         /\ hits \in Nat /\ strays \in Nat /\ faults \in Nat
         /\ PayloadCells(scheme, buffered) \in Nat \ {0}
         /\ Whole(scheme, buffered) = PayloadCells(scheme, buffered) + 2
  <1>1. scheme \in Scheme /\ buffered \in 0 .. MaxPlain /\ todo \in SUBSET Slots
    BY Zenon DEF TypeOK, Scheme
  <1>2. buffered \in Nat
    BY <1>1, SmallVaultAssumption, SMT
  <1>3. file \in Seq(Cells) /\ disk \in Seq(Cells)
    BY Zenon DEF TypeOK
  <1>4. Len(file) \in Nat /\ Len(disk) \in Nat
    BY <1>3, LenProperties, Zenon
  <1>5. hits \in Nat /\ strays \in Nat /\ faults \in Nat
    BY SmallVaultAssumption, SMT DEF TypeOK
  <1> QED
    BY <1>1, <1>2, <1>3, <1>4, <1>5, Sizes, Zenon

LEMMA InitInv ==
  ASSUME Init
  PROVE  IInv
  <1>1. << >> \in Seq(Cells) /\ Len(<< >>) = 0
    BY EmptySeq, Zenon
  <1>2. TypeOK
    <2>1. buffered \in 0 .. MaxPlain /\ hits \in Nat /\ strays \in Nat
          /\ faults \in 0 .. MaxFaults
      BY SmallVaultAssumption, SMT DEF Init
    <2> QED
      BY <1>1, <2>1, Zenon DEF Init, TypeOK
  <1>3. WriterInv
    BY Zenon DEF Init, WriterInv, Verdicts
  <1>4. ContentInv
    <2>1. Keeps(scheme, buffered, << >>)
      BY <1>1, <1>2, Types, SMT DEF Keeps
    <2> QED
      BY <1>1, <2>1, SMT DEF Init, ContentInv
  <1>5. HistoryInv /\ PlanInv /\ ReportIsTrue
    BY Zenon DEF Init, HistoryInv, PlanInv, ReportIsTrue
  <1> QED
    BY <1>2, <1>3, <1>4, <1>5, Zenon DEF IInv

\* before Close has succeeded there is nothing to read
LEMMA BeforeDone ==
  ASSUME IInv, wpc # "done"
  PROVE  /\ todo = {} /\ ~opened /\ rep \notin Verdicts /\ man = NoManifest
         /\ life # "settled" /\ strays = 0 /\ hits = 0
  BY Zenon DEF IInv, WriterInv

LEMMA WriterStep ==
  ASSUME IInv, wpc # "done", UNCHANGED <<scheme, callVars, histVars>>
  PROVE  PlanInv' /\ ReportIsTrue'
  <1>1. todo' = {} /\ rep' \notin Verdicts
    BY BeforeDone, Zenon DEF callVars
  <1> QED
    BY <1>1, Zenon DEF PlanInv, ReportIsTrue, Verdicts

LEMMA WriteInv ==
  ASSUME IInv, NEW n \in 1 .. MaxPlain, Write(n)
  PROVE  IInv'
  <1>1. /\ wpc = "open" /\ wpc' = "open" /\ file = << >> /\ disk = << >>
        /\ UNCHANGED <<scheme, file, disk, callVars, histVars, man>>
    BY Zenon DEF Write, IInv, WriterInv
  <1>2. TypeOK'
    <2>1. buffered' \in 0 .. MaxPlain
      BY SmallVaultAssumption, SMT DEF Write, IInv, TypeOK
    <2>2. man' = NoManifest
      BY <1>1, BeforeDone, Zenon
    <2> QED
      BY <1>1, <2>1, <2>2, Zenon DEF IInv, TypeOK, callVars, histVars
  <1>3. WriterInv'
    BY <1>1, BeforeDone, Zenon DEF WriterInv, Verdicts, callVars, histVars
  <1>4. ContentInv'
    <2>1. file' = << >> /\ disk' = << >> /\ Len(<< >>) = 0 /\ todo' = {}
      BY <1>1, EmptySeq, BeforeDone, Zenon DEF callVars
    <2>2. scheme' \in Scheme /\ buffered' \in Nat
      BY <1>1, <1>2, SmallVaultAssumption, SMT DEF TypeOK, Scheme
    <2>3. Whole(scheme', buffered') \in Nat
      BY <2>2, Sizes, Zenon
    <2>4. Keeps(scheme', buffered', << >>)
      BY <2>1, <2>3, SMT DEF Keeps
    <2> QED
      BY <2>1, <2>4, SMT DEF ContentInv
  <1>5. HistoryInv'
    BY <1>1, Zenon DEF HistoryInv
  <1>6. PlanInv' /\ ReportIsTrue'
    BY <1>1, WriterStep, Zenon
  <1> QED
    BY <1>2, <1>3, <1>4, <1>5, <1>6, Zenon DEF IInv

(* A write by the writer: of the first cells of what it has to write.      *)
LEMMA WriterPut ==
  ASSUME IInv, wpc # "done", UNCHANGED <<scheme, buffered>>,
         UNCHANGED <<disk, callVars, histVars>>,
         NEW off \in Nat, NEW cells \in Seq(Cells),
         off + Len(cells) <= Whole(scheme, buffered),
         \A i \in 1 .. Len(cells) : cells[i] = Cell(scheme, buffered, off + i),
         file' = Put(file, off, cells)
  PROVE  file' \in Seq(Cells) /\ ContentInv' /\ PlanInv' /\ ReportIsTrue'
  <1>1. file' \in Seq(Cells)
    BY Types, PutIs, Zenon DEF IInv
  <1>2. strays = 0 /\ todo' = {}
    BY BeforeDone, Zenon DEF callVars
  <1>3. /\ Keeps(scheme, buffered, file) /\ Keeps(scheme, buffered, disk)
        /\ Len(disk) <= Len(file)
    BY <1>2, Zenon DEF IInv, ContentInv
  <1>4. Keeps(scheme, buffered, file') /\ Len(file) <= Len(file')
    BY <1>3, Types, PutKeeps, Zenon DEF IInv
  <1>5. Len(disk') <= Len(file')
    <2>1. Len(file') \in Nat /\ Len(file) \in Nat /\ Len(disk) \in Nat
      BY <1>1, Types, LenProperties, Zenon DEF IInv
    <2> QED
      BY <1>3, <1>4, <2>1, SMT
  <1>6. ContentInv'
    BY <1>2, <1>3, <1>4, <1>5, Zenon DEF ContentInv
  <1>7. PlanInv' /\ ReportIsTrue'
    BY WriterStep, Zenon
  <1> QED
    BY <1>1, <1>6, <1>7, Zenon

LEMMA DrainInv ==
  ASSUME IInv, Drain
  PROVE  IInv'
  <1>1. /\ wpc = "open" /\ wpc' = "drained" /\ file = << >>
        /\ UNCHANGED <<scheme, buffered, man, disk, callVars, histVars>>
        /\ file' = Put(file, 0, Body)
    BY Zenon DEF Drain, IInv, WriterInv
  <1> DEFINE p == PayloadCells(scheme, buffered)
  <1>2. /\ Body \in Seq(Cells) /\ Len(Body) = p
        /\ \A i \in 1 .. p : Body[i] = Cell(scheme, buffered, i)
        /\ p \in Nat /\ Whole(scheme, buffered) = p + 2
        /\ file \in Seq(Cells) /\ Len(file) = 0
    BY <1>1, Types, BodyIs, EmptySeq, SMT DEF IInv
  <1> HIDE DEF p
  <1>3. file' \in Seq(Cells) /\ ContentInv' /\ PlanInv' /\ ReportIsTrue'
    <2>1. 0 + Len(Body) <= Whole(scheme, buffered) /\ 0 \in Nat
      BY <1>2, SMT
    <2>2. \A i \in 1 .. Len(Body) : Body[i] = Cell(scheme, buffered, 0 + i)
      <3>1. \A i \in 1 .. p : 0 + i = i
        BY SMT
      <3> QED
        BY <1>2, <3>1, Zenon
    <2> QED
      BY <1>1, <1>2, <2>1, <2>2, WriterPut, Zenon
  <1>4. file' = Body
    <2>1. Longer(0, 0 + p) = p
      BY <1>2, SMT DEF Longer
    <2>2. \A i \in 1 .. p : i \in 0 + 1 .. 0 + p /\ i - 0 = i
      BY <1>2, SMT
    <2>3. /\ Len(file') = p
          /\ \A i \in 1 .. p : file'[i] = IF i \in 0 + 1 .. 0 + p THEN Body[i - 0]
                                          ELSE IF i <= 0 THEN file[i] ELSE Bad
      <3>1. 0 \in Nat
        BY SMT
      <3>2. /\ Len(file') = Longer(Len(file), 0 + Len(Body))
            /\ \A i \in 1 .. Longer(Len(file), 0 + Len(Body)) :
                 file'[i] = IF i \in 0 + 1 .. 0 + Len(Body) THEN Body[i - 0]
                            ELSE IF i <= Len(file) THEN file[i] ELSE Bad
        <4> DEFINE g == Put(file, 0, Body)
        <4>1. /\ Len(g) = Longer(Len(file), 0 + Len(Body))
              /\ \A i \in 1 .. Longer(Len(file), 0 + Len(Body)) :
                   g[i] = IF i \in 0 + 1 .. 0 + Len(Body) THEN Body[i - 0]
                          ELSE IF i <= Len(file) THEN file[i] ELSE Bad
          <5>1. file \in Seq(Cells) /\ Body \in Seq(Cells)
            BY <1>2, Zenon
          <5> QED
            BY <3>1, <5>1, PutIs, Zenon
        <4> HIDE DEF g
        <4>2. file' = g
          BY <1>1, Zenon DEF g
        <4> QED
          BY <4>1, <4>2, Zenon
      <3>3. Longer(Len(file), 0 + Len(Body)) = p
        BY <1>2, <2>1, Zenon
      <3> QED
        BY <1>2, <3>2, <3>3, Zenon
    <2>4. \A i \in 1 .. p : file'[i] = Body[i]
      BY <2>2, <2>3, Zenon
    <2> QED
      BY <1>2, <1>3, <2>3, <2>4, SeqEqual, Zenon
  <1>5. Body' = Body
    BY <1>1, Zenon DEF Body
  <1>6. TypeOK'
    BY <1>1, <1>3, Zenon DEF IInv, TypeOK, callVars, histVars
  <1>7. WriterInv'
    BY <1>1, <1>4, <1>5, BeforeDone, Zenon DEF WriterInv, Verdicts, callVars, histVars
  <1>8. HistoryInv'
    BY <1>1, Zenon DEF HistoryInv
  <1> QED
    BY <1>3, <1>6, <1>7, <1>8, Zenon DEF IInv

LEMMA DrainFailsInv ==
  ASSUME IInv, DrainFails
  PROVE  IInv'
  <1>1. /\ wpc = "open" /\ wpc' = "failed"
        /\ UNCHANGED <<scheme, buffered, man, disk, callVars, histVars>>
    BY Zenon DEF DrainFails
  <1>2. PICK n \in 0 .. Len(Body) - 1 : file' = Put(file, 0, SubSeq(Body, 1, n))
    BY Zenon DEF DrainFails
  <1> DEFINE p == PayloadCells(scheme, buffered)
             cells == SubSeq(Body, 1, n)
  <1>3. /\ Body \in Seq(Cells) /\ Len(Body) = p
        /\ \A i \in 1 .. p : Body[i] = Cell(scheme, buffered, i)
        /\ p \in Nat /\ Whole(scheme, buffered) = p + 2
    BY Types, BodyIs, SMT DEF IInv
  <1> HIDE DEF p
  <1>4. n \in 0 .. Len(Body) /\ n \in Nat /\ n <= p
    BY <1>3, SMT
  <1>5. cells \in Seq(Cells) /\ Len(cells) = n /\ \A i \in 1 .. n : cells[i] = Body[i]
    BY <1>3, <1>4, PrefixIs, Zenon
  <1> HIDE DEF cells
  <1>6. file' \in Seq(Cells) /\ ContentInv' /\ PlanInv' /\ ReportIsTrue'
    <2>1. 0 + Len(cells) <= Whole(scheme, buffered) /\ 0 \in Nat
      BY <1>3, <1>4, <1>5, SMT
    <2>2. \A i \in 1 .. Len(cells) : cells[i] = Cell(scheme, buffered, 0 + i)
      <3>1. \A i \in 1 .. n : 0 + i = i /\ i \in 1 .. p
        BY <1>3, <1>4, SMT
      <3> QED
        BY <1>3, <1>5, <3>1, Zenon
    <2>3. file' = Put(file, 0, cells)
      BY <1>2, Zenon DEF cells
    <2> QED
      BY <1>1, <1>5, <2>1, <2>2, <2>3, WriterPut, Zenon
  <1>7. TypeOK'
    BY <1>1, <1>6, Zenon DEF IInv, TypeOK, callVars, histVars
  <1>8. WriterInv'
    BY <1>1, BeforeDone, Zenon DEF WriterInv, Verdicts, callVars, histVars
  <1>9. HistoryInv'
    BY <1>1, Zenon DEF HistoryInv
  <1> QED
    BY <1>6, <1>7, <1>8, <1>9, Zenon DEF IInv

\* the first m cells of the trailer go where they belong
LEMMA TrailerPut ==
  ASSUME IInv, wpc = "drained", UNCHANGED <<scheme, buffered>>,
         UNCHANGED <<disk, callVars, histVars>>,
         NEW cells \in Seq(Cells), Len(cells) <= 2,
         \A i \in 1 .. Len(cells) : cells[i] = Trailer[i],
         file' = Put(file, PayloadCells(scheme, buffered), cells)
  PROVE  file' \in Seq(Cells) /\ ContentInv' /\ PlanInv' /\ ReportIsTrue'
  <1> DEFINE p == PayloadCells(scheme, buffered)
  <1>1. p \in Nat /\ p \in Nat \ {0} /\ Whole(scheme, buffered) = p + 2 /\ Len(cells) \in Nat
    <2>1. p \in Nat \ {0} /\ Whole(scheme, buffered) = p + 2
      BY Types, Zenon DEF IInv
    <2>2. Len(cells) \in Nat
      BY LenProperties, Zenon
    <2> QED
      BY <2>1, <2>2, SMT
  <1>2. p + Len(cells) <= Whole(scheme, buffered)
    BY <1>1, SMT
  <1>3. ASSUME NEW i \in 1 .. Len(cells)
        PROVE  cells[i] = Cell(scheme, buffered, p + i)
    <2>1. i \in {1, 2} /\ ~(p + i <= p) /\ (p + i = p + 1 <=> i = 1)
      BY <1>1, SMT
    <2>2. Cell(scheme, buffered, p + i) = IF i = 1 THEN TrailerHead ELSE TrailerEnd
      BY <2>1, Zenon DEF Cell
    <2> QED
      BY <2>1, <2>2, TrailerIs, Zenon
  <1>4. wpc # "done"
    OBVIOUS
  <1> HIDE DEF p
  <1>5. file' = Put(file, p, cells)
    BY Zenon DEF p
  <1> QED
    BY <1>1, <1>2, <1>3, <1>4, <1>5, WriterPut, Zenon

LEMMA WriteTrailerInv ==
  ASSUME IInv, WriteTrailer
  PROVE  IInv'
  <1> DEFINE p == PayloadCells(scheme, buffered)
  <1>1. /\ wpc = "drained" /\ wpc' = "done" /\ man' = Manifest /\ file = Body
        /\ UNCHANGED <<scheme, buffered, disk, callVars, histVars>>
        /\ file' = Put(file, p, Trailer)
    BY Zenon DEF WriteTrailer, IInv, WriterInv
  <1>2. /\ Body \in Seq(Cells) /\ Len(Body) = p
        /\ \A i \in 1 .. p : Body[i] = Cell(scheme, buffered, i)
    BY Types, BodyIs, Zenon DEF IInv
  <1>3. p \in Nat /\ Whole(scheme, buffered) = p + 2
    <2>1. p \in Nat \ {0} /\ Whole(scheme, buffered) = p + 2
      BY Types, Zenon DEF IInv
    <2> QED
      BY <2>1, SMT
  <1>4. file' \in Seq(Cells) /\ ContentInv' /\ PlanInv' /\ ReportIsTrue'
    <2>1. Trailer \in Seq(Cells) /\ Len(Trailer) <= 2
      BY TrailerIs, SMT
    <2> QED
      BY <1>1, <2>1, TrailerPut, Zenon
  <1> HIDE DEF p
  <1>5. Hurt(scheme, buffered, file', hits)
    <2> DEFINE g == Put(Body, p, Trailer)
    <2>1. /\ Len(g) = Longer(Len(Body), p + Len(Trailer))
          /\ \A i \in 1 .. Longer(Len(Body), p + Len(Trailer)) :
               g[i] = IF i \in p + 1 .. p + Len(Trailer) THEN Trailer[i - p]
                      ELSE IF i <= Len(Body) THEN Body[i] ELSE Bad
      <3>1. Body \in Seq(Cells) /\ Trailer \in Seq(Cells) /\ p \in Nat
        BY <1>2, <1>3, TrailerIs, Zenon
      <3> QED
        BY <3>1, PutIs, Zenon
    <2>2. Longer(Len(Body), p + Len(Trailer)) = p + 2 /\ Len(Trailer) = 2
      BY <1>2, <1>3, TrailerIs, SMT DEF Longer
    <2> HIDE DEF g
    <2>3. /\ Len(g) = p + 2
          /\ \A i \in 1 .. p + 2 : g[i] = IF i \in p + 1 .. p + 2 THEN Trailer[i - p]
                                          ELSE IF i <= p THEN Body[i] ELSE Bad
      BY <1>2, <2>1, <2>2, Zenon
    <2>4. g[p + 1] = TrailerHead /\ g[p + 2] = TrailerEnd
      <3>1. /\ p + 1 \in 1 .. p + 2 /\ p + 1 \in p + 1 .. p + 2 /\ p + 1 - p = 1
            /\ p + 2 \in 1 .. p + 2 /\ p + 2 \in p + 1 .. p + 2 /\ p + 2 - p = 2
        BY <1>3, SMT
      <3>2. g[p + 1] = Trailer[p + 1 - p] /\ g[p + 2] = Trailer[p + 2 - p]
        BY <1>3, <2>3, SMT
      <3> QED
        BY <3>1, <3>2, TrailerIs, SMT
    <2>5. Lost(scheme, buffered, g) = {}
      <3> SUFFICES ASSUME NEW i \in 1 .. p PROVE g[i] # Bad
        BY Zenon DEF Lost, p
      <3>1. i \in 1 .. p + 2 /\ i \notin p + 1 .. p + 2 /\ i <= p
        BY <1>3, SMT
      <3>2. g[i] = Cell(scheme, buffered, i)
        BY <1>2, <2>3, <3>1, Zenon
      <3> QED
        BY <1>3, <3>1, <3>2, Types, CellType, Zenon DEF IInv
    <2>6. hits = 0 /\ Cardinality({}) = 0
      BY <1>1, BeforeDone, FS_EmptySet, Zenon
    <2>7. Cardinality(Lost(scheme, buffered, g)) <= hits
      BY <2>5, <2>6, SMT
    <2>8. Hurt(scheme, buffered, g, hits)
      BY <1>3, <2>3, <2>4, <2>7, Zenon DEF Hurt, p
    <2>9. file' = g
      BY <1>1, Zenon DEF g
    <2> QED
      BY <2>8, <2>9, Zenon
  <1>6. HistoryInv'
    <2>1. life' # "settled" /\ hits' = hits
      BY <1>1, BeforeDone, Zenon DEF histVars
    <2> QED
      BY <1>1, <1>5, <2>1, Zenon DEF HistoryInv
  <1>7. Manifest' = Manifest
    BY <1>1, Zenon DEF Manifest
  <1>8. TypeOK'
    <2>1. man'.plainSize = buffered'
      BY <1>1, ManifestIs, Zenon
    <2> QED
      BY <1>1, <1>4, <2>1, Zenon DEF IInv, TypeOK, callVars, histVars
  <1>9. WriterInv'
    BY <1>1, <1>7, BeforeDone, Zenon DEF WriterInv, Verdicts, callVars, histVars
  <1> QED
    BY <1>4, <1>6, <1>8, <1>9, Zenon DEF IInv

LEMMA WriteTrailerFailsInv ==
  ASSUME IInv, WriteTrailerFails
  PROVE  IInv'
  <1>1. /\ wpc = "drained" /\ wpc' = "failed"
        /\ UNCHANGED <<scheme, buffered, man, disk, callVars, histVars>>
    BY Zenon DEF WriteTrailerFails
  <1>2. PICK n \in 0 .. TrailerCells - 1 :
          file' = Put(file, PayloadCells(scheme, buffered), SubSeq(Trailer, 1, n))
    BY Zenon DEF WriteTrailerFails
  <1> DEFINE cells == SubSeq(Trailer, 1, n)
  <1>3. n \in 0 .. Len(Trailer) /\ n <= 2
    BY TrailerIs, SMT DEF TrailerCells
  <1>4. cells \in Seq(Cells) /\ Len(cells) = n /\ \A i \in 1 .. n : cells[i] = Trailer[i]
    BY <1>3, TrailerIs, PrefixIs, Zenon
  <1>5. file' = Put(file, PayloadCells(scheme, buffered), cells)
    BY <1>2, Zenon
  <1> HIDE DEF cells
  <1>6. file' \in Seq(Cells) /\ ContentInv' /\ PlanInv' /\ ReportIsTrue'
    BY <1>1, <1>3, <1>4, <1>5, TrailerPut, Zenon
  <1>7. TypeOK'
    BY <1>1, <1>6, Zenon DEF IInv, TypeOK, callVars, histVars
  <1>8. WriterInv'
    BY <1>1, BeforeDone, Zenon DEF WriterInv, Verdicts, callVars, histVars
  <1>9. HistoryInv'
    BY <1>1, Zenon DEF HistoryInv
  <1> QED
    BY <1>6, <1>7, <1>8, <1>9, Zenon DEF IInv

-----------------------------------------------------------------------------
(* The medium.                                                             *)

\* what is said about a file stays true while the file stays
LEMMA SameFile ==
  ASSUME UNCHANGED <<file, man, scheme, buffered>>, UNCHANGED <<todo, fixed, rep, quiet, strays>>
  PROVE  (PlanInv => PlanInv') /\ (ReportIsTrue => ReportIsTrue')
  <1>1. PlanInv => PlanInv'
    BY Zenon DEF PlanInv, Plan
  <1>2. Loads(file)' <=> Loads(file)
    BY Zenon DEF Loads, LoadGCMOnly, LoadStrong, decodeStrongArea
  <1>3. ReportIsTrue => ReportIsTrue'
    <2>1. gatherStrongSlots(file)' = gatherStrongSlots(file)
      BY Zenon DEF gatherStrongSlots
    <2> QED
      BY <1>2, <2>1, Zenon DEF ReportIsTrue
  <1> QED
    BY <1>1, <1>3, Zenon

LEMMA WriteBackInv ==
  ASSUME IInv, WriteBack
  PROVE  IInv'
  <1>1. /\ disk # file /\ disk' = file
        /\ life' = IF wpc = "done" /\ life = "new" THEN "settled" ELSE life
        /\ UNCHANGED <<scheme, buffered, wpc, man, file, opened, todo, fixed, rep>>
        /\ UNCHANGED <<quiet, hits, strays, faults>>
    BY Zenon DEF WriteBack, writerVars, callVars
  <1>2. TypeOK'
    BY <1>1, Zenon DEF IInv, TypeOK
  <1>3. WriterInv'
    <2>1. wpc # "open"
      BY <1>1, Zenon DEF IInv, WriterInv
    <2>2. Manifest' = Manifest /\ Body' = Body
      BY <1>1, Zenon DEF Manifest, Body
    <2>3. life' = "settled" => wpc = "done"
      BY <1>1, Zenon DEF IInv, WriterInv
    <2> QED
      BY <1>1, <2>1, <2>2, <2>3, Zenon DEF IInv, WriterInv
  <1>4. ContentInv'
    <2>1. Len(file) <= Len(file)
      BY Types, SMT DEF IInv
    <2> QED
      BY <1>1, <2>1, Zenon DEF IInv, ContentInv
  <1>5. HistoryInv'
    <2>1. life' # "crashed" => life # "crashed"
      BY <1>1, Zenon
    <2>2. life' = "settled" => life # "crashed"
      BY <1>1, Zenon
    <2> QED
      BY <1>1, <2>1, <2>2, Zenon DEF IInv, HistoryInv
  <1>6. PlanInv' /\ ReportIsTrue'
    BY <1>1, SameFile, Zenon DEF IInv
  <1> QED
    BY <1>2, <1>3, <1>4, <1>5, <1>6, Zenon DEF IInv

(* The file after a power failure: each cell comes from the file or from   *)
(* the medium, or is lost.                                                 *)
LEMMA PowerFailureInv ==
  ASSUME IInv, PowerFailure
  PROVE  IInv'
  <1> DEFINE p == PayloadCells(scheme, buffered)
             Old(i) == IF i <= Len(disk) THEN disk[i] ELSE Bad
  <1>1. /\ faults < MaxFaults /\ faults' = faults + 1 /\ disk' = file'
        /\ wpc' = IF wpc \in {"open", "drained"} THEN "dead" ELSE wpc
        /\ life' = IF life = "new" THEN "crashed" ELSE life
        /\ opened' = FALSE /\ todo' = {} /\ fixed' = << >> /\ rep' = "none"
        /\ quiet' = FALSE
        /\ UNCHANGED <<scheme, buffered, man, hits, strays>>
    BY Zenon DEF PowerFailure
  <1>2. PICK kept \in SUBSET Unsynced : \E n \in Len(disk) .. Len(file) :
          file' = [i \in 1 .. n |-> IF i \in Unsynced \ kept THEN Old(i) ELSE file[i]]
    BY Zenon DEF PowerFailure
  <1>3. PICK n \in Len(disk) .. Len(file) :
          file' = [i \in 1 .. n |-> IF i \in Unsynced \ kept THEN Old(i) ELSE file[i]]
    BY <1>2, Zenon
  <1>4. /\ file \in Seq(Cells) /\ disk \in Seq(Cells)
        /\ Len(file) \in Nat /\ Len(disk) \in Nat
        /\ p \in Nat \ {0} /\ Whole(scheme, buffered) = p + 2
    BY Types, Zenon DEF IInv
  <1>5. n \in Nat /\ Len(disk) <= n /\ n <= Len(file)
    BY <1>4, SMT
  <1>6. \A i \in 1 .. n : /\ file'[i] \in {file[i], Old(i)}
                          /\ i \in 1 .. Len(file) /\ (i <= Len(disk) => i \in 1 .. Len(disk))
    <2>1. \A i \in 1 .. n : i \in 1 .. Len(file) /\ (i <= Len(disk) => i \in 1 .. Len(disk))
      BY <1>4, <1>5, SMT
    <2>2. \A i \in 1 .. n : file'[i] = IF i \in Unsynced \ kept THEN Old(i) ELSE file[i]
      BY <1>3, Zenon
    <2> QED
      BY <2>1, <2>2, Zenon
  <1>7. file' \in Seq(Cells) /\ Len(file') = n
    <2>1. ASSUME NEW i \in 1 .. n
          PROVE  (IF i \in Unsynced \ kept THEN Old(i) ELSE file[i]) \in Cells
      <3>1. file[i] \in Cells
        BY <1>4, <1>6, ElementOfSeq, Zenon
      <3>2. Old(i) \in Cells
        BY <1>4, <1>6, ElementOfSeq, SymbolCells, Zenon
      <3> QED
        BY <3>1, <3>2, Zenon
    <2>2. file' \in [1 .. n -> Cells]
      BY <1>3, <2>1, Zenon
    <2> QED
      BY <1>5, <2>2, FunctionSeq, Zenon
  <1> HIDE DEF p
  <1>8. TypeOK'
    <2>1. faults' \in 0 .. MaxFaults
      BY <1>1, SmallVaultAssumption, SMT DEF IInv, TypeOK
    <2>2. wpc' \in {"open", "drained", "done", "failed", "dead"}
          /\ life' \in {"new", "settled", "crashed"}
      BY <1>1, Zenon DEF IInv, TypeOK
    <2> QED
      BY <1>1, <1>7, <2>1, <2>2, Zenon DEF IInv, TypeOK
  <1>9. WriterInv'
    <2>1. wpc' = "done" <=> wpc = "done"
      BY <1>1, Zenon
    <2>2. wpc' # "open" /\ wpc' # "drained"
      BY <1>1, Zenon
    <2>3. Manifest' = Manifest
      BY <1>1, Zenon DEF Manifest
    <2>4. life' = "settled" => life = "settled"
      BY <1>1, Zenon
    <2> QED
      BY <1>1, <2>1, <2>2, <2>3, <2>4, Zenon DEF IInv, WriterInv, Verdicts
  <1>10. ContentInv'
    <2> SUFFICES ASSUME strays = 0
                 PROVE  Keeps(scheme, buffered, file') /\ Len(file') <= Len(file')
      BY <1>1, Zenon DEF ContentInv
    <2>1. Keeps(scheme, buffered, file) /\ Keeps(scheme, buffered, disk)
      BY Zenon DEF IInv, ContentInv
    <2>2. n <= Whole(scheme, buffered)
      <3>1. Len(file) <= Whole(scheme, buffered)
        BY <2>1, Zenon DEF Keeps
      <3>2. Whole(scheme, buffered) \in Nat
        BY <1>4, SMT
      <3> QED
        BY <1>4, <1>5, <3>1, <3>2, SMT
    <2>3. \A i \in 1 .. n : file'[i] \in {Cell(scheme, buffered, i), Bad}
      BY <1>6, <2>1, Zenon DEF Keeps
    <2>4. Len(file') <= Len(file')
      BY <1>5, <1>7, SMT
    <2> QED
      BY <1>7, <2>2, <2>3, <2>4, Zenon DEF Keeps
  <1>11. HistoryInv'
    <2> SUFFICES ASSUME strays = 0, wpc = "done", life = "settled"
                 PROVE  Hurt(scheme, buffered, file', hits)
      <3>1. wpc' = "done" => wpc = "done"
        BY <1>1, Zenon
      <3>2. life' # "crashed" => life = "settled"
        BY <1>1, Zenon DEF IInv, TypeOK
      <3>3. life' = "settled" => life = "settled"
        BY <1>1, Zenon
      <3> QED
        BY <1>1, <3>1, <3>2, <3>3, Zenon DEF HistoryInv
    <2>1. /\ Hurt(scheme, buffered, file, hits) /\ Hurt(scheme, buffered, disk, hits)
          /\ Lost(scheme, buffered, file) \subseteq Lost(scheme, buffered, disk)
      BY Zenon DEF IInv, HistoryInv
    <2>2. Len(file) = p + 2 /\ Len(disk) = p + 2
      BY <1>4, <2>1, Zenon DEF Hurt
    <2>3. n = p + 2 /\ \A i \in 1 .. n : i <= Len(disk)
      BY <1>4, <1>5, <2>2, SMT
    <2>4. \A i \in 1 .. n : file'[i] \in {file[i], disk[i]}
      BY <1>6, <2>3, Zenon
    <2>5. p + 1 \in 1 .. n /\ p + 2 \in 1 .. n /\ 1 .. p \subseteq 1 .. n
      BY <1>4, <2>3, SMT
    <2>6. file'[p + 1] = TrailerHead /\ file'[p + 2] = TrailerEnd
      BY <2>1, <2>4, <2>5, Zenon DEF Hurt, p
    <2>7. Lost(scheme, buffered, file') \subseteq Lost(scheme, buffered, disk)
      BY <2>1, <2>4, <2>5, Zenon DEF Lost, p
    <2>8. Cardinality(Lost(scheme, buffered, file')) <= hits
      BY <2>1, <2>7, LostShrinks, Types, Zenon DEF IInv, Hurt
    <2> QED
      BY <1>4, <1>7, <2>3, <2>6, <2>8, Zenon DEF Hurt, p
  <1>12. PlanInv' /\ ReportIsTrue'
    BY <1>1, Zenon DEF PlanInv, ReportIsTrue
  <1> QED
    BY <1>8, <1>9, <1>10, <1>11, <1>12, Zenon DEF IInv

(* What the four kinds of damage have in common.                           *)
LEMMA DamagedInv ==
  ASSUME IInv, Damaged, file' \in Seq(Cells), hits' \in Nat, strays' \in Nat,
         ContentInv', HistoryInv'
  PROVE  IInv'
  <1>1. /\ wpc = "done" /\ faults < MaxFaults /\ faults' = faults + 1
        /\ disk' = file' /\ quiet' = FALSE
        /\ rep' = IF todo = {} THEN "none" ELSE rep
        /\ UNCHANGED <<scheme, buffered, wpc, man, opened, todo, fixed, life>>
    BY Zenon DEF Damaged, writerVars
  <1>2. TypeOK'
    <2>1. faults' \in 0 .. MaxFaults
      BY <1>1, SmallVaultAssumption, SMT DEF IInv, TypeOK
    <2> QED
      BY <1>1, <2>1, Zenon DEF IInv, TypeOK
  <1>3. WriterInv'
    <2>1. Manifest' = Manifest
      BY <1>1, Zenon DEF Manifest
    <2>2. todo # {} => opened /\ rep = "repairing"
      BY Zenon DEF IInv, WriterInv
    <2> QED
      BY <1>1, <2>1, <2>2, Zenon DEF IInv, WriterInv, Verdicts
  <1>4. PlanInv' /\ ReportIsTrue'
    BY <1>1, Zenon DEF PlanInv, ReportIsTrue
  <1> QED
    BY <1>2, <1>3, <1>4, Zenon DEF IInv

\* something displaced: nothing is claimed of the content any more
LEMMA StraysInv ==
  ASSUME IInv, Damaged, UNCHANGED hits, strays' = strays + 1, file' \in Seq(Cells)
  PROVE  IInv'
  <1>1. strays' # 0 /\ strays' \in Nat /\ hits' \in Nat
    BY SMT DEF IInv, TypeOK
  <1>2. ContentInv' /\ HistoryInv'
    BY <1>1, Zenon DEF ContentInv, HistoryInv
  <1> QED
    BY <1>1, <1>2, DamagedInv, Zenon

LEMMA StrayInv ==
  ASSUME IInv, Stray
  PROVE  IInv'
  <1>1. PICK i \in BodyCells \cap 1 .. Len(file) :
          \E v \in Misplaced : file' = [file EXCEPT ![i] = v]
    BY Zenon DEF Stray
  <1>2. PICK v \in Misplaced : file' = [file EXCEPT ![i] = v]
    BY <1>1, Zenon
  <1>3. v \in Cells /\ file \in Seq(Cells)
    BY SmallVaultAssumption, SymbolCells, Types, Zenon DEF IInv
  <1>4. file' \in Seq(Cells)
    BY <1>2, <1>3, ExceptSeq, Zenon
  <1> QED
    BY <1>4, StraysInv, Zenon DEF Stray

LEMMA CutInv ==
  ASSUME IInv, Cut
  PROVE  IInv'
  <1>1. PICK a \in 1 .. Len(file) : \E b \in a .. Len(file) :
          file' = SubSeq(file, 1, a - 1) \o SubSeq(file, b + 1, Len(file))
    BY Zenon DEF Cut
  <1>2. PICK b \in a .. Len(file) :
          file' = SubSeq(file, 1, a - 1) \o SubSeq(file, b + 1, Len(file))
    BY <1>1, Zenon
  <1>3. file \in Seq(Cells) /\ Len(file) \in Nat
    BY Types, Zenon DEF IInv
  <1>4. /\ \A i \in 1 .. a - 1 : file[i] \in Cells
        /\ \A i \in b + 1 .. Len(file) : file[i] \in Cells
    <2>1. /\ \A i \in 1 .. a - 1 : i \in 1 .. Len(file)
          /\ \A i \in b + 1 .. Len(file) : i \in 1 .. Len(file)
      BY <1>3, SMT
    <2> QED
      BY <1>3, <2>1, ElementOfSeq, Zenon
  <1>5. 1 \in Int /\ a - 1 \in Int /\ b + 1 \in Int /\ Len(file) \in Int
    BY <1>3, SMT
  <1>6. SubSeq(file, 1, a - 1) \in Seq(Cells) /\ SubSeq(file, b + 1, Len(file)) \in Seq(Cells)
    BY <1>4, <1>5, SubSeqProperties, Zenon
  <1>7. file' \in Seq(Cells)
    BY <1>2, <1>6, ConcatProperties, Zenon
  <1> QED
    BY <1>7, StraysInv, Zenon DEF Cut

LEMMA ExtendInv ==
  ASSUME IInv, Extend
  PROVE  IInv'
  <1>1. file' \in Seq(Cells)
    BY Types, SymbolCells, AppendProperties, Zenon DEF IInv, Extend
  <1> QED
    BY <1>1, StraysInv, Zenon DEF Extend

LEMMA HitInv ==
  ASSUME IInv, Hit
  PROVE  IInv'
  <1> DEFINE p == PayloadCells(scheme, buffered)
  <1>1. PICK S \in SUBSET (BodyCells \cap 1 .. Len(file)) :
          /\ file' = [i \in 1 .. Len(file) |-> IF i \in S THEN Bad ELSE file[i]]
          /\ hits' = hits + Cardinality(S)
    BY Zenon DEF Hit
  <1>2. /\ Damaged /\ wpc = "done" /\ disk = file /\ disk' = file'
        /\ UNCHANGED <<scheme, buffered, wpc, man, opened, todo, fixed, life, strays>>
    BY Zenon DEF Hit, Damaged, writerVars
  <1>3. BodyCells = 1 .. p
    BY <1>2, ManifestIs, Zenon DEF BodyCells, IInv, WriterInv
  <1>4. /\ file \in Seq(Cells) /\ Len(file) \in Nat /\ hits \in Nat /\ strays \in Nat
        /\ p \in Nat \ {0} /\ Whole(scheme, buffered) = p + 2
    BY Types, Zenon DEF IInv
  <1>5. IsFiniteSet(S) /\ Cardinality(S) \in Nat /\ S \subseteq 1 .. p
    <2>1. IsFiniteSet(1 .. p)
      BY <1>4, FS_Interval, SMT
    <2>2. S \in SUBSET (1 .. p)
      BY <1>3, Zenon
    <2> QED
      BY <2>1, <2>2, FS_Subset, FS_CardinalityType, Zenon
  <1> HIDE DEF p
  <1>6. \A i \in 1 .. Len(file) : file'[i] = IF i \in S THEN Bad ELSE file[i]
    BY <1>1, Zenon
  <1>7. file' \in Seq(Cells) /\ Len(file') = Len(file)
    <2>1. \A i \in 1 .. Len(file) : (IF i \in S THEN Bad ELSE file[i]) \in Cells
      BY <1>4, ElementOfSeq, SymbolCells, Zenon
    <2>2. file' \in [1 .. Len(file) -> Cells]
      BY <1>1, <2>1, Zenon
    <2> QED
      BY <1>4, <2>2, FunctionSeq, Zenon
  <1>8. hits' \in Nat /\ strays' \in Nat
    BY <1>1, <1>2, <1>4, <1>5, SMT
  <1>9. ContentInv'
    <2> SUFFICES ASSUME strays = 0
                 PROVE  /\ Keeps(scheme, buffered, file') /\ Len(file') <= Len(file')
                        /\ \A i \in todo : /\ fixed[i] = Written[i]
                                           /\ i <= Len(file') => file'[i] = Bad
      BY <1>2, Zenon DEF ContentInv
    <2>1. /\ Keeps(scheme, buffered, file)
          /\ \A i \in todo : fixed[i] = Written[i] /\ (i <= Len(file) => file[i] = Bad)
      BY Zenon DEF IInv, ContentInv
    <2>2. Keeps(scheme, buffered, file')
      BY <1>6, <1>7, <2>1, Zenon DEF Keeps
    <2>3. Len(file') <= Len(file')
      BY <1>4, <1>7, SMT
    <2>4. \A i \in todo : i <= Len(file) => i \in 1 .. Len(file)
      <3>1. \A i \in Slots : i <= Len(file) => i \in 1 .. Len(file)
        BY <1>4, SMT DEF Slots
      <3> QED
        BY <3>1, Types, Zenon DEF IInv
    <2> QED
      BY <1>6, <1>7, <2>1, <2>2, <2>3, <2>4, Zenon
  <1>10. HistoryInv'
    <2> SUFFICES ASSUME strays = 0, life # "crashed"
                 PROVE  Hurt(scheme, buffered, file', hits')
      BY <1>2, Zenon DEF HistoryInv
    <2>1. Hurt(scheme, buffered, file, hits)
      BY <1>2, Zenon DEF IInv, HistoryInv
    <2>2. Len(file) = p + 2
      BY <1>4, <2>1, Zenon DEF Hurt
    <2>3. /\ p + 1 \in 1 .. Len(file) /\ p + 2 \in 1 .. Len(file)
          /\ p + 1 \notin 1 .. p /\ p + 2 \notin 1 .. p /\ 1 .. p \subseteq 1 .. Len(file)
      BY <1>4, <2>2, SMT
    <2>4. file'[p + 1] = TrailerHead /\ file'[p + 2] = TrailerEnd
      <3>1. file[p + 1] = TrailerHead /\ file[p + 2] = TrailerEnd
        BY <2>1, Zenon DEF Hurt, p
      <3> QED
        BY <1>5, <1>6, <2>3, <3>1, Zenon
    <2>5. Lost(scheme, buffered, file') \subseteq Lost(scheme, buffered, file) \cup S
      BY <1>6, <2>3, Zenon DEF Lost, p
    <2>6. Cardinality(Lost(scheme, buffered, file')) <= hits'
      BY <1>1, <1>4, <1>5, <2>1, <2>5, LostGrows, Types, Zenon DEF IInv, Hurt
    <2> QED
      BY <1>4, <1>7, <2>2, <2>4, <2>6, Zenon DEF Hurt, p
  <1> QED
    BY <1>2, <1>7, <1>8, <1>9, <1>10, DamagedInv, Zenon

-----------------------------------------------------------------------------
(* Calls on the vault.                                                     *)

\* a call that writes nothing
LEMMA ReadOnlyInv ==
  ASSUME IInv, todo = {}, opened' \in BOOLEAN, opened' => wpc = "done",
         rep' \in Verdicts => wpc = "done", rep' # "repaired", quiet' = TRUE,
         UNCHANGED <<scheme, buffered, wpc, man, file, disk, todo, fixed>>,
         UNCHANGED <<life, hits, strays, faults>>
  PROVE  TypeOK' /\ WriterInv' /\ ContentInv' /\ HistoryInv' /\ PlanInv'
  <1>1. TypeOK'
    BY Zenon DEF IInv, TypeOK
  <1>2. WriterInv'
    <2>1. Manifest' = Manifest /\ Body' = Body
      BY Zenon DEF Manifest, Body
    <2> QED
      BY <2>1, Zenon DEF IInv, WriterInv
  <1>3. ContentInv' /\ HistoryInv' /\ PlanInv'
    BY Zenon DEF IInv, ContentInv, HistoryInv, PlanInv
  <1> QED
    BY <1>1, <1>2, <1>3, Zenon

LEMMA OpenInv ==
  ASSUME IInv, NEW keyIsRight \in BOOLEAN, Open(keyIsRight)
  PROVE  IInv'
  <1>1. /\ todo = {} /\ opened' = (keyIsRight /\ Opens(file)) /\ quiet' = TRUE
        /\ rep' \in {"no manifest", "manifest auth", "opened"}
        /\ UNCHANGED <<scheme, buffered, wpc, man, file, disk, todo, fixed>>
        /\ UNCHANGED <<life, hits, strays, faults>>
    BY Zenon DEF Open, writerVars
  <1>2. opened' \in BOOLEAN /\ (opened' => wpc = "done")
    <2>1. Opens(file) => wpc = "done"
      BY OpensIs, Types, Zenon DEF IInv
    <2> QED
      BY <1>1, <2>1, Zenon
  <1>3. rep' \notin Verdicts
    BY <1>1, Zenon DEF Verdicts
  <1>4. TypeOK' /\ WriterInv' /\ ContentInv' /\ HistoryInv' /\ PlanInv'
    BY <1>1, <1>2, <1>3, ReadOnlyInv, Zenon DEF Verdicts
  <1>5. ReportIsTrue'
    BY <1>3, Zenon DEF ReportIsTrue, Verdicts
  <1> QED
    BY <1>4, <1>5, Zenon DEF IInv

\* an opened vault has its manifest
LEMMA OpenedDone ==
  ASSUME IInv, opened
  PROVE  wpc = "done" /\ man = Manifest /\ man.scheme = scheme
  <1>1. wpc = "done" /\ man = Manifest
    BY Zenon DEF IInv, WriterInv
  <1> QED
    BY <1>1, ManifestIs, Zenon

LEMMA LoadAllInv ==
  ASSUME IInv, LoadAll
  PROVE  IInv'
  <1>1. /\ opened /\ todo = {} /\ quiet' = TRUE /\ opened' = opened
        /\ rep' = IF Loads(file) THEN "plaintext" ELSE "error"
        /\ UNCHANGED <<scheme, buffered, wpc, man, file, disk, todo, fixed>>
        /\ UNCHANGED <<life, hits, strays, faults>>
    BY Zenon DEF LoadAll, writerVars
  <1>2. wpc = "done" /\ opened' \in BOOLEAN
    BY <1>1, OpenedDone, Zenon DEF IInv, TypeOK
  <1>3. TypeOK' /\ WriterInv' /\ ContentInv' /\ HistoryInv' /\ PlanInv'
    BY <1>1, <1>2, ReadOnlyInv, Zenon
  <1>4. ReportIsTrue'
    <2>1. Loads(file)' <=> Loads(file)
      BY <1>1, Zenon DEF Loads, LoadGCMOnly, LoadStrong, decodeStrongArea
    <2> QED
      BY <1>1, <2>1, Zenon DEF ReportIsTrue
  <1> QED
    BY <1>3, <1>4, Zenon DEF IInv

(* A scrub that has found something to repair knows what to write.         *)
LEMMA RepairingInv ==
  ASSUME IInv, opened, todo = {}, man.scheme = "rs-strong", LoadStrong(file),
         BadSlots(gatherStrongSlots(file)) # {}, rep' = "repairing", quiet' = TRUE,
         todo' = BadSlots(gatherStrongSlots(file)),
         fixed' = Reconstruct(gatherStrongSlots(file)),
         UNCHANGED <<scheme, buffered, wpc, man, file, disk, opened>>,
         UNCHANGED <<life, hits, strays, faults>>
  PROVE  IInv'
  <1> DEFINE s == gatherStrongSlots(file)
  <1>1. wpc = "done" /\ scheme = "rs-strong" /\ buffered \in Nat /\ file \in Seq(Cells)
    BY OpenedDone, Types, Zenon DEF IInv
  <1>2. s \in Shards
    BY <1>1, GatherIs, Zenon
  <1>3. Reconstructible(s) /\ Decodes(buffered, Reconstruct(s))
    <2>1. StrongLoads(buffered, file)
      BY <1>1, LoadsIs, Zenon DEF IInv
    <2> QED
      BY <2>1, Zenon DEF StrongLoads
  <1>4. Cardinality(GoodSlots(s)) >= KStrong /\ Cardinality(BadSlots(s)) <= MStrong
    BY <1>3, WhenReconstructible, Zenon
  <1> HIDE DEF s
  <1>5. todo' = BadSlots(s) /\ fixed' = Reconstruct(s) /\ gatherStrongSlots(file') = s
    BY Zenon DEF s
  <1>6. TypeOK'
    <2>1. fixed' \in [Slots -> Symbols] /\ todo' \subseteq Slots
      BY <1>2, <1>4, <1>5, ReconstructType, GoodAndBad, Zenon
    <2> QED
      BY <1>1, <2>1, Zenon DEF IInv, TypeOK
  <1>7. WriterInv'
    <2>1. Manifest' = Manifest /\ Body' = Body
      BY Zenon DEF Manifest, Body
    <2> QED
      BY <1>1, <2>1, Zenon DEF IInv, WriterInv, Verdicts
  <1>8. ContentInv'
    <2> SUFFICES ASSUME strays = 0, NEW i \in BadSlots(s)
                 PROVE  Reconstruct(s)[i] = Written[i] /\ (i <= Len(file) => file[i] = Bad)
      BY <1>5, Zenon DEF IInv, ContentInv
    <2>1. Keeps("rs-strong", buffered, file)
      BY <1>1, Zenon DEF IInv, ContentInv
    <2>2. i \in Slots /\ s[i] = Bad
      BY GoodAndBad, Zenon
    <2>3. /\ \A j \in Slots : j <= Len(file) => s[j] = file[j]
          /\ \A j \in Slots : Reconstruct(s)[j] = Written[j]
      BY <1>1, <1>3, <2>1, KeptSlots, Zenon DEF s
    <2> QED
      BY <2>2, <2>3, Zenon
  <1>9. HistoryInv'
    BY Zenon DEF IInv, HistoryInv
  <1>10. PlanInv'
    <2>1. Plan(s)'
      <3>1. /\ \A i \in GoodSlots(s) : Reconstruct(s)[i] = s[i]
            /\ \A i \in BadSlots(s) : Reconstruct(s)[i] = Codeword(s)[i]
        BY <1>2, <1>4, ReconstructType, Zenon
      <3> QED
        BY <1>3, <1>4, <1>5, <3>1, Zenon DEF Plan, s
    <2> QED
      BY <1>5, <2>1, Zenon DEF PlanInv, s
  <1>11. ReportIsTrue'
    BY Zenon DEF ReportIsTrue
  <1> QED
    BY <1>6, <1>7, <1>8, <1>9, <1>10, <1>11, Zenon DEF IInv

LEMMA VerifyOrScrubInv ==
  ASSUME IInv, NEW writes \in BOOLEAN, VerifyOrScrub(writes)
  PROVE  IInv'
  <1>1. /\ opened /\ todo = {} /\ quiet' = TRUE
        /\ UNCHANGED <<scheme, buffered, wpc, man, file, disk, opened>>
        /\ UNCHANGED <<life, hits, strays, faults>>
    BY Zenon DEF VerifyOrScrub, writerVars
  <1>2. wpc = "done" /\ man.scheme = scheme /\ opened \in BOOLEAN
    BY <1>1, OpenedDone, Zenon DEF IInv, TypeOK
  <1>3. Loads(file)' <=> Loads(file)
    BY <1>1, Zenon DEF Loads, LoadGCMOnly, LoadStrong, decodeStrongArea
  <1>4. ASSUME UNCHANGED <<todo, fixed>>,
               \/ rep' \in {"clean", "repairable"} /\ Loads(file)
               \/ rep' = "lost" /\ ~Loads(file)
        PROVE  IInv'
    <2>1. TypeOK' /\ WriterInv' /\ ContentInv' /\ HistoryInv' /\ PlanInv'
      BY <1>1, <1>2, <1>4, ReadOnlyInv, Zenon
    <2>2. ReportIsTrue'
      BY <1>3, <1>4, Zenon DEF ReportIsTrue
    <2> QED
      BY <2>1, <2>2, Zenon DEF IInv
  <1>5. CASE ScrubGCMOnly
    BY <1>4, <1>5, Zenon DEF ScrubGCMOnly
  <1>6. CASE ScrubStrong(writes)
    <2>1. man.scheme = "rs-strong" /\ (Loads(file) <=> LoadStrong(file))
      BY <1>6, Zenon DEF ScrubStrong, Loads
    <2>2. \/ ~LoadStrong(file) /\ rep' = "lost" /\ UNCHANGED <<todo, fixed>>
          \/ LoadStrong(file) /\ rep' \in {"clean", "repairable"} /\ UNCHANGED <<todo, fixed>>
          \/ /\ LoadStrong(file) /\ BadSlots(gatherStrongSlots(file)) # {}
             /\ rep' = "repairing" /\ todo' = BadSlots(gatherStrongSlots(file))
             /\ fixed' = Reconstruct(gatherStrongSlots(file))
      BY <1>6, Zenon DEF ScrubStrong
    <2> QED
      BY <1>1, <1>4, <2>1, <2>2, RepairingInv, Zenon
  <1> QED
    BY <1>5, <1>6, Zenon DEF VerifyOrScrub

-----------------------------------------------------------------------------
(* The writes of a scrub.                                                  *)

SlotValues == Symbols \cup {Bad}

\* g is f after v was written to slot i
SlotPut(f, i, v, g) == g = Put(f, i - 1, <<v>>)

\* a slot of a file, written
LEMMA SlotWritten ==
  ASSUME NEW f \in Seq(Cells), NEW i \in Slots, NEW v \in SlotValues,
         NEW g, SlotPut(f, i, v, g)
  PROVE  /\ g \in Seq(Cells) /\ Len(g) \in Nat
         /\ i <= Len(f) => Len(g) = Len(f)
         /\ \A j \in 1 .. Len(g) : g[j] = IF j = i THEN v
                                          ELSE IF j <= Len(f) THEN f[j] ELSE Bad
         /\ gatherStrongSlots(g) \in Shards
         /\ \A j \in Slots : gatherStrongSlots(g)[j] =
                               IF j = i THEN v ELSE gatherStrongSlots(f)[j]
  <1>1. i \in Nat \ {0} /\ v \in Cells /\ Len(f) \in Nat
    <2>1. i \in Nat \ {0}
      BY SMT DEF Slots
    <2> QED
      BY <2>1, SymbolCells, LenProperties, Zenon DEF SlotValues
  <1>2. /\ g \in Seq(Cells) /\ Len(g) = Longer(Len(f), i)
        /\ \A j \in 1 .. Longer(Len(f), i) :
             g[j] = IF j = i THEN v ELSE IF j <= Len(f) THEN f[j] ELSE Bad
    <2> DEFINE h == Put(f, i - 1, <<v>>)
    <2>1. /\ h \in Seq(Cells) /\ Len(h) = Longer(Len(f), i)
          /\ \A j \in 1 .. Longer(Len(f), i) :
               h[j] = IF j = i THEN v ELSE IF j <= Len(f) THEN f[j] ELSE Bad
      BY <1>1, PutOne, ZenonT(60)
    <2> HIDE DEF h
    <2>2. g = h
      BY Zenon DEF SlotPut, h
    <2> QED
      BY <2>1, <2>2, Zenon
  <1>3. /\ Longer(Len(f), i) \in Nat /\ i <= Longer(Len(f), i)
        /\ Len(f) <= Longer(Len(f), i) /\ (i <= Len(f) => Longer(Len(f), i) = Len(f))
    BY <1>1, SMT DEF Longer
  <1>4. /\ Len(g) \in Nat /\ i <= Len(g) /\ Len(f) <= Len(g)
        /\ i <= Len(f) => Len(g) = Len(f)
    BY <1>2, <1>3, Zenon
  <1>5. \A j \in 1 .. Len(g) : g[j] = IF j = i THEN v
                                      ELSE IF j <= Len(f) THEN f[j] ELSE Bad
    BY <1>2, Zenon
  <1>6. gatherStrongSlots(g) \in Shards
        /\ \A j \in Slots : gatherStrongSlots(g)[j] = IF j <= Len(g) /\ g[j] \in Symbols
                                                      THEN g[j] ELSE Bad
    BY <1>2, GatherIs, Zenon
  <1>7. \A j \in Slots : gatherStrongSlots(f)[j] = IF j <= Len(f) /\ f[j] \in Symbols
                                                   THEN f[j] ELSE Bad
    BY GatherIs, Zenon
  <1>8. \A j \in Slots : /\ j <= Len(g) => j \in 1 .. Len(g)
                         /\ j <= Len(f) => j <= Len(g)
    BY <1>1, <1>4, SMT DEF Slots
  <1>9. ASSUME NEW j \in Slots
        PROVE  gatherStrongSlots(g)[j] = IF j = i THEN v ELSE gatherStrongSlots(f)[j]
    <2>1. CASE j = i
      <3>1. g[i] = v /\ i <= Len(g)
        BY <1>4, <1>5, <1>8, Zenon
      <3> QED
        BY <1>6, <2>1, <3>1, Zenon DEF SlotValues
    <2>2. CASE j # i /\ j <= Len(f)
      <3>1. g[j] = f[j] /\ j <= Len(g)
        BY <1>5, <1>8, <2>2, Zenon
      <3> QED
        BY <1>6, <1>7, <2>2, <3>1, Zenon
    <2>3. CASE j # i /\ ~(j <= Len(f))
      <3>1. j <= Len(g) => g[j] = Bad
        BY <1>5, <1>8, <2>3, Zenon
      <3> QED
        BY <1>6, <1>7, <2>3, <3>1, Zenon
    <2> QED
      BY <2>1, <2>2, <2>3, Zenon
  <1> QED
    BY <1>2, <1>4, <1>5, <1>6, <1>9, Zenon

\* in a whole vault: nothing else of it changes
LEMMA WholeSlotWritten ==
  ASSUME NEW n \in Nat, NEW f \in Seq(Cells), NEW i \in Slots,
         NEW v \in SlotValues, Len(f) = Whole("rs-strong", n),
         NEW g, SlotPut(f, i, v, g)
  PROVE  LET p == PayloadCells("rs-strong", n)
         IN  /\ Len(g) = Len(f) /\ g[p + 1] = f[p + 1] /\ g[p + 2] = f[p + 2]
             /\ f[i] = Bad => Lost("rs-strong", n, g) \subseteq Lost("rs-strong", n, f)
  <1> DEFINE p == PayloadCells("rs-strong", n)
  <1>1. p = StrongSlots /\ p \in Nat /\ Whole("rs-strong", n) = p + 2
    BY SlotsFinite, SMT DEF PayloadCells, Whole, TrailerCells
  <1> HIDE DEF p
  <1>2. /\ i <= Len(f) /\ i # p + 1 /\ i # p + 2 /\ 1 .. p \subseteq 1 .. Len(f)
        /\ p + 1 \in 1 .. Len(f) /\ p + 2 \in 1 .. Len(f)
        /\ \A j \in 1 .. Len(f) : j <= Len(f)
    BY <1>1, SMT DEF Slots
  <1>3. /\ Len(g) = Len(f)
        /\ \A j \in 1 .. Len(g) : g[j] = IF j = i THEN v
                                         ELSE IF j <= Len(f) THEN f[j] ELSE Bad
    BY <1>2, SlotWritten, SMT
  <1>4. \A j \in 1 .. Len(f) : j # i => g[j] = f[j]
    BY <1>2, <1>3, Zenon
  <1>5. g[p + 1] = f[p + 1] /\ g[p + 2] = f[p + 2]
    BY <1>2, <1>4, Zenon
  <1>6. f[i] = Bad => Lost("rs-strong", n, g) \subseteq Lost("rs-strong", n, f)
    BY <1>2, <1>4, Zenon DEF Lost, p
  <1> QED
    BY <1>3, <1>5, <1>6, Zenon DEF p

\* while there are slots to write
LEMMA Scrubbing ==
  ASSUME IInv, todo # {}
  PROVE  /\ wpc = "done" /\ opened /\ rep = "repairing" /\ scheme = "rs-strong"
         /\ fixed \in [Slots -> Symbols] /\ todo \in SUBSET Slots
         /\ man = Manifest /\ buffered \in Nat /\ file \in Seq(Cells)
  BY OpenedDone, Types, Zenon DEF IInv, TypeOK, WriterInv

\* the two invariants of the content after a slot is written, or torn
LEMMA SlotContent ==
  ASSUME IInv, NEW i \in todo, NEW v \in {fixed[i], Bad},
         file' = Put(file, i - 1, <<v>>), todo' \subseteq todo \ {i},
         todo' # {} => fixed' = fixed,
         UNCHANGED <<scheme, buffered, wpc, man, disk>>,
         UNCHANGED <<life, hits, strays, faults>>
  PROVE  file' \in Seq(Cells) /\ ContentInv' /\ HistoryInv'
  <1>1. /\ wpc = "done" /\ scheme = "rs-strong" /\ i \in Slots
        /\ v \in SlotValues /\ buffered \in Nat /\ file \in Seq(Cells)
        /\ "rs-strong" \in Scheme
    BY Scrubbing, Zenon DEF Scheme, SlotValues
  <1>2. /\ file' \in Seq(Cells) /\ Len(file') \in Nat
        /\ \A j \in 1 .. Len(file') : file'[j] = IF j = i THEN v
                                       ELSE IF j <= Len(file) THEN file[j] ELSE Bad
    <2>1. SlotPut(file, i, v, file')
      BY Zenon DEF SlotPut
    <2> QED
      BY <1>1, <2>1, SlotWritten, SMT
  <1>3. ContentInv'
    <2> SUFFICES ASSUME strays = 0
                 PROVE  /\ Keeps(scheme, buffered, file') /\ Len(disk) <= Len(file')
                        /\ \A j \in todo' : /\ fixed'[j] = Written[j]
                                            /\ j <= Len(file') => file'[j] = Bad
      BY Zenon DEF IInv, ContentInv
    <2>1. /\ Keeps(scheme, buffered, file) /\ Len(disk) <= Len(file)
          /\ \A j \in todo : fixed[j] = Written[j] /\ (j <= Len(file) => file[j] = Bad)
      BY Zenon DEF IInv, ContentInv
    <2>2. Keeps(scheme, buffered, file') /\ Len(file) <= Len(file')
      <3> DEFINE cells == <<v>>
      <3>1. cells \in Seq(Cells) /\ Len(cells) = 1 /\ cells[1] = v
        <4>1. v \in Cells
          BY <1>1, SymbolCells, Zenon DEF SlotValues
        <4> QED
          BY <4>1, SMT
      <3>2. i - 1 \in Nat /\ i - 1 + 1 = i /\ i \in 1 .. StrongSlots
        BY <1>1, SMT DEF Slots
      <3>3. Whole("rs-strong", buffered) = StrongSlots + 2
            /\ PayloadCells("rs-strong", buffered) = StrongSlots
        BY <1>1, Sizes, Zenon
      <3>4. i - 1 + Len(cells) <= Whole("rs-strong", buffered)
            /\ i <= PayloadCells("rs-strong", buffered)
        BY <3>1, <3>2, <3>3, SlotsFinite, SMT
      <3>5. Cell("rs-strong", buffered, i) = Written[i]
        BY <3>4, SMT DEF Cell
      <3>6. \A k \in 1 .. Len(cells) :
              cells[k] \in {Cell("rs-strong", buffered, i - 1 + k), Bad}
        <4> SUFFICES ASSUME NEW k \in 1 .. Len(cells)
                     PROVE  cells[k] \in {Cell("rs-strong", buffered, i - 1 + k), Bad}
          OBVIOUS
        <4>1. k = 1
          BY <3>1, SMT
        <4>2. v \in {Written[i], Bad}
          BY <2>1, Zenon
        <4> QED
          BY <3>1, <3>2, <3>5, <4>1, <4>2, Zenon
      <3> HIDE DEF cells
      <3>7. file' = Put(file, i - 1, cells)
        BY Zenon DEF cells
      <3>8. Keeps("rs-strong", buffered, file)
        BY <1>1, <2>1, Zenon
      <3> QED
        BY <1>1, <3>1, <3>2, <3>4, <3>6, <3>7, <3>8, PutKeeps, Zenon
    <2>3. Len(disk) <= Len(file')
      <3>1. Len(disk) \in Nat /\ Len(file) \in Nat
        BY Types, Zenon DEF IInv
      <3> QED
        BY <1>2, <2>1, <2>2, <3>1, SMT
    <2>4. ASSUME NEW j \in todo'
          PROVE  fixed'[j] = Written[j] /\ (j <= Len(file') => file'[j] = Bad)
      <3>1. j \in todo /\ j # i /\ j \in Slots /\ fixed' = fixed
        BY Scrubbing, Zenon
      <3>2. j <= Len(file') => j \in 1 .. Len(file')
        BY <1>2, <3>1, SMT DEF Slots
      <3> QED
        BY <1>2, <2>1, <3>1, <3>2, Zenon
    <2> QED
      BY <2>2, <2>3, <2>4, Zenon
  <1>4. HistoryInv'
    <2> SUFFICES ASSUME strays = 0, life # "crashed"
                 PROVE  /\ Hurt(scheme, buffered, file', hits)
                        /\ Lost(scheme, buffered, file') \subseteq Lost(scheme, buffered, file)
      BY <1>1, Zenon DEF IInv, HistoryInv
    <2>1. Hurt("rs-strong", buffered, file, hits)
      BY <1>1, Zenon DEF IInv, HistoryInv
    <2>2. Len(file) = Whole("rs-strong", buffered)
      BY <2>1, Zenon DEF Hurt
    <2>3. file[i] = Bad
      <3>1. i <= Len(file)
        <4>1. Whole("rs-strong", buffered) = StrongSlots + 2
          BY <1>1, Sizes, Zenon
        <4> QED
          BY <1>1, <2>2, <4>1, SlotsFinite, SMT DEF Slots
      <3> QED
        BY <3>1, Zenon DEF IInv, ContentInv
    <2> DEFINE p == PayloadCells("rs-strong", buffered)
    <2>4. /\ Len(file') = Len(file)
          /\ file'[p + 1] = file[p + 1] /\ file'[p + 2] = file[p + 2]
          /\ Lost("rs-strong", buffered, file') \subseteq Lost("rs-strong", buffered, file)
      <3>1. SlotPut(file, i, v, file')
        BY Zenon DEF SlotPut
      <3> QED
        BY <1>1, <2>2, <2>3, <3>1, WholeSlotWritten, SMT
    <2>5. hits \in Nat
      BY Types, Zenon DEF IInv
    <2>6. Cardinality(Lost("rs-strong", buffered, file')) <= hits
      BY <1>1, <2>1, <2>4, <2>5, LostShrinks, Zenon DEF Hurt
    <2> QED
      BY <1>1, <2>1, <2>4, <2>6, Zenon DEF Hurt
  <1> QED
    BY <1>2, <1>3, <1>4, Zenon

\* the plan after one slot of it is written
LEMMA PlanStep ==
  ASSUME IInv, quiet, NEW i \in todo, file' = Put(file, i - 1, <<fixed[i]>>)
  PROVE  LET s == gatherStrongSlots(file)
             t == gatherStrongSlots(file')
         IN  /\ t \in Shards /\ BadSlots(t) = todo \ {i}
             /\ Cardinality(BadSlots(t)) <= MStrong
             /\ \A j \in GoodSlots(t) : fixed[j] = t[j]
             /\ Codeword(t) = Codeword(s)
             /\ \A j \in Slots : (BadSlots(t) # {} => Reconstruct(t)[j] = fixed[j])
                              /\ (BadSlots(t) = {} => t[j] = fixed[j])
             /\ StrongLoads(buffered, file')
  <1> DEFINE s == gatherStrongSlots(file)
             t == gatherStrongSlots(file')
  <1>1. /\ scheme = "rs-strong" /\ i \in Slots /\ fixed \in [Slots -> Symbols]
        /\ buffered \in Nat /\ file \in Seq(Cells) /\ todo \in SUBSET Slots
    BY Scrubbing, Zenon
  <1>2. Plan(s)
    BY Zenon DEF IInv, PlanInv
  <1>3. s \in Shards /\ t \in Shards
        /\ \A j \in Slots : t[j] = IF j = i THEN fixed[i] ELSE s[j]
    <2>1. fixed[i] \in SlotValues
      BY <1>1, Zenon DEF SlotValues
    <2>2. /\ t \in Shards
          /\ \A j \in Slots : t[j] = IF j = i THEN fixed[i] ELSE s[j]
      <3>1. SlotPut(file, i, fixed[i], file')
        BY Zenon DEF SlotPut
      <3> QED
        BY <1>1, <2>1, <3>1, SlotWritten, SMT
    <2>3. s \in Shards
      BY <1>1, GatherIs, Zenon
    <2> QED
      BY <2>2, <2>3, Zenon
  <1> HIDE DEF s, t
  <1>4. /\ todo = BadSlots(s) /\ Cardinality(BadSlots(s)) <= MStrong
        /\ \A j \in GoodSlots(s) : fixed[j] = s[j]
        /\ \A j \in todo : fixed[j] = Codeword(s)[j]
        /\ Decodes(buffered, fixed)
    BY <1>2, Zenon DEF Plan
  <1>5. Cardinality(GoodSlots(s)) >= KStrong
    BY <1>4, GoodAndBad, Zenon
  <1>6. \A j \in Slots : t[j] = IF j = i THEN Codeword(s)[i] ELSE s[j]
    BY <1>3, <1>4, Zenon
  <1>7. /\ GoodSlots(t) = GoodSlots(s) \cup {i}
        /\ Cardinality(GoodSlots(t)) >= KStrong
        /\ Codeword(t) = Codeword(s)
    BY <1>3, <1>4, <1>5, <1>6, SameCodeword, Zenon
  <1>8. BadSlots(t) = todo \ {i}
    BY <1>4, <1>7, Zenon DEF BadSlots
  <1>9. \A j \in GoodSlots(t) : fixed[j] = t[j]
    <2> SUFFICES ASSUME NEW j \in GoodSlots(t) PROVE fixed[j] = t[j]
      BY Zenon
    <2>1. j \in Slots /\ j \in GoodSlots(s) \cup {i}
      BY <1>7, GoodAndBad, Zenon
    <2> QED
      BY <1>3, <1>4, <2>1, Zenon
  <1>10. Cardinality(BadSlots(t)) <= MStrong
    <2>1. BadSlots(s) \in SUBSET Slots /\ IsFiniteSet(BadSlots(s))
      BY GoodAndBad, SlotsFinite, Zenon
    <2>2. Cardinality(BadSlots(t)) <= Cardinality(BadSlots(s))
      BY <1>4, <1>8, <2>1, FS_Subset, Zenon
    <2>3. Cardinality(BadSlots(t)) \in Nat /\ Cardinality(BadSlots(s)) \in Nat
      BY GoodAndBad, Zenon
    <2> QED
      BY <1>4, <2>2, <2>3, SmallLayoutAssumption, SMT
  <1>11. \A j \in Slots : j \in GoodSlots(t) \/ j \in BadSlots(t)
    BY Zenon DEF BadSlots
  <1>12. \A j \in Slots : Reconstruct(t)[j] = fixed[j]
    <2>1. /\ \A j \in GoodSlots(t) : Reconstruct(t)[j] = t[j]
          /\ \A j \in BadSlots(t) : Reconstruct(t)[j] = Codeword(t)[j]
      BY <1>3, <1>7, ReconstructType, Zenon
    <2> QED
      BY <1>4, <1>7, <1>8, <1>9, <1>11, <2>1, Zenon
  <1>13. BadSlots(t) = {} => \A j \in Slots : t[j] = fixed[j]
    BY <1>9, <1>11, Zenon
  <1>14. StrongLoads(buffered, file')
    <2>1. 1 .. UsedSlots(buffered) \subseteq Slots
      BY <1>1, UsedAreData, SmallLayoutAssumption, SMT DEF Slots, StrongSlots
    <2>2. Decodes(buffered, Reconstruct(t))
      BY <1>4, <1>12, <2>1, Zenon DEF Decodes
    <2>3. BadSlots(t) = {} => Decodes(buffered, t)
      BY <1>4, <1>13, <2>1, Zenon DEF Decodes
    <2>4. BadSlots(t) # {} => Reconstructible(t)
      BY <1>10, WhenReconstructible, Zenon
    <2> QED
      BY <2>2, <2>3, <2>4, Zenon DEF StrongLoads, t
  <1> QED
    BY <1>3, <1>7, <1>8, <1>9, <1>10, <1>12, <1>13, <1>14, Zenon DEF s, t

LEMMA WriteSlotInv ==
  ASSUME IInv, WriteSlot
  PROVE  IInv'
  <1>1. PICK i \in todo :
          /\ todo' = todo \ {i} /\ file' = Put(file, i - 1, <<fixed[i]>>)
          /\ rep' = IF todo' = {} THEN "repaired" ELSE rep
          /\ fixed' = IF todo' = {} THEN << >> ELSE fixed
          /\ UNCHANGED <<writerVars, disk, opened, histVars>>
    BY Zenon DEF WriteSlot
  <1>2. /\ UNCHANGED <<scheme, buffered, wpc, man, disk, opened>>
        /\ UNCHANGED <<quiet, life, hits, strays, faults>>
    BY <1>1, Zenon DEF writerVars, histVars
  <1>3. /\ wpc = "done" /\ opened /\ rep = "repairing" /\ scheme = "rs-strong"
        /\ fixed \in [Slots -> Symbols] /\ todo \in SUBSET Slots
        /\ man = Manifest /\ buffered \in Nat /\ file \in Seq(Cells)
    BY Scrubbing, Zenon
  <1>4. file' \in Seq(Cells) /\ ContentInv' /\ HistoryInv'
    BY <1>1, <1>2, SlotContent, Zenon
  <1>5. TypeOK'
    <2>1. todo' \subseteq Slots /\ (todo' # {} => fixed' \in [Slots -> Symbols])
      BY <1>1, <1>3, Zenon
    <2> QED
      BY <1>2, <1>3, <1>4, <2>1, Zenon DEF IInv, TypeOK
  <1>6. WriterInv'
    <2>1. Manifest' = Manifest
      BY <1>2, Zenon DEF Manifest
    <2>2. rep' \in Verdicts => todo' = {}
      BY <1>1, <1>3, Zenon DEF Verdicts
    <2>3. todo' # {} => rep' = "repairing"
      BY <1>1, <1>3, Zenon
    <2> QED
      BY <1>2, <1>3, <2>1, <2>2, <2>3, Zenon DEF IInv, WriterInv
  <1>7. PlanInv'
    <2> SUFFICES ASSUME todo' # {}, quiet
                 PROVE  Plan(gatherStrongSlots(file))'
      BY <1>2, Zenon DEF PlanInv
    <2> DEFINE s == gatherStrongSlots(file)
               t == gatherStrongSlots(file')
    <2>1. /\ BadSlots(t) = todo \ {i} /\ Cardinality(BadSlots(t)) <= MStrong
          /\ \A j \in GoodSlots(t) : fixed[j] = t[j]
          /\ Codeword(t) = Codeword(s)
      BY <1>1, PlanStep, Zenon
    <2>2. (\A j \in todo : fixed[j] = Codeword(s)[j]) /\ Decodes(buffered, fixed)
      BY Zenon DEF IInv, PlanInv, Plan
    <2> HIDE DEF s
    <2>3. fixed' = fixed
      BY <1>1, Zenon
    <2> QED
      BY <1>1, <1>2, <2>1, <2>2, <2>3, Zenon DEF Plan
  <1>8. ReportIsTrue'
    <2> DEFINE t == gatherStrongSlots(file')
    <2> SUFFICES ASSUME quiet, todo' = {}
                 PROVE  /\ Loads(file)' /\ BadSlots(t) = {}
                        /\ strays = 0 => \A j \in Slots : t[j] = Written[j]
      <3>1. gatherStrongSlots(file)' = t
        BY Zenon DEF gatherStrongSlots
      <3>2. rep' = "repaired" \/ rep' = "repairing"
        BY <1>1, <1>3, Zenon
      <3>3. rep' = "repaired" => todo' = {}
        BY <1>1, <1>3, Zenon
      <3> HIDE DEF t
      <3> QED
        BY <1>2, <3>1, <3>2, <3>3, Zenon DEF ReportIsTrue
    <2>1. BadSlots(t) = {} /\ StrongLoads(buffered, file')
      BY <1>1, PlanStep, Zenon
    <2>2. Loads(file')
      BY <1>3, <2>1, LoadsIs, Zenon DEF IInv
    <2>3. Loads(file)' <=> Loads(file')
      BY <1>2, Zenon DEF Loads, LoadGCMOnly, LoadStrong, decodeStrongArea
    <2>4. strays = 0 => \A j \in Slots : t[j] = Written[j]
      <3> SUFFICES ASSUME strays = 0 PROVE \A j \in Slots : t[j] = Written[j]
        BY Zenon
      <3>1. Keeps("rs-strong", buffered, file')
        BY <1>2, <1>3, <1>4, Zenon DEF ContentInv
      <3>2. \A j \in GoodSlots(t) : t[j] = Written[j]
        BY <1>3, <1>4, <3>1, KeptSlots, Zenon
      <3> QED
        BY <2>1, <3>2, Zenon DEF BadSlots
    <2> QED
      BY <2>1, <2>2, <2>3, <2>4, Zenon
  <1> QED
    BY <1>4, <1>5, <1>6, <1>7, <1>8, Zenon DEF IInv

LEMMA ScrubAbortsInv ==
  ASSUME IInv, ScrubAborts
  PROVE  IInv'
  <1>1. /\ todo # {} /\ todo' = {} /\ fixed' = << >> /\ rep' = "aborted"
        /\ UNCHANGED <<scheme, buffered, wpc, man, disk, opened>>
        /\ UNCHANGED <<quiet, life, hits, strays, faults>>
        /\ \/ UNCHANGED file
           \/ \E i \in todo : file' = Put(file, i - 1, <<Bad>>)
    BY Zenon DEF ScrubAborts, writerVars, histVars
  <1>2. file' \in Seq(Cells) /\ ContentInv' /\ HistoryInv'
    <2>1. CASE UNCHANGED file
      BY <1>1, <2>1, Types, Zenon DEF IInv, ContentInv, HistoryInv
    <2>2. CASE \E i \in todo : file' = Put(file, i - 1, <<Bad>>)
      <3>1. PICK i \in todo : file' = Put(file, i - 1, <<Bad>>)
        BY <2>2, Zenon
      <3> QED
        BY <1>1, <3>1, SlotContent, Zenon
    <2> QED
      BY <1>1, <2>1, <2>2, Zenon
  <1>3. TypeOK'
    BY <1>1, <1>2, Zenon DEF IInv, TypeOK
  <1>4. WriterInv'
    <2>1. Manifest' = Manifest
      BY <1>1, Zenon DEF Manifest
    <2>2. wpc = "done"
      BY <1>1, Scrubbing, Zenon
    <2> QED
      BY <1>1, <2>1, <2>2, Zenon DEF IInv, WriterInv, Verdicts
  <1>5. PlanInv' /\ ReportIsTrue'
    BY <1>1, Zenon DEF PlanInv, ReportIsTrue
  <1> QED
    BY <1>2, <1>3, <1>4, <1>5, Zenon DEF IInv

LEMMA StutterInv ==
  ASSUME IInv, UNCHANGED vars
  PROVE  IInv'
  <1>1. /\ UNCHANGED <<scheme, buffered, wpc, man, file, disk>>
        /\ UNCHANGED <<opened, todo, fixed, rep, quiet, life, hits, strays, faults>>
    BY Zenon DEF vars, writerVars, callVars, histVars
  <1>2. TypeOK' /\ ContentInv' /\ HistoryInv'
    BY <1>1, Zenon DEF IInv, TypeOK, ContentInv, HistoryInv
  <1>3. WriterInv'
    <2>1. Manifest' = Manifest /\ Body' = Body
      BY <1>1, Zenon DEF Manifest, Body
    <2> QED
      BY <1>1, <2>1, Zenon DEF IInv, WriterInv
  <1>4. PlanInv' /\ ReportIsTrue'
    BY <1>1, SameFile, Zenon DEF IInv
  <1> QED
    BY <1>2, <1>3, <1>4, Zenon DEF IInv

LEMMA NextInv ==
  ASSUME IInv, [Next]_vars
  PROVE  IInv'
  <1>1. ASSUME NEW n \in 1 .. MaxPlain, Write(n) PROVE IInv'
    BY <1>1, WriteInv, Zenon
  <1>2. CASE Drain \/ DrainFails \/ WriteTrailer \/ WriteTrailerFails
    BY <1>2, DrainInv, DrainFailsInv, WriteTrailerInv, WriteTrailerFailsInv, Zenon
  <1>3. CASE WriteBack
    BY <1>3, WriteBackInv, Zenon
  <1>4. CASE Fault
    BY <1>4, PowerFailureInv, HitInv, StrayInv, CutInv, ExtendInv, Zenon DEF Fault
  <1>5. ASSUME NEW keyIsRight \in BOOLEAN, Open(keyIsRight) PROVE IInv'
    BY <1>5, OpenInv, Zenon
  <1>6. CASE LoadAll
    BY <1>6, LoadAllInv, Zenon
  <1>7. ASSUME NEW writes \in BOOLEAN, VerifyOrScrub(writes) PROVE IInv'
    BY <1>7, VerifyOrScrubInv, Zenon
  <1>8. CASE WriteSlot \/ ScrubAborts
    BY <1>8, WriteSlotInv, ScrubAbortsInv, Zenon
  <1>9. CASE UNCHANGED vars
    BY <1>9, StutterInv, Zenon
  <1> QED
    BY <1>1, <1>2, <1>3, <1>4, <1>5, <1>6, <1>7, <1>8, <1>9, Zenon DEF Next

-----------------------------------------------------------------------------
(* The theorems.                                                           *)

(* The invariant holds in every state: the manifest is that of a Close     *)
(* that succeeded, cells are the writer's or lost while nothing is         *)
(* displaced, and a scrub works to its plan.                               *)
THEOREM Invariance == Spec => []IInv
  <1>1. Init => IInv
    BY InitInv, Zenon
  <1>2. IInv /\ [Next]_vars => IInv'
    BY NextInv, Zenon
  <1> QED
    BY <1>1, <1>2, PTL DEF Spec

(* The state has its type in every state.                                  *)
THEOREM TypeCorrect == Spec => []TypeOK
  <1>1. IInv => TypeOK
    BY Zenon DEF IInv
  <1> QED
    BY <1>1, Invariance, PTL

(* Whatever was done to a file: if engine.Open accepts it, Close succeeded *)
(* on it, it has the length of that vault and the manifest of the accepted *)
(* bytes, and what content it has is the writer's unless some was          *)
(* displaced.                                                              *)
THEOREM OpensOnlyWholeHolds == Spec => []OpensOnlyWhole
  <1>1. IInv => OpensOnlyWhole
    <2> SUFFICES ASSUME IInv, Opens(file)
                 PROVE  /\ wpc = "done"
                        /\ man.scheme = scheme /\ man.plainSize = buffered
                        /\ Len(file) = Len(Body) + Len(Trailer)
                        /\ strays = 0 => \A i \in 1 .. Len(Body) : file[i] \in {Body[i], Bad}
      BY Zenon DEF OpensOnlyWhole
    <2> DEFINE p == PayloadCells(scheme, buffered)
    <2>1. wpc = "done" /\ Len(file) = Whole(scheme, buffered)
      BY OpensIs, Types, Zenon DEF IInv
    <2>2. man = Manifest
      BY <2>1, Zenon DEF IInv, WriterInv
    <2>3. p \in Nat \ {0} /\ Whole(scheme, buffered) = p + 2
      BY Types, Zenon DEF IInv
    <2>4. Len(Body) = p /\ \A i \in 1 .. p : Body[i] = Cell(scheme, buffered, i)
      BY Types, BodyIs, Zenon DEF IInv
    <2> HIDE DEF p
    <2>5. Len(file) = Len(Body) + Len(Trailer)
      BY <2>1, <2>3, <2>4, TrailerIs, SMT
    <2>6. ASSUME strays = 0, NEW i \in 1 .. p
          PROVE  file[i] \in {Body[i], Bad}
      <3>1. i \in 1 .. Len(file)
        BY <2>1, <2>3, SMT
      <3>2. file[i] \in {Cell(scheme, buffered, i), Bad}
        BY <2>6, <3>1, Zenon DEF IInv, ContentInv, Keeps
      <3> QED
        BY <2>4, <3>2, Zenon
    <2> QED
      BY <2>1, <2>2, <2>4, <2>5, <2>6, ManifestIs, Zenon
  <1> QED
    BY <1>1, Invariance, PTL

(* A whole vault that has lost no more slots than the code can do without  *)
(* loads.                                                                  *)
LEMMA EnoughLoads ==
  ASSUME IInv, wpc = "done", strays = 0,
         Len(file) = Whole(scheme, buffered),
         Cardinality(Lost(scheme, buffered, file)) <=
           (IF scheme = "gcm" THEN 0 ELSE MStrong)
  PROVE  Loads(file)
  <1> DEFINE p == PayloadCells(scheme, buffered)
  <1>1. /\ scheme \in Scheme /\ buffered \in Nat /\ file \in Seq(Cells)
        /\ p \in Nat \ {0} /\ Whole(scheme, buffered) = p + 2
    BY Types, Zenon DEF IInv
  <1>2. Keeps(scheme, buffered, file)
    BY Zenon DEF IInv, ContentInv
  <1>3. CASE scheme = "gcm"
    <2>1. /\ IsFiniteSet(Lost(scheme, buffered, file))
          /\ Cardinality(Lost(scheme, buffered, file)) \in Nat
      BY <1>1, LostFinite, Zenon
    <2>2. Cardinality(Lost(scheme, buffered, file)) = 0
      BY <1>3, <2>1, SMT
    <2>3. Lost(scheme, buffered, file) = {}
      BY <2>1, <2>2, FS_EmptySet, Zenon
    <2>4. ASSUME NEW i \in 1 .. p
          PROVE  i <= Len(file) /\ file[i] = Sealed
      <3>1. i \in 1 .. Len(file) /\ i <= Len(file) /\ i <= p
        BY <1>1, SMT
      <3>2. file[i] \in {Cell(scheme, buffered, i), Bad}
        BY <1>2, <3>1, Zenon DEF Keeps
      <3>3. file[i] # Bad
        BY <2>3, Zenon DEF Lost
      <3>4. Cell(scheme, buffered, i) = Sealed
        BY <1>3, <3>1, Zenon DEF Cell
      <3> QED
        BY <3>1, <3>2, <3>3, <3>4, Zenon
    <2>5. p = GCMOnlyPayloadSize(buffered)
      BY <1>3, Zenon DEF PayloadCells
    <2>6. GCMLoads(buffered, file)
      BY <2>4, <2>5, Zenon DEF GCMLoads
    <2> QED
      BY <1>3, <2>6, LoadsIs, Zenon DEF IInv
  <1>4. CASE scheme = "rs-strong"
    <2> DEFINE s == gatherStrongSlots(file)
    <2>1. p = StrongSlots
      BY <1>1, <1>4, Sizes, Zenon
    <2>2. \A i \in Slots : i <= Len(file)
      BY <1>1, <2>1, SMT DEF Slots
    <2>3. /\ \A i \in Slots : i <= Len(file) => s[i] = file[i]
          /\ Cardinality(BadSlots(s)) <= MStrong => StrongLoads(buffered, file)
      BY <1>1, <1>2, <1>4, KeptSlots, Zenon
    <2> HIDE DEF s
    <2>4. BadSlots(s) = {i \in Slots : s[i] = Bad}
      BY GoodAndBad, Zenon
    <2>5. Lost(scheme, buffered, file) = {i \in Slots : file[i] = Bad}
      BY <2>1, Zenon DEF Lost, Slots
    <2>6. BadSlots(s) = Lost(scheme, buffered, file)
      BY <2>2, <2>3, <2>4, <2>5, Zenon
    <2>7. Cardinality(BadSlots(s)) <= MStrong
      BY <1>4, <2>6, SMT
    <2> QED
      BY <1>4, <2>3, <2>7, LoadsIs, Zenon DEF IInv
  <1> QED
    BY <1>1, <1>3, <1>4, Zenon DEF Scheme

(* A vault that opens, has lost at most MStrong slots (no cell, for        *)
(* gcm-only) and had nothing displaced loads: ScrubStrong and LoadStrong   *)
(* can use the redundancy to its limit, whichever slots are the lost ones. *)
THEOREM MarginHoldsAlways == Spec => []MarginHolds
  <1>1. IInv => MarginHolds
    <2> SUFFICES ASSUME IInv, Opens(file), strays = 0,
                        Cardinality({i \in 1 .. Len(Body) : file[i] = Bad})
                          <= (IF scheme = "gcm" THEN 0 ELSE MStrong)
                 PROVE  Loads(file)
      BY Zenon DEF MarginHolds
    <2>1. wpc = "done" /\ Len(file) = Whole(scheme, buffered)
      BY OpensIs, Types, Zenon DEF IInv
    <2>2. Len(Body) = PayloadCells(scheme, buffered)
      BY Types, BodyIs, Zenon DEF IInv
    <2>3. {i \in 1 .. Len(Body) : file[i] = Bad} = Lost(scheme, buffered, file)
      BY <2>2, Zenon DEF Lost
    <2>4. Cardinality(Lost(scheme, buffered, file)) <=
            (IF scheme = "gcm" THEN 0 ELSE MStrong)
      BY <2>3, Zenon
    <2> QED
      BY <2>1, <2>4, EnoughLoads, Zenon
  <1> QED
    BY <1>1, Invariance, PTL

(* A vault that was on the medium once and was hit in at most MStrong      *)
(* slots since opens and loads, after any number of power failures and of  *)
(* scrubs that were cut short at any write, or tore one.                   *)
THEOREM VaultSurvivesAlways == Spec => []VaultSurvives
  <1>1. IInv => VaultSurvives
    <2> SUFFICES ASSUME IInv, wpc = "done", life = "settled", strays = 0,
                        hits <= (IF scheme = "gcm" THEN 0 ELSE MStrong)
                 PROVE  Opens(file) /\ Loads(file)
      BY Zenon DEF VaultSurvives
    <2>1. Hurt(scheme, buffered, file, hits)
      BY Zenon DEF IInv, HistoryInv
    <2>2. Opens(file)
      BY <2>1, OpensIs, Types, Zenon DEF IInv, Hurt
    <2>3. Cardinality(Lost(scheme, buffered, file)) <=
            (IF scheme = "gcm" THEN 0 ELSE MStrong)
      <3>1. /\ Cardinality(Lost(scheme, buffered, file)) \in Nat
            /\ Cardinality(Lost(scheme, buffered, file)) <= hits /\ hits \in Nat
        BY <2>1, LostFinite, Types, Zenon DEF IInv, Hurt
      <3> QED
        BY <3>1, SmallLayoutAssumption, SMT
    <2>4. Loads(file)
      BY <2>1, <2>3, EnoughLoads, Zenon DEF Hurt
    <2> QED
      BY <2>2, <2>4, Zenon
  <1> QED
    BY <1>1, Invariance, PTL

(* What LoadAll, Verify and Scrub report is true of the file, in both      *)
(* directions, while no fault comes between, with slots that are misplaced *)
(* but have valid tags too.  After "repaired" every tag holds, and where   *)
(* nothing was displaced every slot is the writer's again; where something *)
(* was, RepairsAreTrueAlways says what is left of that.                    *)
THEOREM ReportIsTrueAlways == Spec => []ReportIsTrue
  <1>1. IInv => ReportIsTrue
    BY Zenon DEF IInv
  <1> QED
    BY <1>1, Invariance, PTL

(* Where the data area has no padding, every data slot is in use.          *)
LEMMA AllSlotsUsed ==
  ASSUME NEW n \in Nat, StrongDataLen(n) = KStrong * StrongShardSize(n)
  PROVE  UsedSlots(n) = KStrong
  <1> DEFINE d == StrongDataLen(n)
             sh == StrongShardSize(n)
             u == UsedSlots(n)
  <1>1. KStrong \in Nat \ {0} /\ sh \in Nat \ {0} /\ u \in 1 .. KStrong
    BY UsedAreData, SmallLayoutAssumption, Zenon
  <1>2. d \in Nat \ {0} /\ d = KStrong * sh
    BY SmallLayoutAssumption, SMT DEF StrongDataLen
  <1>3. u = CeilDiv(d, sh)
    BY Zenon DEF UsedSlots
  <1> HIDE DEF d, sh, u
  <1>4. KStrong * sh <= u * sh
    BY <1>1, <1>2, <1>3, CeilCovers, Zenon
  <1>5. ~(u < KStrong)
    <2> SUFFICES ASSUME u + 1 <= KStrong PROVE FALSE
      BY <1>1, SMT
    <2>1. (KStrong - (u + 1)) * sh >= 0
      BY <1>1, SMT
    <2>2. (KStrong - (u + 1)) * sh = KStrong * sh - (u * sh + sh)
          /\ KStrong * sh \in Nat /\ u * sh \in Nat
      BY <1>1, SMT
    <2> QED
      BY <1>1, <1>4, <2>1, <2>2, SMT
  <1>6. u = KStrong
    BY <1>1, <1>5, SMT
  <1> QED
    BY <1>6, Zenon DEF u

(* Data slots that are the writer's after the reconstruction leave one     *)
(* codeword only: the good ones among them are sources of it, the others   *)
(* were computed from it.                                                  *)
LEMMA DataDetermines ==
  ASSUME NEW s \in Shards, Cardinality(GoodSlots(s)) >= KStrong,
         \A i \in 1 .. KStrong : Reconstruct(s)[i] = Written[i]
  PROVE  Codeword(s) = Written
  <1> DEFINE c == Codeword(s)
             E == {i \in Slots : c[i] = Written[i]}
  <1>1. c \in Code /\ \A i \in Sources(s) : c[i] = s[i]
    BY CodewordExists, Zenon
  <1>2. /\ \A i \in GoodSlots(s) : Reconstruct(s)[i] = s[i]
        /\ \A i \in BadSlots(s) : Reconstruct(s)[i] = c[i]
    BY ReconstructType, Zenon
  <1> HIDE DEF c
  <1>3. KStrong \in Nat \ {0} /\ 1 .. KStrong \subseteq Slots
    BY SmallLayoutAssumption, SMT DEF Slots, StrongSlots
  <1>4. ASSUME NEW i \in 1 .. KStrong, i \in GoodSlots(s)
        PROVE  i \in Sources(s)
    <2> DEFINE U == {j \in GoodSlots(s) : j <= i}
    <2>1. U \subseteq 1 .. i
      BY <1>3, <1>4, SMT DEF GoodSlots, Slots
    <2>2. IsFiniteSet(1 .. i) /\ Cardinality(1 .. i) = i
      BY <1>3, <1>4, FS_Interval, SMT
    <2>3. Cardinality(U) <= i /\ Cardinality(U) \in Nat
      BY <2>1, <2>2, FS_Subset, FS_CardinalityType, Zenon
    <2>4. Cardinality(U) <= KStrong
      BY <1>3, <1>4, <2>3, SMT
    <2> QED
      BY <1>4, <2>4, Zenon DEF Sources
  <1>5. 1 .. KStrong \subseteq E
    <2> SUFFICES ASSUME NEW i \in 1 .. KStrong PROVE c[i] = Written[i]
      BY <1>3, Zenon
    <2>1. CASE i \in GoodSlots(s)
      BY <1>1, <1>2, <1>4, <2>1, Zenon
    <2>2. CASE i \in BadSlots(s)
      BY <1>2, <2>2, Zenon
    <2> QED
      BY <1>3, <2>1, <2>2, Zenon DEF BadSlots
  <1>6. Cardinality(E) >= KStrong
    <2>1. E \in SUBSET Slots
      BY Zenon
    <2>2. IsFiniteSet(E) /\ Cardinality(E) \in 0 .. StrongSlots
      BY <2>1, SlotsFinite, Zenon
    <2>3. Cardinality(1 .. KStrong) <= Cardinality(E)
      BY <1>5, <2>2, FS_Subset, Zenon
    <2>4. Cardinality(1 .. KStrong) = KStrong
      BY <1>3, FS_Interval, SMT
    <2> QED
      BY <1>3, <2>2, <2>3, <2>4, SlotsFinite, SMT
  <1>7. c = Written
    BY <1>1, <1>6, CodeDistance, SmallVaultAssumption, Zenon
  <1> QED
    BY <1>7, Zenon DEF c

\* a scrub that begins: what it decoded leaves no other codeword
LEMMA RepairsBegin ==
  ASSUME IInv, opened, NoPadding, LoadStrong(file),
         BadSlots(gatherStrongSlots(file)) # {}
  PROVE  \A i \in BadSlots(gatherStrongSlots(file)) :
           Reconstruct(gatherStrongSlots(file))[i] = Written[i]
  <1> DEFINE s == gatherStrongSlots(file)
  <1>1. wpc = "done" /\ buffered \in Nat /\ file \in Seq(Cells)
    BY OpenedDone, Types, Zenon DEF IInv
  <1>2. s \in Shards
    BY <1>1, GatherIs, Zenon
  <1>3. Reconstructible(s) /\ Decodes(buffered, Reconstruct(s))
    <2>1. StrongLoads(buffered, file)
      BY <1>1, LoadsIs, Zenon DEF IInv
    <2> QED
      BY <2>1, Zenon DEF StrongLoads
  <1> HIDE DEF s
  <1>4. Cardinality(GoodSlots(s)) >= KStrong
    BY <1>3, WhenReconstructible, Zenon
  <1>5. UsedSlots(buffered) = KStrong
    BY <1>1, AllSlotsUsed, Zenon DEF NoPadding
  <1>6. \A i \in 1 .. KStrong : Reconstruct(s)[i] = Written[i]
    BY <1>3, <1>5, Zenon DEF Decodes
  <1>7. Codeword(s) = Written
    BY <1>2, <1>4, <1>6, DataDetermines, Zenon
  <1> QED
    BY <1>2, <1>4, <1>7, ReconstructType, Zenon DEF s

\* a step of a scrub writes what was computed when it began
LEMMA RepairsStep ==
  ASSUME IInv, RepairsAreTrue, [Next]_vars
  PROVE  RepairsAreTrue'
  <1>1. IInv'
    BY NextInv, Zenon
  <1>2. CASE strays' = 0
    BY <1>1, <1>2, Zenon DEF IInv, ContentInv, RepairsAreTrue
  <1>3. ASSUME todo' \subseteq todo, todo' # {} => UNCHANGED <<fixed, buffered>>
        PROVE  RepairsAreTrue'
    <2> SUFFICES ASSUME NoPadding', NEW i \in todo' PROVE fixed'[i] = Written[i]
      BY <1>2, Zenon DEF RepairsAreTrue
    <2>1. NoPadding /\ i \in todo /\ fixed' = fixed
      BY <1>3, Zenon DEF NoPadding
    <2> QED
      BY <2>1, Zenon DEF RepairsAreTrue
  <1>4. CASE \E n \in 1 .. MaxPlain : Write(n)
    <2>1. todo = {} /\ UNCHANGED todo
      BY <1>4, BeforeDone, Zenon DEF Write, callVars
    <2> QED
      BY <1>3, <2>1, Zenon
  <1>5. CASE Drain \/ DrainFails \/ WriteTrailer \/ WriteTrailerFails \/ WriteBack
    <2>1. UNCHANGED <<todo, fixed, buffered>>
      BY <1>5, Zenon DEF Drain, DrainFails, WriteTrailer, WriteTrailerFails, WriteBack,
                         callVars, writerVars
    <2> QED
      BY <1>3, <2>1, Zenon
  <1>6. CASE Fault
    <2>1. todo' = {} \/ UNCHANGED <<todo, fixed, buffered>>
      BY <1>6, Zenon DEF Fault, PowerFailure, Hit, Stray, Cut, Extend, Damaged, writerVars
    <2> QED
      BY <1>3, <2>1, Zenon
  <1>7. CASE (\E keyIsRight \in BOOLEAN : Open(keyIsRight)) \/ LoadAll
    <2>1. UNCHANGED <<todo, fixed, buffered>>
      BY <1>7, Zenon DEF Open, LoadAll, writerVars
    <2> QED
      BY <1>3, <2>1, Zenon
  <1>8. ASSUME NEW writes \in BOOLEAN, VerifyOrScrub(writes)
        PROVE  RepairsAreTrue'
    <2>1. opened /\ UNCHANGED <<file, buffered>>
      BY <1>8, Zenon DEF VerifyOrScrub, writerVars
    <2>2. \/ UNCHANGED <<todo, fixed>>
          \/ /\ LoadStrong(file) /\ BadSlots(gatherStrongSlots(file)) # {}
             /\ todo' = BadSlots(gatherStrongSlots(file))
             /\ fixed' = Reconstruct(gatherStrongSlots(file))
      BY <1>8, Zenon DEF VerifyOrScrub, ScrubGCMOnly, ScrubStrong
    <2>3. CASE UNCHANGED <<todo, fixed>>
      BY <1>3, <2>1, <2>3, Zenon
    <2>4. CASE /\ LoadStrong(file) /\ BadSlots(gatherStrongSlots(file)) # {}
               /\ todo' = BadSlots(gatherStrongSlots(file))
               /\ fixed' = Reconstruct(gatherStrongSlots(file))
      <3> SUFFICES ASSUME NoPadding' PROVE \A i \in todo' : fixed'[i] = Written[i]
        BY <1>2, Zenon DEF RepairsAreTrue
      <3>1. NoPadding
        BY <2>1, Zenon DEF NoPadding
      <3> QED
        BY <2>1, <2>4, <3>1, RepairsBegin, Zenon
    <2> QED
      BY <2>2, <2>3, <2>4, Zenon
  <1>9. CASE WriteSlot \/ ScrubAborts
    <2>1. todo' \subseteq todo /\ (todo' # {} => UNCHANGED <<fixed, buffered>>)
      BY <1>9, Zenon DEF WriteSlot, ScrubAborts, writerVars
    <2> QED
      BY <1>3, <2>1, Zenon
  <1>10. CASE UNCHANGED vars
    <2>1. UNCHANGED <<todo, fixed, buffered>>
      BY <1>10, Zenon DEF vars, callVars, writerVars
    <2> QED
      BY <1>3, <2>1, Zenon
  <1> QED
    BY <1>4, <1>5, <1>6, <1>7, <1>8, <1>9, <1>10, Zenon DEF Next

(* What ScrubStrong writes back is what the writer wrote: with nothing     *)
(* displaced, and with any slots in wrong places if the data area has no   *)
(* padding.  A slot that is in the wrong place itself stays as it is.      *)
THEOREM RepairsAreTrueAlways == Spec => []RepairsAreTrue
  <1>1. Init => RepairsAreTrue
    BY Zenon DEF Init, RepairsAreTrue
  <1>2. IInv /\ RepairsAreTrue /\ [Next]_vars => RepairsAreTrue'
    BY RepairsStep, Zenon
  <1> QED
    BY <1>1, <1>2, Invariance, PTL DEF Spec

(* No write of a scrub, whole or torn, makes a readable vault unreadable.  *)
LEMMA HarmlessStep ==
  ASSUME IInv, [Next]_vars, todo # {}, UNCHANGED <<faults, disk>>, quiet \/ strays = 0,
         Opens(file), Loads(file)
  PROVE  Opens(file') /\ Loads(file')
  <1>1. /\ wpc = "done" /\ opened /\ scheme = "rs-strong" /\ buffered \in Nat
        /\ fixed \in [Slots -> Symbols] /\ todo \in SUBSET Slots /\ file \in Seq(Cells)
    BY Scrubbing, Zenon
  <1>2. /\ Len(file) = Whole("rs-strong", buffered)
        /\ file[PayloadCells("rs-strong", buffered) + 1] = TrailerHead
        /\ file[PayloadCells("rs-strong", buffered) + 2] = TrailerEnd
    BY <1>1, OpensIs, Zenon DEF IInv
  <1>3. ASSUME NEW i \in todo, NEW v \in SlotValues,
               file' = Put(file, i - 1, <<v>>)
        PROVE  /\ Opens(file') /\ file' \in Seq(Cells)
               /\ gatherStrongSlots(file') \in Shards
               /\ \A j \in Slots : gatherStrongSlots(file')[j] =
                                     IF j = i THEN v ELSE gatherStrongSlots(file)[j]
    <2> DEFINE p == PayloadCells("rs-strong", buffered)
    <2>0. SlotPut(file, i, v, file')
      BY <1>3, Zenon DEF SlotPut
    <2>1. i \in Slots
      BY <1>1, Zenon
    <2>2. /\ Len(file') = Len(file)
          /\ file'[p + 1] = file[p + 1] /\ file'[p + 2] = file[p + 2]
      BY <1>1, <1>2, <2>0, <2>1, WholeSlotWritten, SMT
    <2>3. /\ file' \in Seq(Cells) /\ gatherStrongSlots(file') \in Shards
          /\ \A j \in Slots : gatherStrongSlots(file')[j] =
                                IF j = i THEN v ELSE gatherStrongSlots(file)[j]
      BY <1>1, <2>0, <2>1, SlotWritten, SMT
    <2>4. Opens(file')
      BY <1>1, <1>2, <2>2, <2>3, OpensIs, Zenon DEF IInv
    <2> QED
      BY <2>3, <2>4, Zenon
  <1>4. StrongLoads(buffered, file)
    BY <1>1, LoadsIs, Zenon DEF IInv
  <1>5. CASE WriteSlot
    <2>1. PICK i \in todo : file' = Put(file, i - 1, <<fixed[i]>>)
      BY <1>5, Zenon DEF WriteSlot
    <2> DEFINE s == gatherStrongSlots(file)
               t == gatherStrongSlots(file')
    <2>2. fixed[i] \in SlotValues /\ i \in Slots
      BY <1>1, Zenon DEF SlotValues
    <2>3. /\ Opens(file') /\ file' \in Seq(Cells)
          /\ \A j \in Slots : t[j] = IF j = i THEN fixed[i] ELSE s[j]
      BY <1>3, <2>1, <2>2, Zenon
    <2>4. StrongLoads(buffered, file')
      <3>1. CASE quiet
        BY <2>1, <3>1, PlanStep, Zenon
      <3>2. CASE strays = 0
        <4>1. IInv'
          BY NextInv, Zenon
        <4>2. UNCHANGED <<scheme, buffered, strays>>
          BY <1>5, Zenon DEF WriteSlot, writerVars, histVars
        <4>3. Keeps("rs-strong", buffered, file) /\ Keeps("rs-strong", buffered, file')
          BY <1>1, <3>2, <4>1, <4>2, Zenon DEF IInv, ContentInv
        <4>4. Cardinality(BadSlots(s)) <= MStrong
          BY <1>1, <1>4, <4>3, KeptSlots, Zenon
        <4>5. BadSlots(t) \subseteq BadSlots(s)
          <5> HIDE DEF s, t
          <5>1. /\ BadSlots(s) = {j \in Slots : s[j] = Bad}
                /\ BadSlots(t) = {j \in Slots : t[j] = Bad}
            BY GoodAndBad, Zenon
          <5>2. fixed[i] # Bad
            BY <1>1, <2>2, SymbolCells, Zenon
          <5> QED
            BY <2>3, <5>1, <5>2, Zenon
        <4>6. Cardinality(BadSlots(t)) <= MStrong
          <5> HIDE DEF s, t
          <5>1. IsFiniteSet(BadSlots(s)) /\ Cardinality(BadSlots(s)) \in Nat
                /\ Cardinality(BadSlots(t)) \in Nat
            BY GoodAndBad, SlotsFinite, Zenon
          <5>2. Cardinality(BadSlots(t)) <= Cardinality(BadSlots(s))
            BY <4>5, <5>1, FS_Subset, Zenon
          <5> QED
            BY <4>4, <5>1, <5>2, SmallLayoutAssumption, SMT
        <4> QED
          BY <1>1, <2>3, <4>3, <4>6, KeptSlots, Zenon
      <3> QED
        BY <3>1, <3>2, Zenon
    <2> QED
      BY <1>1, <2>3, <2>4, LoadsIs, Zenon DEF IInv
  <1>6. CASE ScrubAborts
    <2>1. CASE UNCHANGED file
      BY <2>1, Zenon
    <2>2. CASE \E i \in todo : file' = Put(file, i - 1, <<Bad>>)
      <3>1. PICK i \in todo : file' = Put(file, i - 1, <<Bad>>)
        BY <2>2, Zenon
      <3> DEFINE s == gatherStrongSlots(file)
                 t == gatherStrongSlots(file')
      <3>2. /\ Opens(file') /\ t \in Shards
            /\ \A j \in Slots : t[j] = IF j = i THEN Bad ELSE s[j]
        BY <1>3, <3>1, Zenon DEF SlotValues
      <3>3. s \in Shards
        BY <1>1, GatherIs, Zenon
      <3>4. s[i] = Bad
        <4>1. CASE quiet
          <5>1. i \in BadSlots(s)
            BY <4>1, Zenon DEF IInv, PlanInv, Plan
          <5> QED
            BY <5>1, GoodAndBad, Zenon
        <4>2. CASE strays = 0
          <5>1. Keeps("rs-strong", buffered, file)
            BY <1>1, <4>2, Zenon DEF IInv, ContentInv
          <5>2. i \in Slots /\ i <= Len(file)
            <6>1. i \in Slots /\ Whole("rs-strong", buffered) = StrongSlots + 2
              BY <1>1, Sizes, Zenon DEF Scheme
            <6> QED
              BY <1>2, <6>1, SlotsFinite, SMT DEF Slots
          <5>3. file[i] = Bad
            BY <4>2, <5>2, Zenon DEF IInv, ContentInv
          <5>4. s[i] = file[i]
            BY <1>1, <5>1, <5>2, KeptSlots, Zenon
          <5> QED
            BY <5>3, <5>4, Zenon
        <4> QED
          BY <4>1, <4>2, Zenon
      <3> HIDE DEF s, t
      <3>5. t = s
        <4>1. \A j \in Slots : t[j] = s[j]
          BY <3>2, <3>4, Zenon
        <4> QED
          BY <3>2, <3>3, <4>1, SMT DEF Shards
      <3>6. StrongLoads(buffered, file')
        BY <1>4, <3>5, Zenon DEF StrongLoads, s, t
      <3> QED
        BY <1>1, <3>2, <3>6, LoadsIs, Zenon DEF IInv
    <2> QED
      BY <1>6, <2>1, <2>2, Zenon DEF ScrubAborts
  <1>7. CASE WriteSlot \/ ScrubAborts
    BY <1>5, <1>6, <1>7, Zenon
  <1>8. CASE file' = file
    BY <1>8, Zenon
  <1>9. WriteSlot \/ ScrubAborts \/ file' = file
    <2>1. faults \in Nat
      BY Types, Zenon DEF IInv
    <2>2. faults' # faults + 1
      BY <2>1, SMT
    <2>3. ~Fault
      BY <2>2, Zenon DEF Fault, PowerFailure, Hit, Stray, Cut, Extend, Damaged
    <2>4. ~(Drain \/ DrainFails \/ WriteTrailer \/ WriteTrailerFails)
      BY <1>1, Zenon DEF Drain, DrainFails, WriteTrailer, WriteTrailerFails
    <2>5. \A n \in 1 .. MaxPlain : Write(n) => file' = file
      BY Zenon DEF Write
    <2>6. WriteBack \/ LoadAll \/ UNCHANGED vars => file' = file
      BY Zenon DEF WriteBack, LoadAll, vars
    <2>7. \A k \in BOOLEAN : Open(k) => file' = file
      BY Zenon DEF Open
    <2>8. \A w \in BOOLEAN : VerifyOrScrub(w) => file' = file
      BY Zenon DEF VerifyOrScrub
    <2> QED
      BY <2>3, <2>4, <2>5, <2>6, <2>7, <2>8, Zenon DEF Next
  <1> QED
    BY <1>7, <1>8, <1>9, Zenon

(* ScrubStrong rewrites the only copy in place: no step of it, and no torn *)
(* write that ends it, makes a vault that opens and loads one that does    *)
(* not.                                                                    *)
THEOREM ScrubIsHarmless == Spec => ScrubDoesNoHarm
  <1>1. IInv /\ [Next]_vars =>
          [todo # {} /\ UNCHANGED <<faults, disk>> /\ (quiet \/ strays = 0) =>
             (Opens(file) /\ Loads(file) => Opens(file') /\ Loads(file'))]_vars
    BY HarmlessStep, Zenon
  <1> QED
    BY <1>1, Invariance, PTL DEF Spec, ScrubDoesNoHarm
=============================================================================
