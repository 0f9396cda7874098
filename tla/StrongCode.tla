----------------------------- MODULE StrongCode -----------------------------
(***************************************************************************)
(* The erasure code of an rs-strong vault and what engine/strong.go does   *)
(* with it.  Reed-Solomon is any set of codewords in which KStrong slots,  *)
(* whichever they are, determine the others; nothing else of it is used.   *)
(* Slots are counted from 1, data slots first.                             *)
(*                                                                         *)
(* A slot read from a file is a symbol when its tag verifies, whoever      *)
(* wrote that symbol, and Bad when it does not: the tag is an unkeyed      *)
(* hash of the payload, so it does not tell whose payload it is.           *)
(***************************************************************************)
EXTENDS SmallLayout, FiniteSets

CONSTANTS
    Symbols,    \* payloads of a slot
    Bad,        \* a slot whose tag fails, or bytes that mean nothing
    Code        \* the codewords

Slots == 1 .. StrongSlots

ASSUME CodeAssumption ==
    /\ Bad \notin Symbols
    /\ Code \subseteq [Slots -> Symbols]

(* KStrong slots or more determine the codeword ...                        *)
ASSUME CodeDistance ==
    \A c \in Code, d \in Code :
      Cardinality({i \in Slots : c[i] = d[i]}) >= KStrong => c = d

(* ... and whatever they hold, there is one.                               *)
ASSUME CodeIsFull ==
    \A I \in SUBSET Slots : Cardinality(I) = KStrong =>
      \A v \in [I -> Symbols] : \E c \in Code : \A i \in I : c[i] = v[i]

GoodSlots(s) == {i \in Slots : s[i] # Bad}
BadSlots(s) == Slots \ GoodSlots(s)

\* mutant: one slot less than the code can do without
AllButOne(s) == Cardinality(BadSlots(s)) \in 1 .. MStrong - 1

Reconstructible(s) == Cardinality(BadSlots(s)) \in 1 .. MStrong

\* the decoder takes the first KStrong slots it has
Sources(s) == {i \in GoodSlots(s) :
                 Cardinality({j \in GoodSlots(s) : j <= i}) <= KStrong}

Codeword(s) ==
    LET sources == Sources(s)
    IN  CHOOSE c \in Code : \A i \in sources : c[i] = s[i]

\* the bad slots are computed, the others stay what they are
Reconstruct(s) ==
    LET c == Codeword(s)
    IN  [i \in Slots |-> IF s[i] = Bad THEN c[i] ELSE s[i]]
=============================================================================
