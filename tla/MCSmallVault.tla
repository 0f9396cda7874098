---------------------------- MODULE MCSmallVault ----------------------------
(* An rs-strong vault of 3 + 2 slots.  The code: polynomials of degree 2   *)
(* over the field of 5 elements, by their values at its 5 points.  The     *)
(* code is linear, so the codeword written may be any one; here it is the  *)
(* polynomial x, which has another value in every slot.                    *)
EXTENDS SmallVaultProps

MCCode == {[i \in 1..5 |-> (a + b * (i - 1) + c * (i - 1) * (i - 1)) % 5] :
             a \in 0..4, b \in 0..4, c \in 0..4}
MCWritten == [i \in 1..5 |-> i - 1]
=============================================================================
