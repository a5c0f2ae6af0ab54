----------------------------- MODULE ScalarMod ------------------------------
(***************************************************************************)
(* Arithmetic modulo l = 2^252 + delta on limbs of 21 bits (sc.cu, sc.c):  *)
(* sc_reduce and sc_muladd.  Component i + 1 of a tuple is the code's limb *)
(* s_i.  A limb 12 or more above the bottom is folded into six limbs below *)
(* with the digits of -delta; carries keep the limbs short.                *)
(***************************************************************************)
EXTENDS FieldElement

CONSTANTS
  ScalarBits,  \* bits of a limb: 21
  Delta        \* -delta in base 2^ScalarBits, signed digits:
               \* <<666643, 470296, 654183, -997805, 136657, -683901>>

ASSUME ScalarAssumption == ScalarBits \in Nat \ {0} /\ Len(Delta) = 6

StringBits == FieldBits + 1                     \* 256
Unit       == 2 ^ ScalarBits
Naturals0(n) == [k \in 1..n |-> k - 1]          \* <<0, 1, ..., n - 1>>

(* The limbs of a string of n bits, the last of them with what is left. *)
Loaded ==
  [s \in Fe, n, limbs \in Nat |->
     [i \in 1..limbs |-> Number(s, (i - 1) * ScalarBits, IF i = limbs THEN n - 1 ELSE i * ScalarBits - 1)] \o <<>>]

Fold(s, i) ==
  [k \in 1..24 |-> IF k = i + 1 THEN 0
                   ELSE IF k - i + 12 \in 1..6 THEN s[k] + s[i + 1] * Delta[k - i + 12]
                   ELSE s[k]] \o <<>>

Pass(s, i, c) == [s EXCEPT ![i + 1] = @ - c * Unit, ![i + 2] = @ + c]
Rounded(s, i) == Pass(s, i, (s[i + 1] + Unit \div 2) \div Unit)
Floored(s, i) == Pass(s, i, s[i + 1] \div Unit)

Step ==
  [s \in Fe |-> [step \in {"fold", "round", "floor"} \X Nat |->
     CASE step[1] = "fold"  -> Fold(s, step[2])
       [] step[1] = "round" -> Rounded(s, step[2])
       [] step[1] = "floor" -> Floored(s, step[2])]]

Each(what, limbs) == [k \in DOMAIN limbs |-> <<what, limbs[k]>>]

(* What the code does to the limbs, in its order. *)
ProductSteps == Each("round", <<0, 2, 4, 6, 8, 10, 12, 14, 16, 18, 20, 22>>)
             \o Each("round", <<1, 3, 5, 7, 9, 11, 13, 15, 17, 19, 21>>)
HighSteps    == Each("fold", <<23, 22, 21, 20, 19, 18>>)
             \o Each("round", <<6, 8, 10, 12, 14, 16>>) \o Each("round", <<7, 9, 11, 13, 15>>)
MiddleSteps  == Each("fold", <<17, 16, 15, 14, 13, 12>>)
             \o Each("round", <<0, 2, 4, 6, 8, 10>>) \o Each("round", <<1, 3, 5, 7, 9, 11>>)
LowSteps     == Each("fold", <<12>>) \o Each("floor", Naturals0(12))
             \o Each("fold", <<12>>) \o Each("floor", Naturals0(11))
ReduceSteps  == HighSteps \o MiddleSteps \o LowSteps

(* The twelve low limbs as a string, the last limb with the bits above it. *)
LimbAt(k) == IF k > 11 * ScalarBits THEN 11 ELSE (k - 1) \div ScalarBits
Scalar ==
  [s \in Fe |-> [k \in 1..StringBits |->
                   (s[LimbAt(k) + 1] \div 2 ^ (k - 1 - ScalarBits * LimbAt(k))) % 2] \o <<>>]

sc_reduce == [s \in Fe |-> Scalar[Along(Step, Loaded[s, 2 * StringBits, 24], ReduceSteps)]]

(* Limb k of c + a b. *)
ProductLimb(a, b, c, k) ==
  LET sum[i \in 0..12] ==
        IF i = 0 THEN (IF k < 12 THEN c[k + 1] ELSE 0)
        ELSE sum[i - 1] + (IF k - i + 1 \in 0..11 THEN a[i] * b[k - i + 2] ELSE 0)
  IN sum[12]

Product == [a, b, c \in Fe |-> [k \in 1..24 |-> ProductLimb(a, b, c, k - 1)] \o <<>>]

sc_muladd ==
  [a, b, c \in Fe |->
     Scalar[Along(Step, Product[Loaded[a, StringBits, 12], Loaded[b, StringBits, 12], Loaded[c, StringBits, 12]],
                  ProductSteps \o ReduceSteps)]]
=============================================================================
