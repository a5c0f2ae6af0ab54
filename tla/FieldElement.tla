---------------------------- MODULE FieldElement ----------------------------
(***************************************************************************)
(* Arithmetic modulo 2^255 - 19 on ten signed limbs (fe.cu, fe.c).  A      *)
(* field element is a tuple of ten integers; component i is the code's     *)
(* limb i - 1.  Even limbs of the code have LimbBits bits and odd ones one *)
(* less, so the modulus is 2^FieldBits - 19; with LimbBits = 26 the        *)
(* operators below are the code's.  TLC's integers hold the products for   *)
(* LimbBits = 9, which keeps every limb, carry and wrap of the code and    *)
(* gives the prime 2^85 - 19.                                              *)
(*                                                                         *)
(* A string of bytes is the tuple of its bits, least significant first:    *)
(* the code's 32 bytes are FieldBits + 1 bits.                             *)
(*                                                                         *)
(* The operations are functions, so that TLC computes their arguments      *)
(* once; a tuple is joined with <<>> where TLC would keep the rule.  Those *)
(* of several arguments that the proofs are about take one after the other *)
(* (fe_add[f][g]), which is the form the provers can expand.               *)
(***************************************************************************)
EXTENDS Integers, Sequences, Strict

CONSTANTS
  LimbBits,  \* bits of an even limb: 26
  LoadAt,    \* first bit of the bytes loaded into each limb, and the end:
             \* <<0, 32, 56, 80, 104, 128, 160, 184, 208, 232, 255>>
  Small,     \* the small constant of fe_mul121666: 121666
  Ladder     \* the doublings of fe_invert, <<m, n>> giving z^(2^(m+n)-1) from
             \* z^(2^m-1) and z^(2^n-1): <<5,5>>, <<10,10>>, <<20,20>>,
             \* <<40,10>>, <<50,50>>, <<100,100>>, <<200,50>>

ASSUME LimbsAssumption == LimbBits \in Nat \ {0, 1} /\ Len(LoadAt) = 11
ASSUME LadderAssumption ==
  /\ Ladder \in Seq(Nat \X Nat) /\ Ladder # <<>>
  /\ \A k \in DOMAIN Ladder :
       /\ Ladder[k][1] + Ladder[k][2] \in 1..(5 * (2 * LimbBits - 1))
       /\ \A i \in {1, 2} : Ladder[k][i] = 5 \/ \E j \in 1..(k - 1) : Ladder[k][i] = Ladder[j][1] + Ladder[j][2]

-----------------------------------------------------------------------------
Fe == Seq(Int)      \* field elements, and strings of bits

Bits(i)   == LimbBits - (IF i % 2 = 1 THEN 0 ELSE 1)
Offset(i) == ((i - 1) \div 2) * (2 * LimbBits - 1) + (IF i % 2 = 1 THEN 0 ELSE LimbBits)
FieldBits == Offset(11)
Radix     == [i \in 1..10 |-> 2 ^ Bits(i)] \o <<>>

(* The number in bits from..to of a string, and the low bits of a number   *)
(* below 2^30.                                                             *)
Number(s, from, to) ==
  LET n[k \in from..(to + 1)] == IF k > to THEN 0 ELSE s[k + 1] + 2 * n[k + 1] IN n[from]
BitsOf == [n \in Nat |-> [count \in Nat |->
             [k \in 1..count |-> IF k > 30 THEN 0 ELSE (n \div 2 ^ (k - 1)) % 2] \o <<>>]]

fe_0 == [i \in 1..10 |-> 0] \o <<>>
fe_1 == [i \in 1..10 |-> IF i = 1 THEN 1 ELSE 0] \o <<>>

fe_add  == [f \in Fe |-> [g \in Fe |-> [i \in 1..10 |-> f[i] + g[i]] \o <<>>]]
fe_sub  == [f \in Fe |-> [g \in Fe |-> [i \in 1..10 |-> f[i] - g[i]] \o <<>>]]
Doubled == [f \in Fe |-> [i \in 1..10 |-> 2 * f[i]] \o <<>>]
fe_neg  == [f \in Fe |-> [i \in 1..10 |-> 0 - f[i]] \o <<>>]
fe_copy == [f \in Fe |-> f]
fe_cmov ==
  [f \in Fe |-> [g \in Fe |-> [b \in {0, 1} |-> [i \in 1..10 |-> f[i] + b * (g[i] - f[i])] \o <<>>]]]
fe_cswap(f, g, b) == <<fe_cmov[f][g][b], fe_cmov[g][f][b]>>

-----------------------------------------------------------------------------
(* One carry: limb i keeps a rounded remainder, the rest goes to the next  *)
(* limb, from the last one times 19 to the first.                          *)
Carry ==
  [h \in Fe |-> [i \in 1..10 |->
     LET c == (h[i] + Radix[i] \div 2) \div Radix[i]
     IN IF i = 10 THEN [h EXCEPT ![10] = @ - c * Radix[10], ![1] = @ + 19 * c]
                  ELSE [h EXCEPT ![i] = @ - c * Radix[i], ![i + 1] = @ + c]]]

ProductCarries == <<1, 5, 2, 6, 3, 7, 4, 8, 5, 9, 10, 1>>
SmallCarries   == <<10, 2, 4, 6, 8, 1, 3, 5, 7, 9>>

(* Two odd limbs of the code overlap by a bit, and limbs 10.. wrap with 19. *)
Weight(i, j)  == (IF i + j > 11 THEN 19 ELSE 1) * (IF i % 2 = 0 /\ j % 2 = 0 THEN 2 ELSE 1)
Weights       == [k \in 1..10 |-> [i \in 1..10 |-> Weight(i, ((k - i) % 10) + 1)] \o <<>>] \o <<>>
Partner(k, i) == ((k - i) % 10) + 1

Products ==
  [f \in Fe |-> [g \in Fe |->
     [k \in 1..10 |->
        LET sum[i \in 0..10] ==
              IF i = 0 THEN 0 ELSE sum[i - 1] + Weights[k][i] * f[i] * g[Partner(k, i)]
        IN sum[10]] \o <<>>]]

(* The squares, each mixed product once and doubled. *)
Times(k, i) == IF i > Partner(k, i) THEN 0 ELSE IF i = Partner(k, i) THEN 1 ELSE 2
Squares ==
  [f \in Fe |->
     [k \in 1..10 |->
        LET sum[i \in 0..10] ==
              IF i = 0 THEN 0
              ELSE IF Times(k, i) = 0 THEN sum[i - 1]
              ELSE sum[i - 1] + Times(k, i) * Weights[k][i] * f[i] * f[Partner(k, i)]
        IN sum[10]] \o <<>>]

fe_mul       == [f \in Fe |-> [g \in Fe |-> Along(Carry, Products[f][g], ProductCarries)]]
fe_sq        == [f \in Fe |-> Along(Carry, Squares[f], ProductCarries)]
fe_sq2       == [f \in Fe |-> Along(Carry, Doubled[Squares[f]], ProductCarries)]
fe_mul121666 == [f \in Fe |-> Along(Carry, [i \in 1..10 |-> Small * f[i]] \o <<>>, SmallCarries)]

-----------------------------------------------------------------------------
(* Strings.  The bits are loaded at byte boundaries and shifted into their *)
(* limbs; the top bit is ignored.                                          *)
fe_frombytes ==
  [s \in Fe |->
     Along(Carry,
           [i \in 1..10 |-> Number(s, LoadAt[i], LoadAt[i + 1] - 1) * 2 ^ (LoadAt[i] - Offset(i))] \o <<>>,
           SmallCarries)]

(* The quotient of h by the modulus, from an estimate carried through.     *)
Quotient(h) ==
  LET q[i \in 0..10] == IF i = 0 THEN (19 * h[10] + Radix[10] \div 2) \div Radix[10]
                        ELSE (h[i] + q[i - 1]) \div Radix[i]
  IN q[10]

FloorCarry ==
  [h \in Fe |-> [i \in 1..10 |->
     LET c == h[i] \div Radix[i]
     IN IF i = 10 THEN [h EXCEPT ![10] = @ - c * Radix[10]]
                  ELSE [h EXCEPT ![i] = @ - c * Radix[i], ![i + 1] = @ + c]]]

Reduced(h) ==
  Along(FloorCarry, [h EXCEPT ![1] = @ + 19 * Quotient(h)], <<1, 2, 3, 4, 5, 6, 7, 8, 9, 10>>)

Packed ==
  [h \in Fe |-> BitsOf[h[1]][Bits(1)] \o BitsOf[h[2]][Bits(2)] \o BitsOf[h[3]][Bits(3)]
             \o BitsOf[h[4]][Bits(4)] \o BitsOf[h[5]][Bits(5)] \o BitsOf[h[6]][Bits(6)]
             \o BitsOf[h[7]][Bits(7)] \o BitsOf[h[8]][Bits(8)] \o BitsOf[h[9]][Bits(9)]
             \o BitsOf[h[10]][Bits(10)] \o <<0>>]

fe_tobytes == [h \in Fe |-> Packed[Reduced(h)]]

fe_isnegative(f) == fe_tobytes[f][1]
fe_isnonzero(f)  == fe_tobytes[f] # BitsOf[0][FieldBits + 1]

-----------------------------------------------------------------------------
(* Powers.                                                                 *)
Squared(f, n) == Along([g \in Fe |-> [k \in Nat |-> fe_sq[g]]], f, [k \in 1..n |-> k])

(* z^9, z^11 and z^(2^5-1) by the first steps that both chains share.      *)
z9(z)  == fe_mul[z][Squared(z, 3)]
z11(z) == fe_mul[fe_sq[z]][z9(z)]
z31(z) == fe_mul[z9(z)][fe_sq[z11(z)]]

(* z^(2^n - 1) for the n that Ladder reaches, by n. *)
Ones(z) ==
  Along([known \in [1..FieldBits -> Fe] |-> [step \in Nat \X Nat |->
           [known EXCEPT ![step[1] + step[2]] =
              fe_mul[Squared(known[step[1]], step[2])][known[step[2]]]]]],
        [n \in 1..FieldBits |-> IF n = 5 THEN z31(z) ELSE <<>>] \o <<>>, Ladder)
LongOnes(z) == Ones(z)[Ladder[Len(Ladder)][1] + Ladder[Len(Ladder)][2]]

fe_invert   == [z \in Fe |-> fe_mul[Squared(LongOnes(z), 5)][z11(z)]]
fe_pow22523 == [z \in Fe |-> fe_mul[Squared(LongOnes(z), 2)][z]]
=============================================================================
