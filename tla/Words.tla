------------------------------- MODULE Words --------------------------------
(***************************************************************************)
(* Machine words for the ciphers and hashes: bytes, and words as tuples of *)
(* 16-bit limbs, most significant first; the operators of C on unsigned    *)
(* integers.                                                               *)
(***************************************************************************)
EXTENDS Integers, Sequences, Strict

(* Exclusive or of two bytes, from the one of their nibbles.               *)
NibbleBits(a, b) == [i \in 1..4 |-> ((a \div 2 ^ (i - 1)) + (b \div 2 ^ (i - 1))) % 2]
NibbleXor == [n \in 1..256 |-> LET t == NibbleBits((n - 1) \div 16, (n - 1) % 16)
                                IN t[1] + 2 * t[2] + 4 * t[3] + 8 * t[4]] \o <<>>
XorTable == [n \in 1..65536 |->
               16 * NibbleXor[16 * ((n - 1) \div 4096) + (((n - 1) % 256) \div 16) + 1]
               + NibbleXor[16 * (((n - 1) \div 256) % 16) + ((n - 1) % 16) + 1]] \o <<>>
XorByte(a, b) == XorTable[256 * a + b + 1]
XorLimb(a, b) == 256 * XorByte(a \div 256, b \div 256) + XorByte(a % 256, b % 256)
AndLimb(a, b) == (a + b - XorLimb(a, b)) \div 2
OrLimb(a, b)  == (a + b + XorLimb(a, b)) \div 2

XorBytes == [x \in Seq(Nat) |-> [y \in Seq(Nat) |-> [i \in DOMAIN x |-> XorByte(x[i], y[i])] \o <<>>]]
Xor == [x \in Seq(Nat) |-> [y \in Seq(Nat) |-> [i \in DOMAIN x |-> XorLimb(x[i], y[i])] \o <<>>]]
And == [x \in Seq(Nat) |-> [y \in Seq(Nat) |-> [i \in DOMAIN x |-> AndLimb(x[i], y[i])] \o <<>>]]
Or  == [x \in Seq(Nat) |-> [y \in Seq(Nat) |-> [i \in DOMAIN x |-> OrLimb(x[i], y[i])] \o <<>>]]

(* The sum modulo the width of the words. *)
Added(x, y) ==
  LET carry[i \in 1..(Len(x) + 1)] == IF i > Len(x) THEN 0 ELSE (x[i] + y[i] + carry[i + 1]) \div 65536
  IN [i \in 1..Len(x) |-> (x[i] + y[i] + carry[i + 1]) % 65536] \o <<>>
Plus == [x \in Seq(Nat) |-> [y \in Seq(Nat) |-> Added(x, y)]]

(* x shifted right by by bits: limb i has the low end of the limb at i     *)
(* minus the whole limbs and, from the left, bits of the one before; what  *)
(* comes in from the left is the other end, or zeros.                      *)
Spliced(low, left, by) == low \div (2 ^ by) + (left % 2 ^ by) * 2 ^ (16 - by)
RotR ==
  [x \in Seq(Nat) |-> [by \in Nat |->
     [i \in DOMAIN x |-> Spliced(x[((i - by \div 16 - 1) % Len(x)) + 1],
                               x[((i - by \div 16 - 2) % Len(x)) + 1], by % 16)] \o <<>>]]
ShiftR ==  \* by less than 16
  [x \in Seq(Nat) |-> [by \in Nat |->
     [i \in DOMAIN x |-> Spliced(x[i], IF i = 1 THEN 0 ELSE x[i - 1], by)] \o <<>>]]
=============================================================================
