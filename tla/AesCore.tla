------------------------------ MODULE AesCore -------------------------------
(***************************************************************************)
(* AES (aes_core.cu): the key schedules of AES_set_encrypt_key and         *)
(* AES_set_decrypt_key, AES_encrypt and AES_decrypt.  A word is a tuple of *)
(* four bytes, most significant first; tables have their entry x at x + 1. *)
(* The tables are given by the rule in the source's comment,               *)
(* Te0[x] = S[x].[02, 01, 01, 03] and so on, over GF(2^8).                 *)
(***************************************************************************)
EXTENDS Words

Twice(a) == IF a < 128 THEN 2 * a ELSE XorByte(2 * a - 256, 27)
Thrice(a) == XorByte(Twice(a), a)
(* The product, a times b's bits from the highest down; the inverse, a^254. *)
Times(a, b) ==
  Along([s \in Nat |-> [i \in Nat |-> IF (b \div 2 ^ i) % 2 = 1 THEN XorByte(Twice(s), a) ELSE Twice(s)]],
        0, <<7, 6, 5, 4, 3, 2, 1, 0>>)
SquareTimes(s, a) == Times(Times(s, s), a)
Reciprocal(a) ==
  LET root == Along([s \in Nat |-> [i \in Nat |-> SquareTimes(s, a)]], a, <<1, 2, 3, 4, 5, 6>>)
  IN Times(root, root)
Rolled(b, by) == ((b * 2 ^ by) % 256) + b \div 2 ^ (8 - by)
Affine ==
  [b \in Nat |-> Along([s \in Nat |-> [by \in Nat |-> XorByte(s, Rolled(b, by))]], XorByte(99, b), <<1, 2, 3, 4>>)]
S == [i \in 1..256 |-> Affine[Reciprocal(i - 1)]] \o <<>>

Column(b)    == <<Twice(b), b, b, Thrice(b)>>
Uncolumn(b)  == <<Times(b, 14), Times(b, 9), Times(b, 13), Times(b, 11)>>
Right(w)     == <<w[4], w[1], w[2], w[3]>>
AllRight(te) == [i \in 1..256 |-> Right(te[i])] \o <<>>
Te0 == [i \in 1..256 |-> Column(S[i])] \o <<>>
Te1 == AllRight(Te0)
Te2 == AllRight(Te1)
Te3 == AllRight(Te2)
Td4 == [i \in 1..256 |-> (CHOOSE k \in 1..256 : S[k] = i - 1) - 1] \o <<>>
Td0 == [i \in 1..256 |-> Uncolumn(Td4[i])] \o <<>>
Td1 == AllRight(Td0)
Td2 == AllRight(Td1)
Td3 == AllRight(Td2)
Marks == Along([t \in Seq(Nat) |-> [k \in Nat |-> Append(t, Twice(t[k]))]], <<1>>, [k \in 1..9 |-> k])
rcon == [i \in 1..10 |-> <<Marks[i], 0, 0, 0>>] \o <<>>

-----------------------------------------------------------------------------
(* The key schedule of key, n = 4, 6 or 8 words: every n-th word has a     *)
(* rotated, substituted and marked last word added, with 8 words every     *)
(* fourth one a substituted one.  The S-box is read from the tables, byte  *)
(* by byte where they hold it once.                                        *)
GETU32(bytes, at) == <<bytes[at], bytes[at + 1], bytes[at + 2], bytes[at + 3]>>
Rounds(bits) == CASE bits = 128 -> 10 [] bits = 192 -> 12 [] bits = 256 -> 14
SubWord(a, b, c, e) == <<Te2[a + 1][1], Te3[b + 1][2], Te0[c + 1][3], Te1[e + 1][4]>>
Turned(temp)  == SubWord(temp[2], temp[3], temp[4], temp[1])
Straight(temp) == SubWord(temp[1], temp[2], temp[3], temp[4])

NextWord(rk, k, n) ==
  LET temp == rk[k]
      mixed == CASE k % n = 0           -> XorBytes[Turned(temp)][rcon[k \div n]]
                 [] n = 8 /\ k % n = 4  -> Straight(temp)
                 [] OTHER               -> temp
  IN XorBytes[rk[k - n + 1]][mixed]
AES_set_encrypt_key ==
  [userKey \in Seq(Nat) |-> [bits \in {128, 192, 256} |->
     LET n == bits \div 32
     IN [rounds |-> Rounds(bits),
         rd_key |-> Along([rk \in Seq(Seq(Nat)) |-> [k \in Nat |-> Append(rk, NextWord(rk, k, n))]],
                          [i \in 1..n |-> GETU32(userKey, 4 * i - 3)] \o <<>>,
                          [i \in 1..(4 * (Rounds(bits) + 1) - n) |-> n + i - 1])]]]

(* For decryption: the round keys in reverse order, the inverse MixColumn  *)
(* applied to all but the first and the last.                              *)
UnmixedTwice(w) ==  \* mutant: the S-box that Td0 undoes is not applied before
  XorBytes[XorBytes[Td0[w[1] + 1]][Td1[w[2] + 1]]][XorBytes[Td2[w[3] + 1]][Td3[w[4] + 1]]]
Unmixed(w) == XorBytes[XorBytes[Td0[Te1[w[1] + 1][4] + 1]][Td1[Te1[w[2] + 1][4] + 1]]]
                      [XorBytes[Td2[Te1[w[3] + 1][4] + 1]][Td3[Te1[w[4] + 1][4] + 1]]]
KeySchedules == [rounds : {10, 12, 14}, rd_key : Seq(Seq(Nat))]
Inverted ==
  [key \in KeySchedules |->
     LET word(i) == key.rd_key[4 * (key.rounds - (i - 1) \div 4) + ((i - 1) % 4) + 1]
     IN [key EXCEPT !.rd_key =
           [i \in DOMAIN @ |-> IF i \in 5..(4 * key.rounds) THEN Unmixed(word(i)) ELSE word(i)] \o <<>>]]
AES_set_decrypt_key(userKey, bits) == Inverted[AES_set_encrypt_key[userKey][bits]]

-----------------------------------------------------------------------------
(* A round on four words of state.  Word k takes its bytes from words k,   *)
(* k + 1, k + 2, k + 3 (decrypting: k, k - 1, k - 2, k - 3), cyclically.   *)
Cyc(k) == ((k - 1) % 4) + 1
GEN_TX(s, k, rk, r) ==
  XorBytes[XorBytes[XorBytes[Te0[s[k][1] + 1]][Te1[s[Cyc(k + 1)][2] + 1]]]
                   [XorBytes[Te2[s[Cyc(k + 2)][3] + 1]][Te3[s[Cyc(k + 3)][4] + 1]]]][rk[4 * r + k]]
Round(s, rk, r) == [k \in 1..4 |-> GEN_TX(s, k, rk, r)] \o <<>>
LastRound(s, rk, r) ==
  [k \in 1..4 |->
     XorBytes[SubWord(s[k][1], s[Cyc(k + 1)][2], s[Cyc(k + 2)][3], s[Cyc(k + 3)][4])][rk[4 * r + k]]] \o <<>>

InverseRound(s, rk, r) ==
  [k \in 1..4 |->
     XorBytes[XorBytes[XorBytes[Td0[s[k][1] + 1]][Td1[s[Cyc(k + 3)][2] + 1]]]
                      [XorBytes[Td2[s[Cyc(k + 2)][3] + 1]][Td3[s[Cyc(k + 1)][4] + 1]]]][rk[4 * r + k]]] \o <<>>
InverseLastRound(s, rk, r) ==
  [k \in 1..4 |->
     XorBytes[<<Td4[s[k][1] + 1], Td4[s[Cyc(k + 3)][2] + 1],
                Td4[s[Cyc(k + 2)][3] + 1], Td4[s[Cyc(k + 1)][4] + 1]>>][rk[4 * r + k]]] \o <<>>

Started(in, rk) == [k \in 1..4 |-> XorBytes[GETU32(in, 4 * k - 3)][rk[k]]] \o <<>>
PUTU32(s) == s[1] \o s[2] \o s[3] \o s[4]

AES_encrypt ==
  [in \in Seq(Nat) |-> [key \in KeySchedules |->
     LET s == Along([t \in Seq(Seq(Nat)) |-> [r \in Nat |-> Round(t, key.rd_key, r)]], Started(in, key.rd_key),
                    [r \in 1..(key.rounds - 1) |-> r])
         end == LastRound(s, key.rd_key, key.rounds)
     IN PUTU32(end)]]
AES_decrypt ==
  [in \in Seq(Nat) |-> [key \in KeySchedules |->
     LET s == Along([t \in Seq(Seq(Nat)) |-> [r \in Nat |-> InverseRound(t, key.rd_key, r)]], Started(in, key.rd_key),
                    [r \in 1..(key.rounds - 1) |-> r])
         end == InverseLastRound(s, key.rd_key, key.rounds)
     IN PUTU32(end)]]
=============================================================================
