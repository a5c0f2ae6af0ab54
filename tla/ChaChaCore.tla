----------------------------- MODULE ChaChaCore -----------------------------
(***************************************************************************)
(* ChaCha20 (chacha20_core.cu).  A word is a pair of 16-bit limbs, most    *)
(* significant first, and goes to memory little-endian; x is the tuple of  *)
(* the sixteen words, word x[i] of the code at i + 1.                      *)
(***************************************************************************)
EXTENDS Words

CONSTANT CHACHA_ROUNDS  \* 500
ASSUME RoundsAssumption == CHACHA_ROUNDS \in Nat

ROTL32(v, n) == RotR[v][32 - n]
U8TO32_LITTLE(p, at) == <<p[at + 3] * 256 + p[at + 2], p[at + 1] * 256 + p[at]>>
U32TO8_LITTLE(v) == <<v[2] % 256, v[2] \div 256, v[1] % 256, v[1] \div 256>>

(* x[a] += x[b], x[d] = (x[d] ^ x[a]) <<< n, at the places of the code.    *)
HalfTurn ==
  [x \in Seq(Seq(Nat)) |-> [t \in Seq(Nat) |->
     LET sum == Plus[x[t[1] + 1]][x[t[2] + 1]]
     IN [x EXCEPT ![t[1] + 1] = sum, ![t[3] + 1] = ROTL32(Xor[@][sum], t[4])]]]
QUARTERROUND ==
  [x \in Seq(Seq(Nat)) |-> [q \in Seq(Nat) |->
     Along(HalfTurn, x, << <<q[1], q[2], q[4], 16>>, <<q[3], q[4], q[2], 12>>,
                           <<q[1], q[2], q[4], 8>>, <<q[3], q[4], q[2], 7>> >>)]]

Quarters == << <<0, 4, 8, 12>>, <<1, 5, 9, 13>>, <<2, 6, 10, 14>>, <<3, 7, 11, 15>>,
               <<0, 5, 10, 15>>, <<1, 6, 11, 12>>, <<2, 7, 8, 13>>, <<3, 4, 9, 14>> >>
DoubleRound == [x \in Seq(Seq(Nat)) |-> [i \in Nat |-> Along(QUARTERROUND, x, Quarters)]]

sigma == <<101, 120, 112, 97, 110, 100, 32, 51, 50, 45, 98, 121, 116, 101, 32, 107>>
WordsOf == [bytes \in Seq(Nat) |-> [i \in 1..(Len(bytes) \div 4) |-> U8TO32_LITTLE(bytes, 4 * i - 3)] \o <<>>]

(* input and output are 64 bytes. *)
Summed ==
  [y \in Seq(Seq(Nat)) |-> [in \in Seq(Seq(Nat)) |->
     Along([out \in Seq(Nat) |-> [i \in Nat |-> LET v == Plus[y[i]][in[i]] IN out \o U32TO8_LITTLE(v)]],
           <<>>, [i \in 1..16 |-> i])]]
chacha20_encrypt ==
  [input \in Seq(Nat) |-> [num_rounds \in Nat |->
     Summed[Along(DoubleRound, WordsOf[input], [i \in 1..((num_rounds + 1) \div 2) |-> i])][WordsOf[input]]]]

(* Block number n of the key stream that starts at counter. *)
CounterBytes(n) == <<n % 256, (n \div 256) % 256, (n \div 65536) % 256, n \div 16777216>>
KeyStream(key, nonce, n) == chacha20_encrypt[sigma \o key \o CounterBytes(n) \o nonce][CHACHA_ROUNDS]
chacha20_ctr_encrypt(in, key, nonce, counter) ==
  Along([out \in Seq(Nat) |-> [k \in Nat |->
           out \o XorBytes[SubSeq(in, 64 * k + 1, IF Len(in) < 64 * k + 64 THEN Len(in) ELSE 64 * k + 64)]
                          [KeyStream(key, nonce, counter + k)]]],
        <<>>, [k \in 1..((Len(in) + 63) \div 64) |-> k - 1])
=============================================================================
