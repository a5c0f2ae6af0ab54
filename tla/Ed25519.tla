------------------------------ MODULE Ed25519 -------------------------------
(***************************************************************************)
(* Keys and signatures on the curve of GroupElement: keypair.cu, sign.cu   *)
(* and verify.cu, and the host calls that only the enclave's copy builds,  *)
(* add_scalar.c and key_exchange.c.  Strings are tuples of bits; a private *)
(* key is a scalar followed by the prefix of its nonces, as in the code's  *)
(* 64 bytes.                                                               *)
(***************************************************************************)
EXTENDS GroupElement

CONSTANT Sha512  \* a function of strings of any length to ones of 2 * StringBits bits

Low(s)  == SubSeq(s, 1, StringBits)
High(s) == SubSeq(s, StringBits + 1, 2 * StringBits)
Null    == <<>>     \* a NULL pointer

(* &= 248, &= 63, |= 64 *)
Clamped(s) == [s EXCEPT ![1] = 0, ![2] = 0, ![3] = 0, ![StringBits - 1] = 1, ![StringBits] = 0]

PublicOf == [scalar \in Fe |-> ge_p3_tobytes(ge_scalarmult_base[scalar])]

KeysOf == [a \in Fe |-> [prefix \in Fe |-> [public_key |-> PublicOf[a], private_key |-> a \o prefix]]]
ed25519_create_keypair ==
  [seed \in Fe |-> LET h == Sha512[seed] IN KeysOf[Clamped(Low(h))][High(h)]]

(* The half S of a signature whose nonce is r and whose first half is R.   *)
Response ==
  [message, public_key, a, r, R \in Fe |->
     R \o sc_muladd[sc_reduce[Sha512[R \o public_key \o message]], a, r]]
ed25519_sign ==
  [message, public_key, private_key \in Fe |->
     LET r == sc_reduce[Sha512[High(private_key) \o message]]
     IN Response[message, public_key, Low(private_key), r, PublicOf[r]]]

(* No difference in any byte. *)
consttime_equal(x, y) == \A k \in DOMAIN x : x[k] = y[k]

(* The checks of ed25519_verify in their order. *)
ed25519_verify ==
  [signature, message, public_key \in Fe |->
     LET A == ge_frombytes_negate_vartime[public_key]
         h == sc_reduce[Sha512[Low(signature) \o public_key \o message]]
     IN /\ \A k \in 12 * ScalarBits + 2..StringBits : High(signature)[k] = 0
        /\ A # Invalid
        /\ consttime_equal(ge_tobytes(ge_double_scalarmult_vartime(h, A, High(signature))), Low(signature))]

-----------------------------------------------------------------------------
(* add_scalar: the holder of a private key moves it by the scalar; who has *)
(* only the public key moves that, and the result of decoding it is used   *)
(* unchecked.                                                              *)
ScalarOne   == BitsOf[1][StringBits]
Shift(scalar) == [scalar EXCEPT ![StringBits] = 0]

MovedPrivate ==
  [private_key, scalar \in Fe |->
     sc_muladd[ScalarOne, Shift(scalar), Low(private_key)] \o Low(Sha512[High(private_key) \o scalar])]

UndoneXOnly == [p \in ge_p3 |-> [p EXCEPT !.X = fe_neg[p.X]]]   \* mutant: T keeps its sign
Undone == [p \in ge_p3 |-> [p EXCEPT !.X = fe_neg[p.X], !.T = fe_neg[p.T]]]
MovedPublic ==
  [public_key, scalar \in Fe |->
     LET T == ge_p3_to_cached[Undone[ge_frombytes_negate_vartime[public_key]]]
     IN ge_p3_tobytes(ge_p1p1_to_p3[ge_add[ge_scalarmult_base[Shift(scalar)]][T]])]

ed25519_add_scalar(public_key, private_key, scalar) ==
  LET moved == IF private_key = Null THEN Null ELSE MovedPrivate[private_key, scalar]
  IN [private_key |-> moved,
      public_key  |-> IF public_key = Null THEN Null
                      ELSE IF private_key # Null THEN PublicOf[Low(moved)]
                      ELSE MovedPublic[public_key, scalar]]

-----------------------------------------------------------------------------
(* key_exchange: the Montgomery ladder on u = (1 + y) / (1 - y), over the  *)
(* bits of the clamped scalar from the top.  swap holds the last bit.      *)
Ladders == [x2 : Fe, z2 : Fe, x3 : Fe, z3 : Fe, swap : {0, 1}]
Swapped == [l \in Ladders, b \in {0, 1} |->
              LET xs == fe_cswap(l.x2, l.x3, b)
                  zs == fe_cswap(l.z2, l.z3, b)
              IN [x2 |-> xs[1], z2 |-> zs[1], x3 |-> xs[2], z3 |-> zs[2], swap |-> l.swap]]

(* From the squares of x2 + z2 and x2 - z2 and the two mixed products. *)
Rung == [aa, bb, e, da, cb, x1 \in Fe, b \in {0, 1} |->
           [x2 |-> fe_mul[aa][bb], z2 |-> fe_mul[e][fe_add[bb][fe_mul121666[e]]],
            x3 |-> fe_sq[fe_add[da][cb]], z3 |-> fe_mul[x1][fe_sq[fe_sub[da][cb]]], swap |-> b]]
Crossed == [l \in Ladders, b \in {0, 1}, x1 \in Fe |->
            LET aa == fe_sq[fe_add[l.x2][l.z2]]
                bb == fe_sq[fe_sub[l.x2][l.z2]]
            IN Rung[aa, bb, fe_sub[aa][bb],
                    fe_mul[fe_sub[l.x3][l.z3]][fe_add[l.x2][l.z2]],
                    fe_mul[fe_add[l.x3][l.z3]][fe_sub[l.x2][l.z2]], x1, b]]

(* Mutant: the swap left over from the last bit is not undone. *)
LadderStepUnswapped == [l \in Ladders, b \in {0, 1}, x1 \in Fe |-> Crossed[Swapped[l, b], b, x1]]

LadderStep == [l \in Ladders, b \in {0, 1}, x1 \in Fe |-> Crossed[Swapped[l, (l.swap + b) % 2], b, x1]]

LadderEnd ==
  [e, x1 \in Fe |->
     Along([l \in Ladders |-> [pos \in Nat |-> LadderStep[l, e[pos], x1]]],
           [x2 |-> fe_1, z2 |-> fe_0, x3 |-> x1, z3 |-> fe_1, swap |-> 0],
           [k \in 1..FieldBits |-> FieldBits + 1 - k])]
Shared == [l \in Ladders |-> LET end == Swapped[l, l.swap] IN fe_tobytes[fe_mul[end.x2][fe_invert[end.z2]]]]
ed25519_key_exchange ==
  [public_key, private_key \in Fe |->
     LET y == fe_frombytes[public_key]
     IN Shared[LadderEnd[Clamped(Low(private_key)),
                           fe_mul[fe_add[y][fe_1]][fe_invert[fe_sub[fe_1][y]]]]]]
=============================================================================
