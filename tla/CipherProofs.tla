---------------------------- MODULE CipherProofs ----------------------------
(***************************************************************************)
(* Proofs about ChunkedCipher.  First the types of AES and ChaCha: blocks  *)
(* go to blocks.  Then the stream of CBC as a chain of blocks, of which    *)
(* the blocks of a beginning are the beginning of the blocks; the bytes of *)
(* the input and of the output by their block and their place in it; the   *)
(* memory in which the threads write side by side.  The invariant says of  *)
(* every thread what its part holds; each kind of step has its lemma, for  *)
(* any call, before the one for the state.                                 *)
(* At the end, why AES decrypts what it encrypts: the exclusive or cancels *)
(* and crosses, the tables are linear and the two sets of tables undo each *)
(* other column by column, so that a round of decryption undoes a round of *)
(* encryption, the rounds a block, and the blocks the input.               *)
(***************************************************************************)
EXTENDS ChunkedCipher, StreamsProofs

-----------------------------------------------------------------------------
(* Bytes. *)

(* Strings of n bytes. *)
Bytes(n) == {b \in Seq(Byte) : Len(b) = n}

(* The exclusive or of bytes is a byte, and with zero the other one. *)
LEMMA XorByteIs ==
  ASSUME NEW a \in Byte, NEW b \in Byte
  PROVE  XorByte(a, b) \in Byte /\ (a = 0 => XorByte(a, b) = b)
<1>1. XorBounds(a, b, XorByte(a, b), 255)
  BY XorByteOf
<1> QED
  BY <1>1 DEF XorBounds, Byte

(* Bytes are numbers. *)
LEMMA BytesIs ==
  ASSUME NEW b \in Seq(Byte)
  PROVE  b \in Seq(Nat) /\ Len(b) \in Nat /\ DOMAIN b = 1 .. Len(b) /\ \A i \in 1 .. Len(b) : b[i] \in Byte /\ b[i] \in Nat
<1>1. \A l \in Byte : l \in Nat
  BY DEF Byte
<1> QED
  BY <1>1

(* A function on 1..n with bytes for values, as a tuple. *)
LEMMA BytesMade ==
  ASSUME NEW n \in Nat, NEW f, f = [i \in 1 .. n |-> f[i]], \A i \in 1 .. n : f[i] \in Byte
  PROVE  f \o <<>> = f /\ f \in Bytes(n)
<1>1. f \o <<>> = f /\ f \in Seq(Byte) /\ Len(f) = n
  BY Tupled
<1> QED
  BY <1>1 DEF Bytes

(* What a string of n bytes is. *)
LEMMA BytesHave ==
  ASSUME NEW n \in Nat, NEW b \in Bytes(n)
  PROVE  b \in Seq(Byte) /\ b \in Seq(Nat) /\ Len(b) = n /\ DOMAIN b = 1 .. n /\ \A i \in 1 .. n : b[i] \in Byte
  BY BytesIs DEF Bytes

(* Strings of bytes combined place by place; the second may be longer. *)
LEMMA XorBytesIs ==
  ASSUME NEW x \in Seq(Byte), NEW y \in Seq(Byte), Len(x) <= Len(y)
  PROVE  /\ XorBytes[x][y] \in Bytes(Len(x))
         /\ \A i \in 1 .. Len(x) : XorBytes[x][y][i] = XorByte(x[i], y[i])
<1>1. /\ x \in Seq(Nat) /\ y \in Seq(Nat) /\ Len(x) \in Nat /\ Len(y) \in Nat /\ DOMAIN x = 1 .. Len(x)
      /\ (\A i \in 1 .. Len(x) : x[i] \in Byte) /\ (\A i \in 1 .. Len(y) : y[i] \in Byte)
  BY BytesIs
<1> DEFINE f == [i \in 1 .. Len(x) |-> XorByte(x[i], y[i])]
<1>2. XorBytes[x][y] = f \o <<>>
  BY <1>1 DEF XorBytes
<1>3. f = [i \in 1 .. Len(x) |-> f[i]] /\ \A i \in 1 .. Len(x) : f[i] = XorByte(x[i], y[i])
  OBVIOUS
<1>4. \A i \in 1 .. Len(x) : x[i] \in Byte /\ y[i] \in Byte
  BY <1>1
<1> HIDE DEF f
<1>5. \A i \in 1 .. Len(x) : f[i] \in Byte
  BY <1>3, <1>4, XorByteIs
<1>6. f \o <<>> = f /\ f \in Bytes(Len(x))
  BY <1>1, <1>3, <1>5, BytesMade
<1> QED
  BY <1>2, <1>3, <1>6

(* Two strings of the same length. *)
LEMMA XorSame ==
  ASSUME NEW n \in Nat, NEW x \in Bytes(n), NEW y \in Bytes(n)
  PROVE  XorBytes[x][y] \in Bytes(n)
<1>1. x \in Seq(Byte) /\ y \in Seq(Byte) /\ Len(x) = n /\ Len(y) = n
  BY DEF Bytes
<1> QED
  BY <1>1, XorBytesIs

(* Four bytes. *)
Quad(a, b, c, d) == <<a, b, c, d>>

(* Four bytes make a word ... *)
LEMMA QuadIs ==
  ASSUME NEW a \in Byte, NEW b \in Byte, NEW c \in Byte, NEW d \in Byte
  PROVE  Quad(a, b, c, d) \in Bytes(4)
<1>1. Quad(a, b, c, d) \in Seq(Byte)
  BY DEF Quad
<1>2. Len(Quad(a, b, c, d)) = 4
  BY DEF Quad
<1> QED
  BY <1>1, <1>2 DEF Bytes

(* ... and a word is made of them. *)
LEMMA QuadHas ==
  ASSUME NEW w \in Bytes(4)
  PROVE  w[1] \in Byte /\ w[2] \in Byte /\ w[3] \in Byte /\ w[4] \in Byte
  BY DEF Bytes

-----------------------------------------------------------------------------
(* AES: the tables hold bytes. *)

(* Doubling and tripling in GF(2^8). *)
LEMMA TwiceIs ==
  ASSUME NEW a \in Byte
  PROVE  Twice(a) \in Byte /\ Thrice(a) \in Byte
<1>1. Twice(a) \in Byte
  <2>1. CASE a < 128
    BY <2>1 DEF Twice, Byte
  <2>2. CASE ~(a < 128)
    <3>1. 2 * a - 256 \in Byte /\ 27 \in Byte
      BY <2>2 DEF Byte
    <3> QED
      BY <2>2, <3>1, XorByteIs DEF Twice
  <2> QED
    BY <2>1, <2>2
<1>2. Thrice(a) \in Byte
  BY <1>1, XorByteIs DEF Thrice
<1> QED
  BY <1>1, <1>2

(* Products. *)
LEMMA TimesIs ==
  ASSUME NEW a \in Byte, NEW b
  PROVE  Times(a, b) \in Byte
<1> DEFINE step == [s \in Nat |-> [i \in Nat |-> IF (b \div 2 ^ i) % 2 = 1 THEN XorByte(Twice(s), a) ELSE Twice(s)]]
<1>1. ASSUME NEW x \in Byte, NEW e \in Nat
      PROVE  step[x][e] \in Byte
  <2>1. x \in Nat
    BY DEF Byte
  <2>2. Twice(x) \in Byte /\ XorByte(Twice(x), a) \in Byte
    BY TwiceIs, XorByteIs
  <2> QED
    BY <2>1, <2>2
<1>2. <<7, 6, 5, 4, 3, 2, 1, 0>> \in Seq(Nat) /\ 0 \in Byte
  BY DEF Byte
<1> HIDE DEF step
<1>3. PICK t \in Seq(Nat) : t = <<7, 6, 5, 4, 3, 2, 1, 0>>
  BY <1>2
<1>4. Along(step, 0, t) \in Byte
  BY <1>1, <1>2, AlongStays
<1> QED
  BY <1>3, <1>4 DEF Times, step

(* Powers. *)
LEMMA ReciprocalIs ==
  ASSUME NEW a \in Byte
  PROVE  Reciprocal(a) \in Byte
<1> DEFINE step == [s \in Nat |-> [i \in Nat |-> SquareTimes(s, a)]]
<1>1. ASSUME NEW x \in Byte, NEW e \in Nat
      PROVE  step[x][e] \in Byte
  <2>1. x \in Nat
    BY DEF Byte
  <2>2. SquareTimes(x, a) \in Byte
    BY TimesIs DEF SquareTimes
  <2> QED
    BY <2>1, <2>2
<1>2. <<1, 2, 3, 4, 5, 6>> \in Seq(Nat)
  OBVIOUS
<1> HIDE DEF step
<1>3. PICK root \in Byte : root = Along(step, a, <<1, 2, 3, 4, 5, 6>>)
  <2>1. PICK t \in Seq(Nat) : t = <<1, 2, 3, 4, 5, 6>>
    BY <1>2
  <2>2. Along(step, a, t) \in Byte
    BY <1>1, AlongStays
  <2> QED
    BY <2>1, <2>2
<1>4. Reciprocal(a) = Times(root, root)
  BY <1>3 DEF Reciprocal, step
<1> QED
  BY <1>4, TimesIs

(* A byte rolled to the left. *)
LEMMA RolledIs ==
  ASSUME NEW b \in Byte, NEW by \in 1 .. 4
  PROVE  Rolled(b, by) \in Byte
<1>1. 2 ^ 1 = 2 /\ 2 ^ 2 = 4 /\ 2 ^ 3 = 8 /\ 2 ^ 4 = 16 /\ 2 ^ 5 = 32 /\ 2 ^ 6 = 64 /\ 2 ^ 7 = 128
  OBVIOUS
<1>2. CASE by = 1
  <2>1. 8 - by = 7
    BY <1>2
  <2>2. Rolled(b, by) = ((b * 2) % 256) + b \div 128
    BY <1>1, <1>2, <2>1 DEF Rolled
  <2>3. ((b * 2) % 256) + b \div 128 \in 0 .. 255
    BY SMT DEF Byte
  <2> QED
    BY <2>2, <2>3 DEF Byte
<1>3. CASE by = 2
  <2>1. 8 - by = 6
    BY <1>3
  <2>2. Rolled(b, by) = ((b * 4) % 256) + b \div 64
    BY <1>1, <1>3, <2>1 DEF Rolled
  <2>3. ((b * 4) % 256) + b \div 64 \in 0 .. 255
    BY SMT DEF Byte
  <2> QED
    BY <2>2, <2>3 DEF Byte
<1>4. CASE by = 3
  <2>1. 8 - by = 5
    BY <1>4
  <2>2. Rolled(b, by) = ((b * 8) % 256) + b \div 32
    BY <1>1, <1>4, <2>1 DEF Rolled
  <2>3. ((b * 8) % 256) + b \div 32 \in 0 .. 255
    BY SMT DEF Byte
  <2> QED
    BY <2>2, <2>3 DEF Byte
<1>5. CASE by = 4
  <2>1. 8 - by = 4
    BY <1>5
  <2>2. Rolled(b, by) = ((b * 16) % 256) + b \div 16
    BY <1>1, <1>5, <2>1 DEF Rolled
  <2>3. ((b * 16) % 256) + b \div 16 \in 0 .. 255
    BY SMT DEF Byte
  <2> QED
    BY <2>2, <2>3 DEF Byte
<1> QED
  BY <1>2, <1>3, <1>4, <1>5

(* The S-box. *)
LEMMA AffineIs ==
  ASSUME NEW b \in Byte
  PROVE  Affine[b] \in Byte
<1> DEFINE step == [s \in Nat |-> [by \in Nat |-> XorByte(s, Rolled(b, by))]]
           t == <<1, 2, 3, 4>>
<1>1. \A n \in Byte : n \in Nat
  BY DEF Byte
<1>2. t \in Seq(1 .. 4)
  OBVIOUS
<1>3. PICK first \in Byte : first = XorByte(99, b)
  <2>1. 99 \in Byte
    BY DEF Byte
  <2> QED
    BY <2>1, XorByteIs
<1>4. ASSUME NEW x \in Byte, NEW k \in 1 .. 4
      PROVE  step[x][k] \in Byte
  <2>1. step[x][k] = XorByte(x, Rolled(b, k))
    BY <1>1
  <2> QED
    BY <2>1, RolledIs, XorByteIs
<1>5. Affine[b] = Along(step, first, t)
  BY <1>1, <1>3 DEF Affine
<1> HIDE DEF step, t
<1>6. Along(step, first, t) \in Byte
  BY <1>2, <1>4, AlongStays
<1> QED
  BY <1>5, <1>6

(* Tables of words: 256 entries of four bytes. *)
Entries(n) == {t \in Seq(Bytes(4)) : Len(t) = n}

(* A function on 1..n with words for values, as a table. *)
LEMMA EntriesMade ==
  ASSUME NEW n \in Nat, NEW f, f = [i \in 1 .. n |-> f[i]], \A i \in 1 .. n : f[i] \in Bytes(4)
  PROVE  f \o <<>> = f /\ f \in Entries(n)
<1>1. f \o <<>> = f /\ f \in Seq(Bytes(4)) /\ Len(f) = n
  BY Tupled
<1> QED
  BY <1>1 DEF Entries

(* What a table of n words is. *)
LEMMA EntriesHave ==
  ASSUME NEW n \in Nat, NEW t \in Entries(n)
  PROVE  /\ t \in Seq(Seq(Nat)) /\ Len(t) = n /\ DOMAIN t = 1 .. n
         /\ \A i \in 1 .. n : t[i] \in Bytes(4)
<1>1. t \in Seq(Bytes(4)) /\ Len(t) = n
  BY DEF Entries
<1>2. \A w \in Bytes(4) : w \in Seq(Nat)
  <2> SUFFICES ASSUME NEW w \in Bytes(4)
               PROVE  w \in Seq(Nat)
    OBVIOUS
  <2>1. w \in Seq(Byte)
    BY DEF Bytes
  <2> QED
    BY <2>1, BytesIs
<1> QED
  BY <1>1, <1>2

(* The S-box holds bytes, ... *)
LEMMA SIs == S \in Bytes(256)
<1> DEFINE f == [i \in 1 .. 256 |-> Affine[Reciprocal(i - 1)]]
<1>1. S = f \o <<>>
  BY DEF S
<1>2. ASSUME NEW i \in 1 .. 256
      PROVE  f[i] \in Byte
  <2>1. PICK b \in Byte : b = i - 1
    BY DEF Byte
  <2>2. Affine[Reciprocal(b)] \in Byte
    BY ReciprocalIs, AffineIs
  <2> QED
    BY <2>1, <2>2
<1>3. f = [i \in 1 .. 256 |-> f[i]]
  OBVIOUS
<1> HIDE DEF f
<1>4. f \o <<>> = f /\ f \in Bytes(256)
  BY <1>2, <1>3, BytesMade, ZenonT(30)
<1> QED
  BY <1>1, <1>4

(* ... and so do the tables of a round. *)
LEMMA TurnedTable ==
  ASSUME NEW te \in Entries(256)
  PROVE  AllRight(te) \in Entries(256)
<1> DEFINE f == [i \in 1 .. 256 |-> Right(te[i])]
<1>1. AllRight(te) = f \o <<>>
  BY DEF AllRight
<1>2. ASSUME NEW i \in 1 .. 256
      PROVE  f[i] \in Bytes(4)
  <2>1. PICK w \in Bytes(4) : w = te[i]
    BY EntriesHave
  <2>2. Right(w) = Quad(w[4], w[1], w[2], w[3])
    BY DEF Right, Quad
  <2>3. Right(w) \in Bytes(4)
    BY <2>2, QuadHas, QuadIs
  <2> QED
    BY <2>1, <2>3
<1>3. f = [i \in 1 .. 256 |-> f[i]]
  OBVIOUS
<1> HIDE DEF f
<1>4. f \o <<>> = f /\ f \in Entries(256)
  BY <1>2, <1>3, EntriesMade, ZenonT(30)
<1> QED
  BY <1>1, <1>4

(* The four tables of a round hold words. *)
LEMMA TablesAre == Te0 \in Entries(256) /\ Te1 \in Entries(256) /\ Te2 \in Entries(256) /\ Te3 \in Entries(256)
<1> DEFINE f == [i \in 1 .. 256 |-> Column(S[i])]
<1>1. Te0 = f \o <<>>
  BY DEF Te0
<1>2. ASSUME NEW i \in 1 .. 256
      PROVE  f[i] \in Bytes(4)
  <2>1. PICK b \in Byte : b = S[i]
    BY SIs, BytesHave
  <2>2. Column(b) = Quad(Twice(b), b, b, Thrice(b))
    BY DEF Column, Quad
  <2>3. Column(b) \in Bytes(4)
    BY <2>2, TwiceIs, QuadIs
  <2> QED
    BY <2>1, <2>3
<1>3. f = [i \in 1 .. 256 |-> f[i]]
  OBVIOUS
<1> HIDE DEF f
<1>4. f \o <<>> = f /\ f \in Entries(256)
  BY <1>2, <1>3, EntriesMade, ZenonT(30)
<1>5. Te0 \in Entries(256)
  BY <1>1, <1>4
<1>6. Te1 \in Entries(256)
  BY <1>5, TurnedTable DEF Te1
<1>7. Te2 \in Entries(256)
  BY <1>6, TurnedTable DEF Te2
<1>8. Te3 \in Entries(256)
  BY <1>7, TurnedTable DEF Te3
<1> QED
  BY <1>5, <1>6, <1>7, <1>8

(* A look-up. *)
LEMMA LookUp ==
  ASSUME NEW t \in Entries(256), NEW b \in Byte
  PROVE  t[b + 1] \in Bytes(4)
<1>1. b + 1 \in 1 .. 256
  BY DEF Byte
<1>2. 256 \in Nat
  OBVIOUS
<1>3. \A i \in 1 .. 256 : t[i] \in Bytes(4)
  BY <1>2, EntriesHave
<1> QED
  BY <1>1, <1>3

(* The word the last round and the key schedule look up. *)
LEMMA SubWordIs ==
  ASSUME NEW a \in Byte, NEW b \in Byte, NEW c \in Byte, NEW e \in Byte
  PROVE  SubWord(a, b, c, e) \in Bytes(4)
<1>1. Te2[a + 1] \in Bytes(4) /\ Te3[b + 1] \in Bytes(4) /\ Te0[c + 1] \in Bytes(4) /\ Te1[e + 1] \in Bytes(4)
  BY TablesAre, LookUp
<1>2. Te2[a + 1][1] \in Byte /\ Te3[b + 1][2] \in Byte /\ Te0[c + 1][3] \in Byte /\ Te1[e + 1][4] \in Byte
  BY <1>1, QuadHas
<1>3. SubWord(a, b, c, e) = Quad(Te2[a + 1][1], Te3[b + 1][2], Te0[c + 1][3], Te1[e + 1][4])
  BY DEF SubWord, Quad
<1> QED
  BY <1>2, <1>3, QuadIs

(* The marks of the key schedule. *)
LEMMA MarksAre == Marks \in Bytes(10)
<1> DEFINE step == [t \in Seq(Nat) |-> [k \in Nat |-> Append(t, Twice(t[k]))]]
           s == [k \in 1 .. 9 |-> k]
           J == [k \in 0 .. 9 |-> Bytes(k + 1)]
<1>1. s \in Seq(Nat) /\ Len(s) = 9 /\ \A k \in 1 .. 9 : s[k] = k
  OBVIOUS
<1>2. \A k \in 0 .. 9 : J[k] = Bytes(k + 1)
  OBVIOUS
<1>3. <<1>> \in J[0]
  <2>1. <<1>> \in Seq(Byte) /\ Len(<<1>>) = 1
    BY DEF Byte
  <2> QED
    BY <1>2, <2>1 DEF Bytes
<1>4. ASSUME NEW k \in 1 .. 9, NEW x \in J[k - 1]
      PROVE  step[x][s[k]] \in J[k]
  <2>1. J[k - 1] = Bytes(k) /\ J[k] = Bytes(k + 1)
    <3>1. k - 1 \in 0 .. 9 /\ k \in 0 .. 9 /\ (k - 1) + 1 = k
      OBVIOUS
    <3> HIDE DEF J
    <3> QED
      BY <1>2, <3>1
  <2> HIDE DEF J
  <2>2. x \in Seq(Byte) /\ Len(x) = k
    BY <1>4, <2>1 DEF Bytes
  <2>3. x \in Seq(Nat) /\ x[k] \in Byte
    BY <2>2, BytesIs
  <2>4. step[x][s[k]] = Append(x, Twice(x[k]))
    BY <1>1, <2>3
  <2>5. Append(x, Twice(x[k])) \in Seq(Byte) /\ Len(Append(x, Twice(x[k]))) = k + 1
    BY <2>2, <2>3, TwiceIs
  <2> QED
    BY <2>1, <2>4, <2>5 DEF Bytes
<1>5. Marks = Along(step, <<1>>, s)
  BY DEF Marks
<1> HIDE DEF step, s, J
<1>6. Along(step, <<1>>, s) \in J[Len(s)]
  <2>1. \A k \in 1 .. Len(s) : \A x \in J[k - 1] : step[x][s[k]] \in J[k]
    BY <1>1, <1>4
  <2> QED
    BY <1>1, <1>3, <2>1, AlongInvariant
<1> QED
  BY <1>1, <1>2, <1>5, <1>6

(* rcon holds words. *)
LEMMA RconIs == \A i \in 1 .. 10 : rcon[i] \in Bytes(4)
<1> DEFINE f == [i \in 1 .. 10 |-> <<Marks[i], 0, 0, 0>>]
<1>1. rcon = f \o <<>>
  BY DEF rcon
<1>2. ASSUME NEW i \in 1 .. 10
      PROVE  f[i] \in Bytes(4)
  <2>1. Marks[i] \in Byte /\ 0 \in Byte
    BY MarksAre, BytesHave, SmallBytes
  <2>2. f[i] = Quad(Marks[i], 0, 0, 0)
    BY DEF Quad
  <2>3. Quad(Marks[i], 0, 0, 0) \in Bytes(4)
    BY <2>1, QuadIs
  <2> QED
    BY <2>2, <2>3
<1>3. f = [i \in 1 .. 10 |-> f[i]]
  OBVIOUS
<1> HIDE DEF f
<1>4. f \o <<>> = f
  BY <1>2, <1>3, EntriesMade
<1> QED
  BY <1>1, <1>2, <1>4

-----------------------------------------------------------------------------
(* The key schedule. *)

(* Four bytes of a string, from at. *)
LEMMA GetIs ==
  ASSUME NEW b \in Seq(Byte), NEW i \in Nat, i >= 1, i + 3 <= Len(b)
  PROVE  GETU32(b, i) \in Bytes(4)
<1>1. b[i] \in Byte /\ b[i + 1] \in Byte /\ b[i + 2] \in Byte /\ b[i + 3] \in Byte
  OBVIOUS
<1>2. GETU32(b, i) = Quad(b[i], b[i + 1], b[i + 2], b[i + 3])
  BY DEF GETU32, Quad
<1> QED
  BY <1>1, <1>2, QuadIs

(* The next word from the words so far. *)
LEMMA NextWordIs ==
  ASSUME NEW n \in {4, 6, 8}, NEW k \in n .. 4 * (n + 7) - 1, NEW rk \in Entries(k)
  PROVE  NextWord(rk, k, n) \in Bytes(4)
<1>1. n \in Nat /\ k \in Nat /\ k >= 1 /\ k - n + 1 \in 1 .. k
  OBVIOUS
<1>2. PICK temp \in Bytes(4) : temp = rk[k]
  BY <1>1, EntriesHave
<1>3. temp[1] \in Byte /\ temp[2] \in Byte /\ temp[3] \in Byte /\ temp[4] \in Byte
  BY <1>2, QuadHas
<1>4. Turned(temp) \in Bytes(4) /\ Straight(temp) \in Bytes(4)
  BY <1>3, SubWordIs DEF Turned, Straight
<1>5. k \div n \in 1 .. 10
  <2>1. CASE n = 4
    BY <2>1
  <2>2. CASE n = 6
    BY <2>2
  <2>3. CASE n = 8
    BY <2>3
  <2> QED
    BY <2>1, <2>2, <2>3
<1>6. XorBytes[Turned(temp)][rcon[k \div n]] \in Bytes(4)
  BY <1>4, <1>5, RconIs, XorSame
<1>7. PICK mixed \in Bytes(4) : mixed = (CASE k % n = 0 -> XorBytes[Turned(temp)][rcon[k \div n]]
                                          [] n = 8 /\ k % n = 4 -> Straight(temp)
                                          [] OTHER -> temp)
  <2>1. CASE k % n = 0
    <3>1. k % n # 4
      BY <2>1
    <3> QED
      BY <1>6, <2>1, <3>1
  <2>2. CASE k % n # 0 /\ n = 8 /\ k % n = 4
    BY <1>4, <2>2
  <2>3. CASE k % n # 0 /\ ~(n = 8 /\ k % n = 4)
    BY <1>2, <2>3
  <2> QED
    BY <2>1, <2>2, <2>3
<1>8. rk[k - n + 1] \in Bytes(4)
  BY <1>1, EntriesHave
<1>9. NextWord(rk, k, n) = XorBytes[rk[k - n + 1]][mixed]
  BY <1>2, <1>7 DEF NextWord
<1> QED
  BY <1>8, <1>9, XorSame

(* The key schedule of a key of n words. *)
Expanded(userKey, n) ==
  Along([rk \in Seq(Seq(Nat)) |-> [k \in Nat |-> Append(rk, NextWord(rk, k, n))]],
        [i \in 1 .. n |-> GETU32(userKey, 4 * i - 3)] \o <<>>,
        [i \in 1 .. 4 * (n + 7) - n |-> n + i - 1])

(* A key of n words is expanded to 4 * (n + 7). *)
LEMMA KeyWords ==
  ASSUME NEW n \in {4, 6, 8}, NEW userKey \in Seq(Byte), 4 * n <= Len(userKey)
  PROVE  Expanded(userKey, n) \in Entries(4 * (n + 7))
<1> DEFINE step == [rk \in Seq(Seq(Nat)) |-> [k \in Nat |-> Append(rk, NextWord(rk, k, n))]]
           f == [i \in 1 .. n |-> GETU32(userKey, 4 * i - 3)]
           m == 4 * (n + 7) - n
           s == [i \in 1 .. m |-> n + i - 1]
           J == [k \in 0 .. m |-> Entries(n + k)]
<1>1. n \in Nat /\ m \in Nat /\ n + m = 4 * (n + 7)
  OBVIOUS
<1>2. s \in Seq(Nat) /\ Len(s) = m /\ \A k \in 1 .. m : s[k] = n + k - 1
  OBVIOUS
<1>3. \A k \in 0 .. m : J[k] = Entries(n + k)
  OBVIOUS
<1>4. f \o <<>> = f /\ f \in Entries(n)
  <2>1. ASSUME NEW i \in 1 .. n
        PROVE  f[i] \in Bytes(4)
    <3>1. PICK j \in Nat : j = 4 * i - 3 /\ j >= 1 /\ j + 3 <= Len(userKey)
      OBVIOUS
    <3>2. GETU32(userKey, j) \in Bytes(4)
      BY <3>1, GetIs
    <3> QED
      BY <3>1, <3>2
  <2>2. f = [i \in 1 .. n |-> f[i]]
    OBVIOUS
  <2> HIDE DEF f
  <2> QED
    BY <1>1, <2>1, <2>2, EntriesMade
<1>5. ASSUME NEW k \in 1 .. m, NEW x \in J[k - 1]
      PROVE  step[x][s[k]] \in J[k]
  <2>1. PICK j \in Nat : j = n + k - 1
    BY <1>1
  <2>2. J[k - 1] = Entries(j) /\ J[k] = Entries(j + 1)
    <3>1. k - 1 \in 0 .. m /\ k \in 0 .. m /\ n + (k - 1) = j /\ n + k = j + 1
      BY <1>1, <2>1
    <3> HIDE DEF J, m
    <3> QED
      BY <1>3, <3>1
  <2>3. j \in n .. 4 * (n + 7) - 1
    BY <1>1, <2>1
  <2> HIDE DEF J
  <2>4. x \in Seq(Seq(Nat)) /\ x \in Seq(Bytes(4)) /\ Len(x) = j /\ x \in Entries(j)
    BY <1>5, <2>1, <2>2, EntriesHave DEF Entries
  <2>5. NextWord(x, j, n) \in Bytes(4)
    BY <2>3, <2>4, NextWordIs
  <2>6. step[x][s[k]] = Append(x, NextWord(x, j, n))
    BY <1>2, <2>1, <2>4
  <2>7. PICK w \in Bytes(4) : w = NextWord(x, j, n)
    BY <2>5
  <2>8. Append(x, w) \in Seq(Bytes(4)) /\ Len(Append(x, w)) = j + 1
    BY <2>4
  <2> HIDE DEF step
  <2> QED
    BY <2>2, <2>6, <2>7, <2>8 DEF Entries
<1>6. f \in J[0]
  <2>1. 0 \in 0 .. m /\ n + 0 = n
    BY <1>1
  <2> HIDE DEF J, f
  <2> QED
    BY <1>3, <1>4, <2>1
<1> HIDE DEF step, s, J, f, m
<1>7. Along(step, f, s) \in J[Len(s)]
  <2>1. \A k \in 1 .. Len(s) : \A x \in J[k - 1] : step[x][s[k]] \in J[k]
    BY <1>2, <1>5
  <2> QED
    BY <1>2, <1>6, <2>1, AlongInvariant
<1>8. m \in 0 .. m
  BY <1>1
<1>9. Along(step, f \o <<>>, s) \in Entries(4 * (n + 7))
  BY <1>1, <1>2, <1>3, <1>4, <1>7, <1>8
<1> QED
  BY <1>9 DEF Expanded, step, f, s, m

(* Keys as AES_set_encrypt_key leaves them. *)
AesKeys == {key \in KeySchedules : key.rd_key \in Entries(4 * (key.rounds + 1))}

(* AES_set_encrypt_key fills rd_key for its number of rounds. *)
LEMMA KeyIs ==
  ASSUME NEW userKey \in Seq(Byte), NEW bits \in {128, 192, 256}, bits <= 8 * Len(userKey)
  PROVE  AES_set_encrypt_key[userKey][bits] \in AesKeys
<1>1. PICK n \in {4, 6, 8} : n = bits \div 32 /\ Rounds(bits) = n + 6 /\ 4 * n <= Len(userKey)
  <2>1. Len(userKey) \in Nat
    OBVIOUS
  <2>2. CASE bits = 128
    BY <2>1, <2>2 DEF Rounds
  <2>3. CASE bits = 192
    BY <2>1, <2>3 DEF Rounds
  <2>4. CASE bits = 256
    BY <2>1, <2>4 DEF Rounds
  <2> QED
    BY <2>2, <2>3, <2>4
<1> DEFINE rk == Expanded(userKey, n)
<1>2. rk \in Entries(4 * (n + 7))
  BY <1>1, KeyWords
<1>3. userKey \in Seq(Nat) /\ (n + 6) + 1 = n + 7
  BY BytesIs
<1>4. AES_set_encrypt_key[userKey][bits] = [rounds |-> n + 6, rd_key |-> rk]
  BY <1>1, <1>3 DEF AES_set_encrypt_key, Expanded
<1> HIDE DEF rk
<1>5. n + 6 \in {10, 12, 14} /\ 4 * (n + 7) \in Nat
  OBVIOUS
<1>6. rk \in Seq(Seq(Nat))
  BY <1>2, <1>5, EntriesHave
<1>7. PICK key : key = [rounds |-> n + 6, rd_key |-> rk]
  OBVIOUS
<1>8. key \in KeySchedules
  BY <1>5, <1>6, <1>7 DEF KeySchedules
<1>9. key.rd_key \in Entries(4 * (key.rounds + 1))
  BY <1>2, <1>3, <1>7
<1> QED
  BY <1>4, <1>7, <1>8, <1>9 DEF AesKeys

-----------------------------------------------------------------------------
(* A round on four words. *)
LEMMA CycIs ==
  ASSUME NEW k \in 1 .. 8
  PROVE  Cyc(k) \in 1 .. 4
  BY DEF Cyc

(* A column of a round, and of the last one. *)
LEMMA TxIs ==
  ASSUME NEW s \in Entries(4), NEW k \in 1 .. 4, NEW m \in Nat, NEW rk \in Entries(m), NEW r \in Nat, 4 * r + k <= m
  PROVE  /\ GEN_TX(s, k, rk, r) \in Bytes(4)
         /\ XorBytes[SubWord(s[k][1], s[Cyc(k + 1)][2], s[Cyc(k + 2)][3], s[Cyc(k + 3)][4])][rk[4 * r + k]] \in Bytes(4)
<1>1. Cyc(k + 1) \in 1 .. 4 /\ Cyc(k + 2) \in 1 .. 4 /\ Cyc(k + 3) \in 1 .. 4
  <2>1. k + 1 \in 1 .. 8 /\ k + 2 \in 1 .. 8 /\ k + 3 \in 1 .. 8
    OBVIOUS
  <2> QED
    BY <2>1, CycIs
<1>2. \A i \in 1 .. 4 : s[i] \in Bytes(4)
  <2>1. 4 \in Nat
    OBVIOUS
  <2> QED
    BY <2>1, EntriesHave
<1>3. PICK a \in Byte, b \in Byte, c \in Byte, e \in Byte :
        a = s[k][1] /\ b = s[Cyc(k + 1)][2] /\ c = s[Cyc(k + 2)][3] /\ e = s[Cyc(k + 3)][4]
  BY <1>1, <1>2, QuadHas
<1>4. PICK w \in Bytes(4) : w = rk[4 * r + k]
  <2>1. 4 * r + k \in 1 .. m
    OBVIOUS
  <2> QED
    BY <2>1, EntriesHave
<1>5. PICK u \in Bytes(4), v \in Bytes(4) : u = XorBytes[Te0[a + 1]][Te1[b + 1]] /\ v = XorBytes[Te2[c + 1]][Te3[e + 1]]
  <2>1. Te0[a + 1] \in Bytes(4) /\ Te1[b + 1] \in Bytes(4) /\ Te2[c + 1] \in Bytes(4) /\ Te3[e + 1] \in Bytes(4)
    BY TablesAre, LookUp
  <2> QED
    BY <2>1, XorSame
<1>6. GEN_TX(s, k, rk, r) = XorBytes[XorBytes[u][v]][w]
  BY <1>3, <1>4, <1>5 DEF GEN_TX
<1>7. XorBytes[XorBytes[u][v]][w] \in Bytes(4)
  BY XorSame
<1>8. XorBytes[SubWord(a, b, c, e)][w] \in Bytes(4)
  BY SubWordIs, XorSame
<1> QED
  BY <1>3, <1>4, <1>6, <1>7, <1>8

(* A round keeps the four words words. *)
LEMMA AesRoundIs ==
  ASSUME NEW s \in Entries(4), NEW m \in Nat, NEW rk \in Entries(m), NEW r \in Nat, 4 * r + 4 <= m
  PROVE  Round(s, rk, r) \in Entries(4) /\ LastRound(s, rk, r) \in Entries(4)
<1> DEFINE f == [k \in 1 .. 4 |-> GEN_TX(s, k, rk, r)]
           g == [k \in 1 .. 4 |->
                   XorBytes[SubWord(s[k][1], s[Cyc(k + 1)][2], s[Cyc(k + 2)][3], s[Cyc(k + 3)][4])][rk[4 * r + k]]]
<1>1. \A k \in 1 .. 4 : 4 * r + k <= m
  OBVIOUS
<1>2. \A k \in 1 .. 4 : f[k] \in Bytes(4) /\ g[k] \in Bytes(4)
  BY <1>1, TxIs
<1>3. f = [k \in 1 .. 4 |-> f[k]] /\ g = [k \in 1 .. 4 |-> g[k]]
  OBVIOUS
<1>4. Round(s, rk, r) = f \o <<>> /\ LastRound(s, rk, r) = g \o <<>>
  BY DEF Round, LastRound
<1> HIDE DEF f, g
<1>5. f \o <<>> = f /\ f \in Entries(4)
  BY <1>2, <1>3, EntriesMade
<1>6. g \o <<>> = g /\ g \in Entries(4)
  BY <1>2, <1>3, EntriesMade
<1> QED
  BY <1>4, <1>5, <1>6

(* The words before the first round. *)
LEMMA StartedIs ==
  ASSUME NEW in \in Bytes(16), NEW m \in Nat, m >= 4, NEW rk \in Entries(m)
  PROVE  Started(in, rk) \in Entries(4)
<1> DEFINE f == [k \in 1 .. 4 |-> XorBytes[GETU32(in, 4 * k - 3)][rk[k]]]
<1>1. Started(in, rk) = f \o <<>>
  BY DEF Started
<1>2. in \in Seq(Byte) /\ Len(in) = 16
  BY DEF Bytes
<1>3. ASSUME NEW k \in 1 .. 4
      PROVE  f[k] \in Bytes(4)
  <2>1. PICK j \in Nat : j = 4 * k - 3 /\ j >= 1 /\ j + 3 <= Len(in)
    BY <1>2
  <2>2. GETU32(in, j) \in Bytes(4)
    BY <1>2, <2>1, GetIs
  <2>3. rk[k] \in Bytes(4)
    <3>1. k \in 1 .. m
      OBVIOUS
    <3> QED
      BY <3>1, EntriesHave
  <2>4. XorBytes[GETU32(in, j)][rk[k]] \in Bytes(4)
    BY <2>2, <2>3, XorSame
  <2> QED
    BY <2>1, <2>4
<1>4. f = [k \in 1 .. 4 |-> f[k]]
  OBVIOUS
<1> HIDE DEF f
<1>5. f \o <<>> = f /\ f \in Entries(4)
  BY <1>3, <1>4, EntriesMade
<1> QED
  BY <1>1, <1>5

(* Strings joined. *)
LEMMA BytesJoin ==
  ASSUME NEW m \in Nat, NEW n \in Nat, NEW x \in Bytes(m), NEW y \in Bytes(n)
  PROVE  x \o y \in Bytes(m + n)
<1>1. x \in Seq(Byte) /\ Len(x) = m /\ y \in Seq(Byte) /\ Len(y) = n
  BY DEF Bytes
<1>2. x \o y \in Seq(Byte) /\ Len(x \o y) = Len(x) + Len(y)
  BY <1>1, TwoParts
<1> QED
  BY <1>1, <1>2 DEF Bytes

(* The bytes of four words. *)
LEMMA PutIs ==
  ASSUME NEW s \in Entries(4)
  PROVE  PUTU32(s) \in Bytes(16)
<1>1. s[1] \in Bytes(4) /\ s[2] \in Bytes(4) /\ s[3] \in Bytes(4) /\ s[4] \in Bytes(4)
  BY EntriesHave
<1>2. PICK x \in Bytes(4 + 4) : x = s[1] \o s[2]
  BY <1>1, BytesJoin
<1>3. PICK y \in Bytes(8 + 4) : y = x \o s[3]
  <2>1. x \in Bytes(8)
    BY <1>2
  <2> QED
    BY <1>1, <2>1, BytesJoin
<1>4. y \o s[4] \in Bytes(12 + 4)
  <2>1. y \in Bytes(12)
    BY <1>3
  <2> QED
    BY <1>1, <2>1, BytesJoin
<1>5. PUTU32(s) = y \o s[4]
  BY <1>2, <1>3 DEF PUTU32
<1> QED
  BY <1>4, <1>5

(* A block of AES is a block. *)
LEMMA AesIs ==
  ASSUME NEW in \in Bytes(16), NEW key \in AesKeys
  PROVE  AES_encrypt[in][key] \in Bytes(16)
<1>1. key \in KeySchedules /\ key.rounds \in {10, 12, 14}
  BY DEF AesKeys, KeySchedules
<1>2. PICK R, rk : R \in Nat /\ R = key.rounds /\ R >= 10 /\ rk = key.rd_key
  BY <1>1
<1>3. PICK m \in Nat : m = 4 * (R + 1) /\ rk \in Entries(m)
  BY <1>2 DEF AesKeys
<1> DEFINE step == [t \in Seq(Seq(Nat)) |-> [r \in Nat |-> Round(t, rk, r)]]
           f == [r \in 1 .. R - 1 |-> r]
<1>4. f \in Seq(1 .. R - 1)
  BY <1>2
<1>5. ASSUME NEW x \in Entries(4), NEW k \in 1 .. R - 1
      PROVE  step[x][k] \in Entries(4)
  <2>1. x \in Seq(Seq(Nat))
    BY EntriesHave
  <2>2. step[x][k] = Round(x, rk, k)
    BY <2>1
  <2>3. k \in Nat /\ 4 * k + 4 <= m
    BY <1>2, <1>3
  <2> HIDE DEF step
  <2> QED
    BY <1>3, <2>2, <2>3, AesRoundIs
<1>6. PICK first \in Entries(4) : first = Started(in, rk)
  <2>1. m >= 4
    BY <1>2, <1>3
  <2> QED
    BY <1>3, <2>1, StartedIs
<1> HIDE DEF f, step
<1>7. PICK s \in Entries(4) : s = Along(step, first, f)
  <2>1. PICK T : T = 1 .. R - 1
    OBVIOUS
  <2>2. f \in Seq(T) /\ \A x \in Entries(4) : \A k \in T : step[x][k] \in Entries(4)
    BY <1>4, <1>5, <2>1
  <2>3. Along(step, first, f) \in Entries(4)
    BY <2>2, AlongStays
  <2> QED
    BY <2>3
<1>8. in \in Seq(Nat)
  BY BytesHave
<1>9. AES_encrypt[in][key] = PUTU32(LastRound(s, rk, R))
  BY <1>1, <1>2, <1>6, <1>7, <1>8 DEF AES_encrypt, step, f
<1>10. LastRound(s, rk, R) \in Entries(4)
  <2>1. 4 * R + 4 <= m
    BY <1>2, <1>3
  <2> QED
    BY <1>2, <1>3, <2>1, AesRoundIs
<1> QED
  BY <1>9, <1>10, PutIs

-----------------------------------------------------------------------------
(* ChaCha: sixteen words of two limbs. *)
Sixteen == {x \in Seq(Word(2)) : Len(x) = 16}

(* What sixteen words are. *)
LEMMA SixteenIs ==
  ASSUME NEW x \in Sixteen
  PROVE  x \in Seq(Seq(Nat)) /\ DOMAIN x = 1 .. 16 /\ \A i \in 1 .. 16 : x[i] \in Word(2)
<1>1. x \in Seq(Word(2)) /\ Len(x) = 16
  BY DEF Sixteen
<1>2. x \in Seq(Seq(Nat)) /\ \A i \in 1 .. Len(x) : x[i] \in Word(2)
  <2>1. 2 \in Nat
    OBVIOUS
  <2> QED
    BY <1>1, <2>1, WordsAre
<1> QED
  BY <1>1, <1>2

(* A function on 1..16 with words for values, as a tuple. *)
LEMMA SixteenMade ==
  ASSUME NEW f, f = [i \in 1 .. 16 |-> f[i]], \A i \in 1 .. 16 : f[i] \in Word(2)
  PROVE  f \o <<>> = f /\ f \in Sixteen
<1>1. 16 \in Nat
  OBVIOUS
<1>2. f \o <<>> = f /\ f \in Seq(Word(2)) /\ Len(f) = 16
  BY <1>1, Tupled
<1> QED
  BY <1>2 DEF Sixteen

(* x with other words at two places. *)
LEMMA SixteenWith ==
  ASSUME NEW x \in Sixteen, NEW i \in 1 .. 16, NEW v \in Word(2)
  PROVE  [x EXCEPT ![i] = v] \in Sixteen
<1> DEFINE f == [x EXCEPT ![i] = v]
<1>1. DOMAIN x = 1 .. 16 /\ \A j \in 1 .. 16 : x[j] \in Word(2)
  BY SixteenIs
<1>2. f = [j \in 1 .. 16 |-> IF j = i THEN v ELSE x[j]]
  BY <1>1
<1>3. f = [j \in 1 .. 16 |-> f[j]] /\ \A j \in 1 .. 16 : f[j] \in Word(2)
  BY <1>1, <1>2
<1> HIDE DEF f
<1>4. f \in Sixteen
  BY <1>3, SixteenMade
<1> QED
  BY <1>4 DEF f

(* Places and a rotation. *)
Turns == {t \in Seq(Nat) : Len(t) = 4 /\ t[1] \in 0 .. 15 /\ t[2] \in 0 .. 15 /\ t[3] \in 0 .. 15 /\ t[1] # t[3] /\ t[4] \in 1 .. 31}
Places == {q \in Seq(Nat) : Len(q) = 4 /\ (\A i \in 1 .. 4 : q[i] \in 0 .. 15) /\ q[1] # q[4] /\ q[2] # q[3]}

(* Half of a quarter round's line keeps the words words. *)
LEMMA HalfTurnIs ==
  ASSUME NEW x \in Sixteen, NEW t \in Turns
  PROVE  HalfTurn[x][t] \in Sixteen
<1>1. x \in Seq(Seq(Nat)) /\ DOMAIN x = 1 .. 16 /\ \A i \in 1 .. 16 : x[i] \in Word(2)
  BY SixteenIs
<1>2. t \in Seq(Nat)
  BY DEF Turns
<1>b. t[1] \in 0 .. 15 /\ t[2] \in 0 .. 15 /\ t[3] \in 0 .. 15 /\ t[1] # t[3] /\ t[4] \in 1 .. 31
  BY DEF Turns
<1>3. PICK a, b, d, n : a = t[1] + 1 /\ b = t[2] + 1 /\ d = t[3] + 1 /\ n = 32 - t[4]
  OBVIOUS
<1>a. a \in 1 .. 16 /\ b \in 1 .. 16 /\ d \in 1 .. 16 /\ n \in Nat /\ a # d
  <2>1. ASSUME NEW u \in 0 .. 15
        PROVE  u + 1 \in 1 .. 16
    OBVIOUS
  <2>2. ASSUME NEW u \in 0 .. 15, NEW v \in 0 .. 15, u # v
        PROVE  u + 1 # v + 1
    BY <2>2
  <2>3. ASSUME NEW u \in 1 .. 31
        PROVE  32 - u \in Nat
    OBVIOUS
  <2> QED
    BY <1>b, <1>3, <2>1, <2>2, <2>3
<1>4. x[a] \in Word(2) /\ x[b] \in Word(2) /\ x[d] \in Word(2)
  BY <1>1, <1>a
<1>5. PICK sum \in Word(2) : sum = Plus[x[a]][x[b]]
  <2>1. 2 \in Nat
    OBVIOUS
  <2> QED
    BY <1>4, <2>1, PlusIs
<1>6. PICK v \in Word(2) : v = RotR[Xor[x[d]][sum]][n]
  <2>1. 2 \in Nat /\ 2 > 0
    OBVIOUS
  <2>2. PICK w \in Word(2) : w = Xor[x[d]][sum]
    BY <1>4, <2>1, Bitwise3
  <2> QED
    BY <1>a, <2>1, <2>2, RotRIs
<1>7. HalfTurn[x][t] = [x EXCEPT ![a] = sum, ![d] = RotR[Xor[@][sum]][n]]
  <2>1. HalfTurn[x][t] =
          LET s == Plus[x[t[1] + 1]][x[t[2] + 1]] IN [x EXCEPT ![t[1] + 1] = s, ![t[3] + 1] = ROTL32(Xor[@][s], t[4])]
    BY <1>1, <1>2 DEF HalfTurn
  <2> QED
    BY <1>3, <1>5, <2>1 DEF ROTL32
<1>8. PICK f : f = HalfTurn[x][t]
  OBVIOUS
<1>9. f = [i \in 1 .. 16 |-> f[i]] /\ \A i \in 1 .. 16 : f[i] = IF i = d THEN v ELSE IF i = a THEN sum ELSE x[i]
  BY <1>1, <1>6, <1>7, <1>8, <1>a
<1>10. \A i \in 1 .. 16 : f[i] \in Word(2)
  BY <1>1, <1>9
<1>11. f \in Sixteen
  BY <1>9, <1>10, SixteenMade
<1> QED
  BY <1>8, <1>11

(* A quarter round is four of them. *)
LEMMA QuarterIs ==
  ASSUME NEW x \in Sixteen, NEW q \in Places
  PROVE  QUARTERROUND[x][q] \in Sixteen
<1> DEFINE t == << <<q[1], q[2], q[4], 16>>, <<q[3], q[4], q[2], 12>>, <<q[1], q[2], q[4], 8>>, <<q[3], q[4], q[2], 7>> >>
<1>1. q \in Seq(Nat) /\ q[1] \in 0 .. 15 /\ q[2] \in 0 .. 15 /\ q[3] \in 0 .. 15 /\ q[4] \in 0 .. 15 /\ q[1] # q[4] /\ q[3] # q[2]
  BY DEF Places
<1>2. ASSUME NEW a \in 0 .. 15, NEW b \in 0 .. 15, NEW d \in 0 .. 15, NEW n \in 1 .. 31, a # d
      PROVE  Quad(a, b, d, n) \in Turns
  <2> DEFINE u == <<a, b, d, n>>
  <2>1. u \in Seq(Nat) /\ Len(u) = 4 /\ u[1] = a /\ u[2] = b /\ u[3] = d /\ u[4] = n
    OBVIOUS
  <2> HIDE DEF u
  <2>2. u \in Turns
    BY <1>2, <2>1 DEF Turns
  <2> QED
    BY <2>2 DEF u, Quad
<1>3. t \in Seq(Turns)
  <2>1. Quad(q[1], q[2], q[4], 16) \in Turns /\ Quad(q[3], q[4], q[2], 12) \in Turns
        /\ Quad(q[1], q[2], q[4], 8) \in Turns /\ Quad(q[3], q[4], q[2], 7) \in Turns
    <3>1. PICK a, b, c, d : a = q[1] /\ b = q[2] /\ c = q[3] /\ d = q[4]
      OBVIOUS
    <3>2. a \in 0 .. 15 /\ b \in 0 .. 15 /\ c \in 0 .. 15 /\ d \in 0 .. 15 /\ a # d /\ c # b
      BY <1>1, <3>1
    <3>3. 16 \in 1 .. 31 /\ 12 \in 1 .. 31 /\ 8 \in 1 .. 31 /\ 7 \in 1 .. 31
      OBVIOUS
    <3>4. Quad(a, b, d, 16) \in Turns /\ Quad(a, b, d, 8) \in Turns
      BY <1>2, <3>2, <3>3
    <3>5. Quad(c, d, b, 12) \in Turns /\ Quad(c, d, b, 7) \in Turns
      BY <1>2, <3>2, <3>3
    <3> QED
      BY <3>1, <3>4, <3>5
  <2> QED
    BY <2>1 DEF Quad
<1>4. QUARTERROUND[x][q] = Along(HalfTurn, x, t)
  <2>1. x \in Seq(Seq(Nat))
    BY SixteenIs
  <2> QED
    BY <1>1, <2>1 DEF QUARTERROUND
<1> HIDE DEF t
<1>5. Along(HalfTurn, x, t) \in Sixteen
  BY <1>3, HalfTurnIs, AlongStays
<1> QED
  BY <1>4, <1>5

(* The places of the eight quarter rounds. *)
LEMMA QuartersAre == Quarters \in Seq(Places)
<1>1. ASSUME NEW a \in Nat, NEW b \in Nat, NEW c \in Nat, NEW d \in Nat, a < 16, b < 16, c < 16, d < 16,
             a # d, b # c
      PROVE  Quad(a, b, c, d) \in Places
  <2> DEFINE u == <<a, b, c, d>>
  <2>1. u \in Seq(Nat) /\ Len(u) = 4 /\ u[1] = a /\ u[2] = b /\ u[3] = c /\ u[4] = d
    OBVIOUS
  <2> HIDE DEF u
  <2>2. \A i \in 1 .. 4 : u[i] \in 0 .. 15
    <3>1. \A i \in 1 .. 4 : i = 1 \/ i = 2 \/ i = 3 \/ i = 4
      OBVIOUS
    <3>2. u[1] \in 0 .. 15 /\ u[2] \in 0 .. 15 /\ u[3] \in 0 .. 15 /\ u[4] \in 0 .. 15
      BY <1>1, <2>1
    <3> QED
      BY <3>1, <3>2
  <2>3. u \in Places
    BY <1>1, <2>1, <2>2 DEF Places
  <2> QED
    BY <2>3 DEF u, Quad
<1>2. /\ Quad(0, 4, 8, 12) \in Places /\ Quad(1, 5, 9, 13) \in Places /\ Quad(2, 6, 10, 14) \in Places
      /\ Quad(3, 7, 11, 15) \in Places
  BY <1>1, SMT
<1>3. /\ Quad(0, 5, 10, 15) \in Places /\ Quad(1, 6, 11, 12) \in Places
      /\ Quad(2, 7, 8, 13) \in Places /\ Quad(3, 4, 9, 14) \in Places
  BY <1>1, SMT
<1> QED
  BY <1>2, <1>3 DEF Quarters, Quad

(* Eight quarter rounds in a row. *)
LEMMA DoubleIs ==
  ASSUME NEW x \in Sixteen, NEW i \in Nat
  PROVE  DoubleRound[x][i] \in Sixteen
<1>1. x \in Seq(Seq(Nat))
  BY SixteenIs
<1>2. DoubleRound[x][i] = Along(QUARTERROUND, x, Quarters)
  BY <1>1 DEF DoubleRound
<1> QED
  BY <1>2, QuarterIs, QuartersAre, AlongStays

(* Words from memory and to memory. *)
LEMMA TwoLimbs ==
  ASSUME NEW a \in Limb, NEW b \in Limb
  PROVE  <<a, b>> \in Word(2)
<1> DEFINE w == <<a, b>>
<1>1. w \in Seq(Limb) /\ Len(w) = 2
  OBVIOUS
<1> QED
  BY <1>1 DEF Word

(* 64 bytes are sixteen words ... *)
LEMMA WordsRead ==
  ASSUME NEW b \in Bytes(64)
  PROVE  WordsOf[b] \in Sixteen
<1>1. b \in Seq(Nat) /\ Len(b) = 64 /\ \A i \in 1 .. 64 : b[i] \in Byte
  <2>1. 64 \in Nat
    OBVIOUS
  <2> QED
    BY <2>1, BytesHave
<1> DEFINE f == [i \in 1 .. 16 |-> U8TO32_LITTLE(b, 4 * i - 3)]
<1>2. WordsOf[b] = f \o <<>>
  <2>1. Len(b) \div 4 = 16
    BY <1>1
  <2> QED
    BY <1>1, <2>1 DEF WordsOf
<1>3. ASSUME NEW i \in 1 .. 16
      PROVE  f[i] \in Word(2)
  <2>1. PICK n : n = 4 * i - 3
    OBVIOUS
  <2>2. n \in 1 .. 64 /\ n + 1 \in 1 .. 64 /\ n + 2 \in 1 .. 64 /\ n + 3 \in 1 .. 64
    BY <2>1
  <2>3. PICK c \in Byte, d \in Byte, e \in Byte, g \in Byte : c = b[n] /\ d = b[n + 1] /\ e = b[n + 2] /\ g = b[n + 3]
    BY <1>1, <2>2, ZenonT(30)
  <2>4. (256 * g) + e \in Limb /\ (256 * d) + c \in Limb
    BY ByteLimb
  <2>5. U8TO32_LITTLE(b, n) = <<(256 * g) + e, (256 * d) + c>>
    <3>1. g * 256 = 256 * g /\ d * 256 = 256 * d
      BY DEF Byte
    <3> QED
      BY <2>3, <3>1 DEF U8TO32_LITTLE
  <2> QED
    BY <2>1, <2>4, <2>5, TwoLimbs
<1>4. f = [i \in 1 .. 16 |-> f[i]]
  OBVIOUS
<1> HIDE DEF f
<1>5. f \o <<>> = f /\ f \in Sixteen
  BY <1>3, <1>4, SixteenMade
<1> QED
  BY <1>2, <1>5

(* ... and a word is written to four bytes. *)
LEMMA WordWritten ==
  ASSUME NEW v \in Word(2)
  PROVE  U32TO8_LITTLE(v) \in Bytes(4)
<1>1. PICK a \in Limb, b \in Limb : a = v[1] /\ b = v[2]
  <2>1. 2 \in Nat /\ 1 \in 1 .. 2 /\ 2 \in 1 .. 2
    OBVIOUS
  <2> QED
    BY <2>1, WordIs
<1>2. b % 256 \in Byte /\ b \div 256 \in Byte /\ a % 256 \in Byte /\ a \div 256 \in Byte
  BY LimbParts
<1>3. U32TO8_LITTLE(v) = Quad(b % 256, b \div 256, a % 256, a \div 256)
  BY <1>1 DEF U32TO8_LITTLE, Quad
<1> QED
  BY <1>2, <1>3, QuadIs

(* The sixteen sums as 64 bytes. *)
LEMMA SummedIs ==
  ASSUME NEW y \in Sixteen, NEW in \in Sixteen
  PROVE  Summed[y][in] \in Bytes(64)
<1> DEFINE step == [out_ \in Seq(Nat) |-> [i \in Nat |-> LET v == Plus[y[i]][in[i]] IN out_ \o U32TO8_LITTLE(v)]]
           s == [i \in 1 .. 16 |-> i]
           J == [k \in 0 .. 16 |-> Bytes(4 * k)]
<1>1. s \in Seq(Nat) /\ Len(s) = 16 /\ \A k \in 1 .. 16 : s[k] = k
  OBVIOUS
<1>2. \A k \in 0 .. 16 : J[k] = Bytes(4 * k)
  OBVIOUS
<1>3. ASSUME NEW k \in 1 .. 16, NEW x \in Bytes(4 * (k - 1))
      PROVE  step[x][k] \in Bytes(4 * k)
  <2>1. x \in Seq(Nat) /\ x \in Seq(Byte)
    BY BytesIs DEF Bytes
  <2>2. PICK v \in Word(2) : v = Plus[y[k]][in[k]]
    <3>1. y[k] \in Word(2) /\ in[k] \in Word(2) /\ 2 \in Nat
      BY SixteenIs
    <3> QED
      BY <3>1, PlusIs
  <2>3. PICK b \in Bytes(4) : b = U32TO8_LITTLE(v)
    BY WordWritten
  <2>4. step[x][k] = x \o b
    <3>1. k \in Nat
      OBVIOUS
    <3>2. step[x][k] = x \o U32TO8_LITTLE(Plus[y[k]][in[k]])
      BY <2>1, <3>1
    <3> HIDE DEF step
    <3> QED
      BY <2>2, <2>3, <3>2
  <2>5. PICK m \in Nat : m = 4 * (k - 1) /\ m + 4 = 4 * k
    OBVIOUS
  <2>6. x \o b \in Bytes(m + 4)
    <3>1. x \in Bytes(m) /\ 4 \in Nat
      BY <2>5
    <3> QED
      BY <3>1, BytesJoin
  <2> HIDE DEF step
  <2> QED
    BY <2>4, <2>5, <2>6
<1>4. Summed[y][in] = Along(step, <<>>, s)
  <2>1. y \in Seq(Seq(Nat)) /\ in \in Seq(Seq(Nat))
    BY SixteenIs
  <2> QED
    BY <2>1 DEF Summed
<1>5. <<>> \in Bytes(4 * 0)
  BY DEF Bytes
<1> HIDE DEF step, s, J
<1>6. <<>> \in J[0] /\ \A k \in 1 .. Len(s) : \A x \in J[k - 1] : step[x][s[k]] \in J[k]
  <2>1. 0 \in 0 .. 16 /\ \A k \in 1 .. 16 : k - 1 \in 0 .. 16 /\ k \in 0 .. 16
    OBVIOUS
  <2>2. J[0] = Bytes(4 * 0) /\ \A k \in 1 .. 16 : J[k - 1] = Bytes(4 * (k - 1)) /\ J[k] = Bytes(4 * k)
    BY <1>2, <2>1
  <2>3. <<>> \in J[0]
    BY <1>5, <2>2
  <2>4. ASSUME NEW k \in 1 .. 16, NEW x \in J[k - 1]
        PROVE  step[x][s[k]] \in J[k]
    <3>1. x \in Bytes(4 * (k - 1)) /\ J[k] = Bytes(4 * k)
      BY <2>2
    <3>2. s[k] = k
      BY <1>1
    <3>3. step[x][k] \in Bytes(4 * k)
      BY <1>3, <3>1
    <3> QED
      BY <3>1, <3>2, <3>3
  <2>5. Len(s) = 16
    BY <1>1
  <2> QED
    BY <2>3, <2>4, <2>5
<1>7. Along(step, <<>>, s) \in J[Len(s)]
  BY <1>1, <1>6, AlongInvariant
<1>8. J[Len(s)] = Bytes(64)
  <2>1. 16 \in 0 .. 16 /\ 4 * 16 = 64
    OBVIOUS
  <2> QED
    BY <1>1, <1>2, <2>1
<1> QED
  BY <1>4, <1>7, <1>8

(* The block function of ChaCha takes blocks to blocks. *)
LEMMA ChaChaIs ==
  ASSUME NEW b \in Bytes(64), NEW n \in Nat
  PROVE  chacha20_encrypt[b][n] \in Bytes(64)
<1>1. PICK x \in Sixteen : x = WordsOf[b]
  BY WordsRead
<1> DEFINE s == [i \in 1 .. (n + 1) \div 2 |-> i]
<1>2. s \in Seq(Nat)
  OBVIOUS
<1>3. PICK y \in Sixteen : y = Along(DoubleRound, x, s)
  <2> HIDE DEF s
  <2> QED
    BY <1>2, DoubleIs, AlongStays
<1>4. b \in Seq(Nat)
  BY BytesIs DEF Bytes
<1>5. chacha20_encrypt[b][n] = Summed[y][x]
  BY <1>1, <1>3, <1>4 DEF chacha20_encrypt
<1> QED
  BY <1>5, SummedIs

-----------------------------------------------------------------------------
(* CBC over a stream. *)
CbcModes == {"aes", "chacha", "sample"}
BlockSizes == {16, 64}

(* How many blocks of w bytes n bytes fill, the last one perhaps in part. *)
Blocks(w, n) == (n + w - 1) \div w

(* The ciphers' blocks have 16 or 64 bytes. *)
LEMMA CipherBlockIs ==
  ASSUME NEW m
  PROVE  CipherBlock(m) \in BlockSizes /\ CipherBlock(m) \in Nat
  BY DEF CipherBlock, BlockSizes

(* How many blocks of 16 bytes cover n bytes, and the zeros that fill up   *)
(* the last one ...                                                        *)
LEMMA Blocks16 ==
  ASSUME NEW n \in Nat, NEW q, q = Blocks(16, n)
  PROVE  q \in Nat /\ n <= 16 * q /\ 16 * q < n + 16 /\ (16 - (n % 16)) % 16 = (16 * q) - n /\ Blocks(16, 16 * q) = q
  BY SMT DEF Blocks

(* ... the same for 64 bytes: with a literal divisor the provers find      *)
(* them, ...                                                               *)
LEMMA Blocks64 ==
  ASSUME NEW n \in Nat, NEW q, q = Blocks(64, n)
  PROVE  q \in Nat /\ n <= 64 * q /\ 64 * q < n + 64 /\ (64 - (n % 64)) % 64 = (64 * q) - n /\ Blocks(64, 64 * q) = q
  BY SMT DEF Blocks

(* ... and for either. *)
LEMMA BlocksAre ==
  ASSUME NEW w \in BlockSizes, NEW n \in Nat, NEW q, q = Blocks(w, n)
  PROVE  q \in Nat /\ n <= w * q /\ w * q < n + w /\ (w - (n % w)) % w = (w * q) - n /\ Blocks(w, w * q) = q
<1>1. CASE w = 16
  BY <1>1, Blocks16
<1>2. CASE w = 64
  BY <1>2, Blocks64
<1> QED
  BY <1>1, <1>2 DEF BlockSizes

(* The keys of the threads. *)
LEMMA SchedulesAre ==
  ASSUME NEW k \in DOMAIN KeyBytes
  PROVE  Schedules[k] \in AesKeys
<1> DEFINE f == [i \in DOMAIN KeyBytes |-> AES_set_encrypt_key[KeyBytes[i]][128]]
<1>1. KeyBytes \in Seq(Seq(Byte)) /\ \A i \in DOMAIN KeyBytes : Len(KeyBytes[i]) = 32
  BY KeyAssumption DEF Byte
<1>2. PICK n \in Nat : n = Len(KeyBytes) /\ DOMAIN KeyBytes = 1 .. n
  BY <1>1
<1>3. ASSUME NEW i \in 1 .. n
      PROVE  f[i] \in AesKeys
  <2>1. KeyBytes[i] \in Seq(Byte) /\ Len(KeyBytes[i]) = 32
    BY <1>1, <1>2
  <2>2. 128 \in {128, 192, 256} /\ 128 <= 8 * Len(KeyBytes[i])
    BY <2>1
  <2>3. AES_set_encrypt_key[KeyBytes[i]][128] \in AesKeys
    BY <2>1, <2>2, KeyIs
  <2> QED
    BY <1>2, <2>3
<1>4. f = [i \in 1 .. n |-> f[i]] /\ Schedules = f \o <<>>
  BY <1>2 DEF Schedules
<1> HIDE DEF f
<1>5. f \o <<>> = f
  BY <1>2, <1>3, <1>4, Tupled
<1> QED
  BY <1>2, <1>3, <1>4, <1>5

(* A block enciphered is a block. *)
LEMMA EncipheredIs ==
  ASSUME NEW m \in CbcModes, NEW key \in AesKeys, NEW b \in Bytes(CipherBlock(m))
  PROVE  Enciphered(m, key, b) \in Bytes(CipherBlock(m))
<1>1. CASE m = "aes"
  BY <1>1, AesIs DEF CipherBlock, Enciphered
<1>2. CASE m # "aes"
  BY <1>2, ChaChaIs, RoundsAssumption DEF CipherBlock, Enciphered
<1> QED
  BY <1>1, <1>2

(* What is enciphered, byte by byte. *)
MixedByte(in, d, iv, i) == IF d + i <= Len(in) THEN XorByte(in[d + i], iv[i]) ELSE iv[i]

(* The bytes that are enciphered: the input's with the chaining block's,   *)
(* ...                                                                     *)
LEMMA MixedIs ==
  ASSUME NEW n \in Nat, NEW iv \in Bytes(n), NEW in \in Seq(Byte), NEW d \in Nat
  PROVE  /\ Mixed(in, d, iv) \in Bytes(n)
         /\ \A i \in 1 .. n : Mixed(in, d, iv)[i] = MixedByte(in, d, iv, i)
<1>1. DOMAIN iv = 1 .. n /\ \A i \in 1 .. n : iv[i] \in Byte
  BY BytesHave
<1> DEFINE f == [i \in 1 .. n |-> MixedByte(in, d, iv, i)]
<1>2. Mixed(in, d, iv) = f \o <<>>
  BY <1>1 DEF Mixed, MixedByte
<1>3. ASSUME NEW i \in 1 .. n
      PROVE  MixedByte(in, d, iv, i) \in Byte
  <2>1. d + i \in Nat /\ d + i > 0 /\ Len(in) \in Nat
    OBVIOUS
  <2>2. CASE d + i <= Len(in)
    <3>1. in[d + i] \in Byte /\ iv[i] \in Byte
      BY <1>1, <2>1, <2>2, BytesIs
    <3> QED
      BY <2>2, <3>1, XorByteIs DEF MixedByte
  <2>3. CASE ~(d + i <= Len(in))
    BY <1>1, <2>3 DEF MixedByte
  <2> QED
    BY <2>2, <2>3
<1>4. f = [i \in 1 .. n |-> f[i]] /\ \A i \in 1 .. n : f[i] = MixedByte(in, d, iv, i)
  OBVIOUS
<1> HIDE DEF f
<1>5. f \o <<>> = f /\ f \in Bytes(n)
  BY <1>3, <1>4, BytesMade
<1> QED
  BY <1>2, <1>4, <1>5

(* The same bytes mixed from two streams. *)
SameAhead(in, d, in2, d2, n) ==
  \A i \in 1 .. n : (d + i <= Len(in) <=> d2 + i <= Len(in2)) /\ (d + i <= Len(in) => in[d + i] = in2[d2 + i])

(* ... the same from streams with the same bytes ahead. *)
LEMMA MixedSame ==
  ASSUME NEW n \in Nat, NEW iv \in Bytes(n), NEW in, NEW d, NEW in2, NEW d2, SameAhead(in, d, in2, d2, n)
  PROVE  Mixed(in, d, iv) = Mixed(in2, d2, iv)
<1>1. DOMAIN iv = 1 .. n
  BY BytesHave
<1>2. \A i \in DOMAIN iv : (IF d + i <= Len(in) THEN XorByte(in[d + i], iv[i]) ELSE iv[i])
                           = (IF d2 + i <= Len(in2) THEN XorByte(in2[d2 + i], iv[i]) ELSE iv[i])
  BY <1>1 DEF SameAhead
<1> QED
  BY <1>2 DEF Mixed

(* A block of CBC is a block. *)
LEMMA CbcBlockIs ==
  ASSUME NEW m \in CbcModes, NEW key \in AesKeys, NEW iv \in Bytes(CipherBlock(m)), NEW in \in Seq(Byte), NEW d \in Nat
  PROVE  CbcBlock(m, key, in, d, iv) \in Bytes(CipherBlock(m))
<1>1. Mixed(in, d, iv) \in Bytes(CipherBlock(m))
  BY CipherBlockIs, MixedIs
<1> QED
  BY <1>1, EncipheredIs DEF CbcBlock

(* The stream of blocks of key k, with the cipher for a parameter. *)
First(m, k) == SubSeq(Ivec[k], 1, CipherBlock(m))
Filled(m, stream) == stream \o ZeroBytes((CipherBlock(m) - (Len(stream) % CipherBlock(m))) % CipherBlock(m))
StreamStep(m, k, stream) ==
  [cs \in Seq(Seq(Nat)) |-> [from \in Nat |->
     Append(cs, Enciphered(m, Schedules[k],
                           XorBytes[SubSeq(Filled(m, stream), from + 1, from + CipherBlock(m))][cs[Len(cs)]]))]]
StreamFor(m, k, stream) ==
  Along(StreamStep(m, k, stream), <<First(m, k)>>, BlockStarts(Filled(m, stream), CipherBlock(m)))

(* StreamOf is the stream for the mode in use. *)
LEMMA StreamOfIs ==
  ASSUME NEW k, NEW stream
  PROVE  StreamOf(k, stream) = StreamFor(mode, k, stream)
  BY DEF StreamOf, StreamFor, StreamStep, Filled, First

(* The first chaining block is a block. *)
LEMMA FirstIs ==
  ASSUME NEW m, NEW k \in DOMAIN KeyBytes
  PROVE  First(m, k) \in Bytes(CipherBlock(m))
<1>1. DOMAIN Ivec = DOMAIN KeyBytes /\ Ivec \in Seq(Seq(Byte))
  BY KeyAssumption DEF Byte
<1>2. Ivec[k] \in Seq(Byte) /\ Len(Ivec[k]) = 64
  BY <1>1, KeyAssumption
<1>3. PICK w : w = CipherBlock(m) /\ w \in Nat /\ w <= 64
  BY CipherBlockIs DEF BlockSizes
<1>4. Part(Ivec[k], 0, w) \in Bytes(w)
  <2>1. PICK v : v = Ivec[k] /\ v \in Seq(Byte) /\ Len(v) = 64
    BY <1>2
  <2>2. 0 \in Nat /\ 0 <= w /\ w <= Len(v) /\ w - 0 = w
    BY <1>3, <2>1
  <2>3. IsPart(Part(v, 0, w), Byte, v, 0, w)
    BY <1>3, <2>1, <2>2, PartIs
  <2> QED
    BY <1>3, <2>1, <2>2, <2>3 DEF IsPart, Bytes
<1> QED
  BY <1>3, <1>4 DEF First, Part

(* The stream, filled. *)
LEMMA FilledIs ==
  ASSUME NEW m, NEW s \in Seq(Byte), NEW w, w = CipherBlock(m), NEW q, q = Blocks(w, Len(s)),
         NEW f, f = Filled(m, s)
  PROVE  /\ q \in Nat /\ w \in Nat /\ f \in Seq(Byte) /\ Len(f) = w * q /\ Len(s) <= w * q /\ w * q \in Nat
         /\ \A i \in 1 .. w * q : f[i] = IF i <= Len(s) THEN s[i] ELSE 0
<1>1. w \in BlockSizes /\ w \in Nat /\ Len(s) \in Nat
  BY CipherBlockIs
<1>2. q \in Nat /\ Len(s) <= w * q /\ (w - (Len(s) % w)) % w = (w * q) - Len(s)
  BY <1>1, BlocksAre
<1>3. PICK n \in Nat : n = w * q
  BY <1>1, <1>2
<1>4. PICK z : z \in Seq(Byte) /\ Len(z) = n - Len(s) /\ (\A i \in 1 .. n - Len(s) : z[i] = 0) /\ f = s \o z
  <2>1. n - Len(s) \in Nat
    BY <1>1, <1>2, <1>3
  <2>2. ZeroBytes(n - Len(s)) \in Seq(Byte) /\ Len(ZeroBytes(n - Len(s))) = n - Len(s)
        /\ \A i \in 1 .. n - Len(s) : ZeroBytes(n - Len(s))[i] = 0
    BY <2>1, ZeroIs
  <2>3. f = s \o ZeroBytes(n - Len(s))
    BY <1>2, <1>3 DEF Filled
  <2> QED
    BY <2>2, <2>3
<1>5. IsJoin(f, Byte, s, z)
  BY <1>4, JoinIs
<1>6. ASSUME NEW i \in 1 .. n
      PROVE  f[i] = IF i <= Len(s) THEN s[i] ELSE 0
  <2>1. CASE i <= Len(s)
    BY <1>1, <1>5, <2>1 DEF IsJoin
  <2>2. CASE ~(i <= Len(s))
    <3>1. PICK j \in 1 .. n - Len(s) : i = Len(s) + j
      <4>1. i - Len(s) \in 1 .. n - Len(s) /\ i = Len(s) + (i - Len(s))
        BY <1>1, <1>3, <2>2
      <4> QED
        BY <4>1
    <3> QED
      BY <1>4, <1>5, <2>2, <3>1 DEF IsJoin
  <2> QED
    BY <2>1, <2>2
<1>7. f \in Seq(Byte) /\ Len(f) = n
  BY <1>1, <1>3, <1>4, <1>5 DEF IsJoin
<1> QED
  BY <1>1, <1>2, <1>3, <1>6, <1>7

(* Where the blocks begin. *)
LEMMA StartsAre ==
  ASSUME NEW w \in BlockSizes, NEW q \in Nat, NEW f, Len(f) = w * q, w * q \in Nat, Blocks(w, w * q) = q,
         NEW s, s = BlockStarts(f, w)
  PROVE  s \in Seq(Nat) /\ Len(s) = q /\ \A j \in 1 .. q : s[j] = w * (j - 1)
<1>1. w \in Nat
  BY DEF BlockSizes
<1>2. s = [j \in 1 .. q |-> w * (j - 1)]
  BY DEF BlockStarts, Blocks
<1>3. \A j \in 1 .. q : w * (j - 1) \in Nat
  BY <1>1
<1> QED
  BY <1>2, <1>3

(* What a stream's blocks are. *)
IsStream(B, m, k, s) ==
  /\ B \in Seq(Bytes(CipherBlock(m))) /\ Len(B) = Blocks(CipherBlock(m), Len(s)) + 1
  /\ B[1] = First(m, k)
  /\ \A j \in 1 .. Blocks(CipherBlock(m), Len(s)) :
       B[j + 1] = CbcBlock(m, Schedules[k], s, CipherBlock(m) * (j - 1), B[j])

(* A block of the filled stream combined with a chaining block. *)
LEMMA FilledMixes ==
  ASSUME NEW m, NEW s \in Seq(Byte), NEW w, w = CipherBlock(m), NEW d \in Nat,
         NEW f \in Seq(Byte), d + w <= Len(f), \A i \in 1 .. Len(f) : f[i] = IF i <= Len(s) THEN s[i] ELSE 0,
         NEW iv \in Bytes(w)
  PROVE  XorBytes[SubSeq(f, d + 1, d + w)][iv] = Mixed(s, d, iv)
<1>1. w \in Nat /\ iv \in Seq(Byte) /\ Len(iv) = w /\ (\A i \in 1 .. w : iv[i] \in Byte) /\ Len(f) \in Nat
  BY CipherBlockIs, BytesHave
<1>2. PICK x : x = Part(f, d, d + w)
  OBVIOUS
<1>3. x \in Seq(Byte) /\ Len(x) = w /\ (\A i \in 1 .. w : x[i] = f[d + i]) /\ x = SubSeq(f, d + 1, d + w)
  <2>1. d + w \in Nat /\ d <= d + w /\ (d + w) - d = w
    BY <1>1
  <2>2. IsPart(x, Byte, f, d, d + w)
    BY <1>2, <2>1, PartIs
  <2> QED
    BY <1>2, <2>1, <2>2 DEF IsPart, Part
<1>4. XorBytes[x][iv] \in Bytes(w) /\ \A i \in 1 .. w : XorBytes[x][iv][i] = XorByte(x[i], iv[i])
  <2>1. Len(x) <= Len(iv) /\ Len(x) = w
    BY <1>1, <1>3
  <2>2. XorBytes[x][iv] \in Bytes(Len(x)) /\ \A i \in 1 .. Len(x) : XorBytes[x][iv][i] = XorByte(x[i], iv[i])
    BY <1>1, <1>3, <2>1, XorBytesIs
  <2> QED
    BY <2>1, <2>2
<1>5. Mixed(s, d, iv) \in Bytes(w) /\ \A i \in 1 .. w : Mixed(s, d, iv)[i] = MixedByte(s, d, iv, i)
  BY <1>1, MixedIs
<1>6. ASSUME NEW i \in 1 .. w
      PROVE  XorByte(x[i], iv[i]) = MixedByte(s, d, iv, i)
  <2>1. d + i \in 1 .. Len(f) /\ x[i] = f[d + i]
    BY <1>1, <1>3
  <2>2. CASE d + i <= Len(s)
    BY <2>1, <2>2 DEF MixedByte
  <2>3. CASE ~(d + i <= Len(s))
    <3>1. x[i] = 0 /\ iv[i] \in Byte /\ 0 \in Byte
      BY <1>1, <2>1, <2>3, SmallBytes
    <3> QED
      BY <2>3, <3>1, XorByteIs DEF MixedByte
  <2> QED
    BY <2>2, <2>3
<1>7. PICK u, v : u = XorBytes[x][iv] /\ v = Mixed(s, d, iv)
  OBVIOUS
<1>8. u \in Seq(Byte) /\ v \in Seq(Byte) /\ Len(u) = w /\ Len(v) = w
  BY <1>1, <1>4, <1>5, <1>7, BytesHave
<1>9. \A i \in 1 .. w : u[i] = v[i]
  BY <1>4, <1>5, <1>6, <1>7
<1>10. u = v
  BY <1>8, <1>9, SameSeq
<1> QED
  BY <1>3, <1>7, <1>10

(* Multiples of a block size. *)
LEMMA BlockFits ==
  ASSUME NEW w \in BlockSizes, NEW q \in Nat, NEW j \in 1 .. q
  PROVE  w * (j - 1) \in Nat /\ w * (j - 1) + w = w * j /\ w * j \in Nat /\ w * j <= w * q /\ w * q \in Nat
<1>1. CASE w = 16
  BY <1>1
<1>2. CASE w = 64
  BY <1>2
<1> QED
  BY <1>1, <1>2 DEF BlockSizes

(* The first j blocks of a stream and its first chaining block. *)
Links(m, k, s, j) ==
  {B \in Seq(Bytes(CipherBlock(m))) :
     /\ Len(B) = j + 1 /\ B[1] = First(m, k)
     /\ \A i \in 1 .. j : B[i + 1] = CbcBlock(m, Schedules[k], s, CipherBlock(m) * (i - 1), B[i])}

(* One more block. *)
LEMMA LinksGrow ==
  ASSUME NEW m \in CbcModes, NEW k \in DOMAIN KeyBytes, NEW s \in Seq(Byte), NEW j \in Nat, j > 0,
         NEW x \in Links(m, k, s, j - 1), NEW b, b = CbcBlock(m, Schedules[k], s, CipherBlock(m) * (j - 1), x[j])
  PROVE  Append(x, b) \in Links(m, k, s, j) /\ b \in Bytes(CipherBlock(m)) /\ x \in Seq(Seq(Nat))
         /\ Len(x) = j /\ x[j] \in Bytes(CipherBlock(m))
<1>1. PICK w : w = CipherBlock(m) /\ w \in Nat
  BY CipherBlockIs
<1>2. x \in Seq(Bytes(w)) /\ Len(x) = j /\ x[j] \in Bytes(w)
  BY <1>1 DEF Links
<1>3. b \in Bytes(w)
  <2>1. w * (j - 1) \in Nat
    <3>1. w \in BlockSizes
      BY <1>1, CipherBlockIs
    <3> QED
      BY <3>1 DEF BlockSizes
  <2> QED
    BY <1>1, <1>2, <2>1, SchedulesAre, CbcBlockIs
<1>4. PICK B : B = Append(x, b)
  OBVIOUS
<1>5. B \in Seq(Bytes(w)) /\ Len(B) = j + 1 /\ B[j + 1] = b /\ \A i \in 1 .. j : B[i] = x[i]
  BY <1>2, <1>3, <1>4
<1>6. B[1] = First(m, k)
  BY <1>5 DEF Links
<1>7. ASSUME NEW i \in 1 .. j
      PROVE  B[i + 1] = CbcBlock(m, Schedules[k], s, w * (i - 1), B[i])
  <2>1. CASE i = j
    BY <1>1, <1>5, <2>1
  <2>2. CASE i # j
    <3>1. i \in 1 .. j - 1 /\ i + 1 \in 1 .. j
      BY <2>2
    <3>2. x[i + 1] = CbcBlock(m, Schedules[k], s, w * (i - 1), x[i])
      BY <1>1, <3>1 DEF Links
    <3> QED
      BY <1>5, <3>1, <3>2
  <2> QED
    BY <2>1, <2>2
<1>8. x \in Seq(Seq(Nat))
  <2>1. \A v \in Bytes(w) : v \in Seq(Nat)
    BY <1>1, BytesHave
  <2> QED
    BY <1>2, <2>1
<1> QED
  BY <1>1, <1>2, <1>3, <1>4, <1>5, <1>6, <1>7, <1>8 DEF Links

(* A stream's blocks, each from the one before. *)
LEMMA StreamIs ==
  ASSUME NEW m \in CbcModes, NEW k \in DOMAIN KeyBytes, NEW s \in Seq(Byte)
  PROVE  IsStream(StreamFor(m, k, s), m, k, s)
<1>1. PICK w, q, f : w = CipherBlock(m) /\ q = Blocks(w, Len(s)) /\ f = Filled(m, s)
  OBVIOUS
<1>2. /\ q \in Nat /\ w \in Nat /\ f \in Seq(Byte) /\ Len(f) = w * q /\ w * q \in Nat
      /\ \A i \in 1 .. w * q : f[i] = IF i <= Len(s) THEN s[i] ELSE 0
  BY <1>1, FilledIs
<1>3. w \in BlockSizes /\ Blocks(w, w * q) = q
  <2>1. Len(s) \in Nat
    OBVIOUS
  <2> QED
    BY <1>1, <2>1, CipherBlockIs, BlocksAre
<1>4. PICK t : t = BlockStarts(f, w)
  OBVIOUS
<1>5. t \in Seq(Nat) /\ Len(t) = q /\ \A j \in 1 .. q : t[j] = w * (j - 1)
  BY <1>2, <1>3, <1>4, StartsAre
<1>6. PICK step : step = StreamStep(m, k, s)
  OBVIOUS
<1>7. PICK J : J = [j \in 0 .. q |-> Links(m, k, s, j)]
  OBVIOUS
<1>8. ASSUME NEW j \in 1 .. Len(t), NEW x \in J[j - 1]
      PROVE  step[x][t[j]] \in J[j]
  <2>1. j \in Nat /\ j > 0 /\ x \in Links(m, k, s, j - 1) /\ j \in 1 .. q /\ j \in 0 .. q
    BY <1>2, <1>5, <1>7
  <2>2. PICK d \in Nat : d = w * (j - 1) /\ d + w <= Len(f) /\ t[j] = d
    BY <1>2, <1>3, <1>5, <2>1, BlockFits
  <2>3. PICK b : b = CbcBlock(m, Schedules[k], s, d, x[j])
    OBVIOUS
  <2>4. /\ Append(x, b) \in Links(m, k, s, j) /\ x \in Seq(Seq(Nat))
        /\ Len(x) = j /\ x[j] \in Bytes(w)
    BY <1>1, <2>1, <2>2, <2>3, LinksGrow
  <2>5. XorBytes[SubSeq(f, d + 1, d + w)][x[j]] = Mixed(s, d, x[j])
    <3>1. PICK v : v = x[j]
      OBVIOUS
    <3>2. v \in Bytes(w) /\ w = CipherBlock(m) /\ f \in Seq(Byte) /\ d \in Nat /\ d + w <= Len(f) /\ \A i \in 1 .. Len(f) : f[i] = IF i <= Len(s) THEN s[i] ELSE 0
      BY <1>1, <1>2, <2>2, <2>4, <3>1
    <3>3. XorBytes[SubSeq(f, d + 1, d + w)][v] = Mixed(s, d, v)
      BY ONLY <3>2, s \in Seq(Byte), FilledMixes, SMTT(30)
    <3> QED
      BY <3>1, <3>3
  <2>6. step[x][d] = Append(x, b)
    BY <1>1, <1>6, <2>3, <2>4, <2>5 DEF StreamStep, CbcBlock
  <2> QED
    BY <1>7, <2>1, <2>2, <2>4, <2>6
<1>9. <<First(m, k)>> \in J[0]
  <2>1. First(m, k) \in Bytes(w)
    BY <1>1, FirstIs
  <2>2. PICK u : u = <<First(m, k)>>
    OBVIOUS
  <2>3. u \in Seq(Bytes(w)) /\ Len(u) = 1 /\ u[1] = First(m, k)
    BY <2>1, <2>2
  <2>4. J[0] = Links(m, k, s, 0)
    BY <1>2, <1>7
  <2> QED
    BY <1>1, <2>2, <2>4, <2>3 DEF Links
<1>10. PICK e : e = <<First(m, k)>>
  OBVIOUS
<1>11. Along(step, e, t) \in J[Len(t)]
  BY <1>5, <1>8, <1>9, <1>10, AlongInvariant
<1>12. J[Len(t)] = Links(m, k, s, q) /\ StreamFor(m, k, s) = Along(step, e, t)
  BY <1>1, <1>2, <1>4, <1>5, <1>6, <1>7, <1>10 DEF StreamFor
<1>13. PICK B : B = StreamFor(m, k, s) /\ B \in Links(m, k, s, q)
  BY <1>11, <1>12
<1> QED
  BY <1>1, <1>13 DEF Links, IsStream

(* The type of a stream's blocks. *)
LEMMA StreamBlock ==
  ASSUME NEW m, NEW k, NEW s \in Seq(Byte), NEW B, IsStream(B, m, k, s),
         NEW j \in 1 .. Blocks(CipherBlock(m), Len(s)) + 1
  PROVE  B[j] \in Bytes(CipherBlock(m))
  BY DEF IsStream

(* Streams that agree on whole blocks have those blocks in common. *)
LEMMA StreamSame ==
  ASSUME NEW m \in CbcModes, NEW k \in DOMAIN KeyBytes, NEW s \in Seq(Byte), NEW t \in Seq(Byte),
         NEW w, w = CipherBlock(m), NEW q \in Nat, w * q <= Len(s), w * q <= Len(t),
         \A i \in 1 .. w * q : s[i] = t[i],
         NEW B, IsStream(B, m, k, s), NEW C, IsStream(C, m, k, t)
  PROVE  \A j \in 0 .. q : B[j + 1] = C[j + 1]
<1>1. w \in BlockSizes /\ w \in Nat /\ Len(s) \in Nat /\ Len(t) \in Nat
  BY CipherBlockIs
<1>2. q <= Blocks(w, Len(s)) /\ q <= Blocks(w, Len(t))
  <2>1. CASE w = 16
    BY <1>1, <2>1 DEF Blocks
  <2>2. CASE w = 64
    BY <1>1, <2>2 DEF Blocks
  <2> QED
    BY <1>1, <2>1, <2>2 DEF BlockSizes
<1>3. PICK p \in Nat, p2 \in Nat : p = Blocks(w, Len(s)) /\ p2 = Blocks(w, Len(t)) /\ q <= p /\ q <= p2
  BY <1>1, <1>2, BlocksAre
<1> DEFINE Z == {j \in 0 .. q : B[j + 1] = C[j + 1]}
<1>4. 0 \in Z
  BY DEF IsStream
<1>5. ASSUME NEW j \in 1 .. q, j - 1 \in Z
      PROVE  j \in Z
  <2>1. B[j] = C[j]
    BY <1>5
  <2>2. j \in 1 .. p /\ j \in 1 .. p2 /\ j \in 1 .. p + 1
    BY <1>3
  <2>3. B[j] \in Bytes(w)
    BY <1>3, <2>2, StreamBlock
  <2>4. PICK d \in Nat : d = w * (j - 1) /\ d + w <= w * q
    BY <1>1, BlockFits
  <2>5. SameAhead(s, d, t, d, w)
    <3>1. ASSUME NEW i \in 1 .. w
          PROVE  d + i <= Len(s) /\ d + i <= Len(t) /\ s[d + i] = t[d + i]
      <4>1. d + i \in 1 .. w * q
        <5>1. PICK n \in Nat : n = w * q
          BY <1>1, BlockFits
        <5>2. d + w <= n
          BY <2>4, <5>1
        <5>3. d + i \in 1 .. n
          BY ONLY <1>1, <2>4, <5>1, <5>2, i \in 1 .. w
        <5> QED
          BY <5>1, <5>3
      <4>2. PICK n \in Nat : n = w * q
        BY <1>1, BlockFits
      <4> QED
        BY <1>1, <4>1, <4>2
    <3> QED
      BY <3>1 DEF SameAhead
  <2>6. Mixed(s, d, B[j]) = Mixed(t, d, B[j])
    BY <1>1, <2>3, <2>5, MixedSame
  <2>7. B[j + 1] = CbcBlock(m, Schedules[k], s, d, B[j]) /\ C[j + 1] = CbcBlock(m, Schedules[k], t, d, C[j])
    BY <1>3, <2>2, <2>4 DEF IsStream
  <2>8. B[j + 1] = C[j + 1]
    BY <2>1, <2>6, <2>7 DEF CbcBlock
  <2> QED
    BY <2>8
<1> HIDE DEF Z
<1>6. 0 .. q \subseteq Z
  BY <1>4, <1>5, InductionTo
<1> QED
  BY <1>6 DEF Z

-----------------------------------------------------------------------------
(* Bytes of a stream. *)

(* A place as a block and a place in it. *)
LEMMA PlaceParts ==
  ASSUME NEW w \in BlockSizes, NEW p \in Nat
  PROVE  p \div w \in Nat /\ p % w \in 0 .. w - 1 /\ p = w * (p \div w) + (p % w)
<1>1. CASE w = 16
  BY <1>1
<1>2. CASE w = 64
  BY <1>2
<1> QED
  BY <1>1, <1>2 DEF BlockSizes

(* Place i of block j. *)
LEMMA PlaceWhole ==
  ASSUME NEW w \in BlockSizes, NEW j \in Nat, NEW i \in 0 .. w - 1
  PROVE  w * j \in Nat /\ (w * j + i) \div w = j /\ (w * j + i) % w = i
<1>1. CASE w = 16
  BY <1>1, SMT
<1>2. CASE w = 64
  BY <1>2, SMT
<1> QED
  BY <1>1, <1>2 DEF BlockSizes

(* A place j blocks further. *)
LEMMA PlaceShift ==
  ASSUME NEW w \in BlockSizes, NEW j \in Nat, NEW p \in Nat
  PROVE  w * j \in Nat /\ (w * j + p) \div w = j + (p \div w) /\ (w * j + p) % w = p % w
<1>1. CASE w = 16
  BY <1>1, SMT
<1>2. CASE w = 64
  BY <1>2, SMT
<1> QED
  BY <1>1, <1>2 DEF BlockSizes

(* A place below q blocks is in one of them. *)
LEMMA PlaceBelow ==
  ASSUME NEW w \in BlockSizes, NEW q \in Nat, NEW p \in Nat, p < w * q
  PROVE  p \div w < q
<1>1. CASE w = 16
  BY <1>1, SMT
<1>2. CASE w = 64
  BY <1>2, SMT
<1> QED
  BY <1>1, <1>2 DEF BlockSizes

(* Byte p, from one, of the blocks of s. *)
BlockByte(s, w, p) == s[((p - 1) \div w) + 1][((p - 1) % w) + 1]

JoinStep == [s \in Seq(Nat) |-> [part_ \in Seq(Nat) |-> s \o part_]]

(* Joined goes along the parts. *)
LEMMA JoinedAlong ==
  ASSUME NEW parts
  PROVE  Joined(parts) = Along(JoinStep, <<>>, parts)
  BY DEF Joined, JoinStep

JoinsOf(s, w, j) == {x \in Bytes(w * j) : \A p \in 1 .. w * j : x[p] = BlockByte(s, w, p)}

(* One more block joined. *)
LEMMA JoinsGrow ==
  ASSUME NEW w \in BlockSizes, NEW s, NEW j \in Nat, j > 0, s[j] \in Bytes(w), NEW x \in JoinsOf(s, w, j - 1)
  PROVE  JoinStep[x][s[j]] \in JoinsOf(s, w, j)
<1>1. PICK n \in Nat : w \in Nat /\ n = w * (j - 1) /\ n + w = w * j /\ w > 0
  BY BlockFits DEF BlockSizes
<1>2. PICK b : b = s[j]
  OBVIOUS
<1>3. x \in Seq(Byte) /\ x \in Seq(Nat) /\ Len(x) = n /\ \A p \in 1 .. n : x[p] = BlockByte(s, w, p)
  <2>1. x \in Bytes(n)
    BY <1>1 DEF JoinsOf
  <2> QED
    BY <1>1, <2>1, BytesHave DEF JoinsOf
<1>4. b \in Seq(Byte) /\ b \in Seq(Nat) /\ Len(b) = w
  BY <1>1, <1>2, BytesHave
<1>5. PICK y : y = x \o b
  OBVIOUS
<1>6. IsJoin(y, Byte, x, b)
  BY <1>3, <1>4, <1>5, JoinIs
<1>7. y \in Bytes(n + w)
  BY <1>3, <1>4, <1>6 DEF IsJoin, Bytes
<1>8. ASSUME NEW p \in 1 .. n + w
      PROVE  y[p] = BlockByte(s, w, p)
  <2>1. CASE p <= n
    <3>1. p \in 1 .. n /\ 1 .. n = 1 .. Len(x)
      BY <1>3, <2>1
    <3>2. y[p] = x[p]
      BY <1>6, <3>1 DEF IsJoin
    <3> QED
      BY <1>3, <3>1, <3>2
  <2>2. CASE ~(p <= n)
    <3>1. PICK i \in 1 .. w : p = n + i /\ p - 1 = n + (i - 1) /\ i - 1 \in 0 .. w - 1
      <4>1. p - n \in 1 .. w /\ p = n + (p - n) /\ p - 1 = n + ((p - n) - 1) /\ (p - n) - 1 \in 0 .. w - 1
        BY <1>1, <2>2
      <4> QED
        BY <4>1
    <3>2. (p - 1) \div w = j - 1 /\ (p - 1) % w = i - 1
      <4>1. j - 1 \in Nat
        OBVIOUS
      <4> QED
        BY <1>1, <3>1, <4>1, PlaceWhole
    <3>3. y[p] = b[i]
      BY <1>3, <1>4, <1>6, <3>1 DEF IsJoin
    <3>4. (i - 1) + 1 = i /\ (j - 1) + 1 = j
      OBVIOUS
    <3> QED
      BY <1>2, <3>2, <3>3, <3>4 DEF BlockByte
  <2> QED
    BY <2>1, <2>2
<1>9. JoinStep[x][b] = y
  BY <1>3, <1>4, <1>5 DEF JoinStep
<1> QED
  BY <1>1, <1>2, <1>7, <1>8, <1>9 DEF JoinsOf

(* Blocks joined. *)
LEMMA JoinedBlocks ==
  ASSUME NEW w \in BlockSizes, NEW s \in Seq(Bytes(w)), NEW n, n = w * Len(s)
  PROVE  n \in Nat /\ Joined(s) \in Bytes(n) /\ \A p \in 1 .. n : Joined(s)[p] = BlockByte(s, w, p)
<1>1. PICK q \in Nat : q = Len(s) /\ w \in Nat
  BY DEF BlockSizes
<1>2. PICK J : J = [j \in 0 .. q |-> JoinsOf(s, w, j)]
  OBVIOUS
<1>3. <<>> \in J[0]
  <2>1. <<>> \in Bytes(w * 0) /\ w * 0 = 0
    BY <1>1 DEF Bytes
  <2> QED
    BY <1>2, <2>1 DEF JoinsOf
<1>4. ASSUME NEW j \in 1 .. q, NEW x \in J[j - 1]
      PROVE  JoinStep[x][s[j]] \in J[j]
  <2>1. j \in Nat /\ j > 0 /\ s[j] \in Bytes(w) /\ x \in JoinsOf(s, w, j - 1)
    BY <1>1, <1>2
  <2>2. JoinStep[x][s[j]] \in JoinsOf(s, w, j)
    BY <2>1, JoinsGrow
  <2> QED
    BY <1>2, <2>2
<1>5. Along(JoinStep, <<>>, s) \in J[Len(s)]
  BY <1>1, <1>3, <1>4, AlongInvariant
<1>6. Joined(s) \in JoinsOf(s, w, q)
  BY <1>1, <1>2, <1>5, JoinedAlong
<1>7. n \in Nat
  BY <1>1
<1> QED
  BY <1>1, <1>6, <1>7 DEF JoinsOf

(* Inputs joined. *)
LEMMA JoinedIs ==
  ASSUME NEW s \in Seq(Seq(Byte))
  PROVE  Joined(s) \in Seq(Byte) /\ Len(Joined(s)) \in Nat
<1>1. ASSUME NEW x \in Seq(Byte), NEW e \in Seq(Byte)
      PROVE  JoinStep[x][e] \in Seq(Byte)
  <2>1. x \in Seq(Nat) /\ e \in Seq(Nat)
    BY BytesIs
  <2>2. JoinStep[x][e] = x \o e
    BY <2>1 DEF JoinStep
  <2> QED
    BY <2>2
<1>2. PICK T : T = Seq(Byte)
  OBVIOUS
<1>3. <<>> \in T /\ s \in Seq(T) /\ \A x \in T : \A e \in T : JoinStep[x][e] \in T
  BY <1>1, <1>2
<1>4. Along(JoinStep, <<>>, s) \in T
  BY <1>3, AlongStays
<1>5. Joined(s) \in Seq(Byte)
  BY <1>2, <1>4, JoinedAlong
<1> QED
  BY <1>5

(* One more input joined. *)
LEMMA JoinedAppend ==
  ASSUME NEW s \in Seq(Seq(Byte)), NEW e \in Seq(Byte)
  PROVE  Joined(Append(s, e)) = Joined(s) \o e
<1>1. PICK t, T : t = Append(s, e) /\ T = Seq(Byte)
  OBVIOUS
<1>2. t \in Seq(T) /\ s \in Seq(T) /\ Len(t) = Len(s) + 1 /\ t[Len(t)] = e /\ \A j \in 1 .. Len(s) : t[j] = s[j]
  BY <1>1
<1>3. Along(JoinStep, <<>>, t) = JoinStep[Along(JoinStep, <<>>, s)][t[Len(t)]]
  BY <1>2, AlongAppend
<1>4. Joined(s) \in Seq(Nat) /\ e \in Seq(Nat)
  BY JoinedIs, BytesIs
<1>5. JoinStep[Joined(s)][e] = Joined(s) \o e
  BY <1>4 DEF JoinStep
<1> QED
  BY <1>1, <1>2, <1>3, <1>5, JoinedAlong

(* No inputs joined. *)
LEMMA JoinedNothing == Joined(<<>>) = <<>>
  BY JoinedAlong, AlongNothing

(* A multiple of the block size. *)
Multiple(w, n) == n \in Nat /\ n % w = 0

(* A multiple and its quotient. *)
LEMMA MultipleIs ==
  ASSUME NEW w \in BlockSizes, NEW n, Multiple(w, n)
  PROVE  \E q \in Nat : n = w * q /\ n \div w = q
<1>1. n \in Nat /\ n % w = 0
  BY DEF Multiple
<1>2. n \div w \in Nat /\ n = w * (n \div w) + 0
  BY <1>1, PlaceParts
<1>3. w * (n \div w) \in Nat
  BY <1>2 DEF BlockSizes
<1> QED
  BY <1>2, <1>3

(* Whole blocks are a multiple of the block. *)
LEMMA MultipleOf ==
  ASSUME NEW w \in BlockSizes, NEW q \in Nat
  PROVE  Multiple(w, w * q)
<1>1. CASE w = 16
  BY <1>1, SMT DEF Multiple
<1>2. CASE w = 64
  BY <1>2, SMT DEF Multiple
<1> QED
  BY <1>1, <1>2 DEF BlockSizes

(* The sum of multiples. *)
LEMMA MultipleSum ==
  ASSUME NEW w \in BlockSizes, NEW m, NEW n, Multiple(w, m), Multiple(w, n)
  PROVE  Multiple(w, m + n)
<1>1. CASE w = 16
  BY <1>1, SMT DEF Multiple
<1>2. CASE w = 64
  BY <1>2, SMT DEF Multiple
<1> QED
  BY <1>1, <1>2 DEF BlockSizes

(* Inputs of whole blocks joined are whole blocks. *)
LEMMA JoinedMultiple ==
  ASSUME NEW w \in BlockSizes, NEW s \in Seq(Seq(Byte)), \A i \in DOMAIN s : Multiple(w, Len(s[i]))
  PROVE  Multiple(w, Len(Joined(s)))
<1>1. PICK T : T = {x \in Seq(Byte) : Multiple(w, Len(x))}
  OBVIOUS
<1>2. s \in Seq(T)
  BY <1>1
<1>3. <<>> \in T
  <2>1. Multiple(w, w * 0) /\ w * 0 = 0
    BY MultipleOf DEF BlockSizes
  <2> QED
    BY <1>1, <2>1
<1>4. ASSUME NEW x \in T, NEW e \in T
      PROVE  JoinStep[x][e] \in T
  <2>1. x \in Seq(Byte) /\ e \in Seq(Byte) /\ Multiple(w, Len(x)) /\ Multiple(w, Len(e))
    BY <1>1
  <2>2. x \in Seq(Nat) /\ e \in Seq(Nat)
    BY <2>1, BytesIs
  <2>3. JoinStep[x][e] = x \o e
    BY <2>2 DEF JoinStep
  <2>4. x \o e \in Seq(Byte) /\ Len(x \o e) = Len(x) + Len(e)
    BY <2>1, TwoParts
  <2>5. Multiple(w, Len(x) + Len(e))
    BY <2>1, MultipleSum
  <2> QED
    BY <1>1, <2>3, <2>4, <2>5
<1>5. Along(JoinStep, <<>>, s) \in T
  BY <1>2, <1>3, <1>4, AlongStays
<1> QED
  BY <1>1, <1>5, JoinedAlong

-----------------------------------------------------------------------------
(* The memory of a call. *)
LEMMA Times2 ==
  ASSUME NEW a \in Nat, NEW b \in Nat, NEW d \in Nat
  PROVE  a * b \in Nat /\ a * ((b + 1) + d) = ((a * b) + a) + (a * d) /\ a * d \in Nat
  BY SMT

(* Products grow with their factors. *)
LEMMA Grows ==
  ASSUME NEW a \in Nat, NEW c \in Nat, NEW b \in Nat, a <= c
  PROVE  a * b <= c * b /\ a * b \in Nat /\ c * b \in Nat
<1>1. PICK d \in Nat : c = a + d
  <2>1. c - a \in Nat /\ c = a + (c - a)
    OBVIOUS
  <2> QED
    BY <2>1
<1>2. c * b = (a * b) + (d * b) /\ d * b \in Nat /\ a * b \in Nat
  BY <1>1, SMT
<1> QED
  BY <1>2

(* Neighbours' parts are apart ... *)
LEMMA Apart ==
  ASSUME NEW stride \in Nat, NEW j \in Nat, NEW k \in Nat, j > 0, j < k
  PROVE  stride * (j - 1) \in Nat /\ stride * (k - 1) \in Nat /\ stride * (j - 1) + stride <= stride * (k - 1)
<1>1. PICK b \in Nat, d \in Nat : j - 1 = b /\ k - 1 = (b + 1) + d
  <2>1. j - 1 \in Nat /\ k - j - 1 \in Nat /\ k - 1 = ((j - 1) + 1) + (k - j - 1)
    OBVIOUS
  <2> QED
    BY <2>1
<1>2. stride * b \in Nat /\ stride * ((b + 1) + d) = ((stride * b) + stride) + (stride * d) /\ stride * d \in Nat
  BY Times2
<1> QED
  BY <1>1, <1>2

(* ... and inside. *)
LEMMA Inside ==
  ASSUME NEW stride \in Nat, NEW M \in Nat, stride <= M, NEW N \in Nat, NEW k \in 1 .. N
  PROVE  stride * (k - 1) \in Nat /\ N * M \in Nat /\ stride * (k - 1) + M <= N * M
<1>1. PICK b \in Nat, d \in Nat : k - 1 = b /\ N = (b + 1) + d
  <2>1. k - 1 \in Nat /\ N - k \in Nat /\ N = ((k - 1) + 1) + (N - k)
    OBVIOUS
  <2> QED
    BY <2>1
<1>2. stride * b <= M * b /\ stride * b \in Nat /\ M * b \in Nat
  BY Grows
<1>3. M * b \in Nat /\ M * ((b + 1) + d) = ((M * b) + M) + (M * d) /\ M * d \in Nat
  BY Times2
<1>4. N * M = M * N
  OBVIOUS
<1>5. M * N = ((M * b) + M) + (M * d)
  BY <1>1, <1>3
<1> QED
  BY <1>1, <1>2, <1>3, <1>4, <1>5

(* The same, for a part that begins at base of memory n bytes long. *)
BeginsAt(base, stride, k) == base = stride * (k - 1)
Total(n, N, M) == n = N * M

(* Each thread's part lies in the memory. *)
LEMMA PartInside ==
  ASSUME NEW stride \in Nat, NEW M \in Nat, stride <= M, NEW N \in Nat, NEW k \in 1 .. N,
         NEW base, BeginsAt(base, stride, k), NEW n, Total(n, N, M)
  PROVE  base \in Nat /\ n \in Nat /\ base + M <= n
  BY Inside DEF BeginsAt, Total

(* Bytes written over others. *)
LEMMA OverwrittenIs ==
  ASSUME NEW n \in Nat, NEW memory \in Bytes(n), NEW place \in Nat, NEW b \in Seq(Byte), place + Len(b) <= n
  PROVE  /\ Overwritten(memory, place, b) \in Bytes(n)
         /\ \A p \in 1 .. n : Overwritten(memory, place, b)[p] =
              IF p <= place \/ p > place + Len(b) THEN memory[p] ELSE b[p - place]
<1>1. memory \in Seq(Byte) /\ Len(memory) = n
  BY DEF Bytes
<1>2. PICK l \in Nat : l = Len(b)
  OBVIOUS
<1>3. PICK x : x = Part(memory, 0, place)
  OBVIOUS
<1>4. IsPart(x, Byte, memory, 0, place)
  <2>1. 0 \in Nat /\ 0 <= place /\ place <= Len(memory)
    BY <1>1, <1>2
  <2> QED
    BY <1>1, <1>3, <2>1, PartIs
<1>5. PICK z : z = Part(memory, place + l, n)
  OBVIOUS
<1>6. IsPart(z, Byte, memory, place + l, n)
  <2>1. place + l \in Nat /\ place + l <= n /\ n <= Len(memory)
    BY <1>1, <1>2
  <2> QED
    BY <1>1, <1>5, <2>1, PartIs
<1>7. PICK y : y = x \o b
  OBVIOUS
<1>8. IsJoin(y, Byte, x, b)
  <2>1. x \in Seq(Byte)
    BY <1>4 DEF IsPart
  <2> QED
    BY <1>7, <2>1, JoinIs
<1>9. PICK u : u = y \o z
  OBVIOUS
<1>10. IsJoin(u, Byte, y, z)
  <2>1. y \in Seq(Byte) /\ z \in Seq(Byte)
    BY <1>6, <1>8 DEF IsPart, IsJoin
  <2> QED
    BY <1>9, <2>1, JoinIs
<1>11. Overwritten(memory, place, b) = u
  <2>1. SubSeq(memory, 1, place) = x
    BY <1>3 DEF Part
  <2>2. SubSeq(memory, place + Len(b) + 1, Len(memory)) = z
    BY <1>1, <1>2, <1>5 DEF Part
  <2> QED
    BY <1>7, <1>9, <2>1, <2>2 DEF Overwritten
<1>12. Len(x) = place /\ \A p \in 1 .. place : x[p] = memory[p]
  BY <1>4 DEF IsPart
<1>13. Len(z) = n - (place + l) /\ \A p \in 1 .. n - (place + l) : z[p] = memory[(place + l) + p]
  BY <1>6 DEF IsPart
<1>14. Len(y) = place + l /\ (\A p \in 1 .. place : y[p] = x[p]) /\ \A p \in 1 .. l : y[place + p] = b[p]
  BY <1>2, <1>8, <1>12 DEF IsJoin
<1>15. /\ u \in Seq(Byte) /\ Len(u) = n
       /\ (\A p \in 1 .. place + l : u[p] = y[p]) /\ \A p \in 1 .. n - (place + l) : u[(place + l) + p] = z[p]
  BY <1>2, <1>10, <1>13, <1>14 DEF IsJoin
<1>16. ASSUME NEW p \in 1 .. n
       PROVE  u[p] = IF p <= place \/ p > place + l THEN memory[p] ELSE b[p - place]
  <2>1. CASE p <= place
    BY <1>12, <1>14, <1>15, <2>1
  <2>2. CASE p > place /\ p <= place + l
    <3>1. PICK i \in 1 .. l : i = p - place /\ place + i = p
      <4>1. p - place \in 1 .. l /\ place + (p - place) = p
        BY <2>2
      <4> QED
        BY <4>1
    <3>2. y[p] = b[i] /\ p \in 1 .. place + l
      BY <1>14, <2>2, <3>1
    <3> QED
      BY <1>15, <2>2, <3>1, <3>2
  <2>3. CASE p > place + l
    <3>1. PICK i \in 1 .. n - (place + l) : (place + l) + i = p
      <4>1. p - (place + l) \in 1 .. n - (place + l) /\ (place + l) + (p - (place + l)) = p
        BY <2>3
      <4> QED
        BY <4>1
    <3> QED
      BY <1>13, <1>15, <2>3, <3>1
  <2> QED
    BY <2>1, <2>2, <2>3
<1> QED
  BY <1>2, <1>11, <1>15, <1>16 DEF Bytes

(* The bytes of a chunk in a call's input and in the inputs so far. *)
IsCall(c) == c.in \in Seq(Byte) /\ c.i \in Nat /\ BLOCK_SIZE * c.i <= Len(c.in)
SoFar(c) == SubSeq(c.in, 1, ChunkEnd(c))
ChunkIs(c, n, d) ==
  /\ n \in Nat /\ n = Len(Chunk(c)) /\ n <= BLOCK_SIZE /\ Chunk(c) \in Seq(Byte)
  /\ d \in Nat /\ d = BLOCK_SIZE * c.i /\ ChunkEnd(c) = d + n
  /\ SoFar(c) \in Seq(Byte) /\ Len(SoFar(c)) = d + n
  /\ \A p \in 1 .. n : Chunk(c)[p] = SoFar(c)[d + p]

(* A chunk of a call is the input from BLOCK_SIZE * i, BLOCK_SIZE bytes of *)
(* it unless it is the last one.                                           *)
LEMMA ChunkBytes ==
  ASSUME NEW c, IsCall(c)
  PROVE  \E n, d : ChunkIs(c, n, d) /\ Multiple(16, d) /\ Multiple(64, d) /\ (LastChunk(c) => d + n = Len(c.in))
                   /\ (~LastChunk(c) => n = BLOCK_SIZE /\ d + n < Len(c.in))
<1>1. PICK in, i : in = c.in /\ i = c.i /\ in \in Seq(Byte) /\ i \in Nat /\ BLOCK_SIZE * i <= Len(in)
  BY DEF IsCall
<1>2. PICK M, q : M = BLOCK_SIZE /\ M \in Nat /\ q \in Nat /\ M = 64 * q
  <2>1. PICK M : M = BLOCK_SIZE
    OBVIOUS
  <2>2. M \in Nat /\ M % 64 = 0
    BY <2>1, ChunkAssumption, SMT
  <2>3. PICK q : q = M \div 64
    OBVIOUS
  <2>4. q \in Nat /\ M = 64 * q
    BY <2>2, <2>3, SMT
  <2> QED
    BY <2>1, <2>2, <2>4
<1>3. PICK d, e : d = M * i /\ e = M * (i + 1)
  OBVIOUS
<1>4. d \in Nat /\ e \in Nat /\ e = d + M /\ d <= Len(in) /\ Len(in) \in Nat
  BY <1>1, <1>2, <1>3, OneMore, SMTT(30)
<1>5. Multiple(16, d) /\ Multiple(64, d)
  <2>1. PICK r \in Nat : r = q * i
    BY <1>1, <1>2
  <2>2. d = 64 * r
    BY ONLY <1>1, <1>2, <1>3, <2>1, SMT
  <2>3. d = 16 * (4 * r) /\ 4 * r \in Nat
    BY <2>2
  <2> QED
    BY <2>2, <2>3, MultipleOf DEF BlockSizes
<1>6. PICK n : n = IF Len(in) < e THEN Len(in) - d ELSE M
  OBVIOUS
<1>7. n \in Nat /\ n <= M /\ ChunkEnd(c) = d + n /\ d + n <= Len(in)
  <2>1. ChunkEnd(c) = IF Len(in) < e THEN Len(in) ELSE e
    BY <1>1, <1>2, <1>3 DEF ChunkEnd
  <2> QED
    BY <1>2, <1>4, <1>6, <2>1
<1>8. PICK x, s : x = Part(in, d, d + n) /\ s = Part(in, 0, d + n)
  OBVIOUS
<1>9. IsPart(x, Byte, in, d, d + n)
  <2>1. d + n \in Nat /\ d <= d + n
    BY <1>4, <1>7
  <2> QED
    BY <1>1, <1>4, <1>7, <1>8, <2>1, PartIs
<1>10. IsPart(s, Byte, in, 0, d + n)
  <2>1. d + n \in Nat /\ 0 <= d + n /\ 0 \in Nat
    BY <1>4, <1>7
  <2> QED
    BY <1>1, <1>7, <1>8, <2>1, PartIs
<1>11. Chunk(c) = x /\ SoFar(c) = s
  <2>1. Chunk(c) = SubSeq(in, d + 1, d + n)
    BY <1>1, <1>2, <1>3, <1>7 DEF Chunk
  <2>2. SoFar(c) = SubSeq(in, 1, d + n)
    BY <1>1, <1>7 DEF SoFar
  <2> QED
    BY <1>8, <2>1, <2>2 DEF Part
<1>12. x \in Seq(Byte) /\ Len(x) = n /\ \A p \in 1 .. n : x[p] = in[d + p]
  BY <1>4, <1>7, <1>9 DEF IsPart
<1>13. s \in Seq(Byte) /\ Len(s) = d + n /\ \A p \in 1 .. d + n : s[p] = in[p]
  BY <1>4, <1>7, <1>10 DEF IsPart
<1>14. \A p \in 1 .. n : x[p] = s[d + p]
  BY <1>4, <1>7, <1>12, <1>13
<1>15. ChunkIs(c, n, d)
  BY <1>1, <1>2, <1>3, <1>4, <1>7, <1>11, <1>12, <1>13, <1>14 DEF ChunkIs
<1>16. LastChunk(c) <=> Len(in) <= e
  BY <1>1, <1>2, <1>3 DEF LastChunk
<1>17. (LastChunk(c) => d + n = Len(in)) /\ (~LastChunk(c) => n = M /\ d + n < Len(in))
  BY <1>2, <1>4, <1>6, <1>16
<1> QED
  BY <1>1, <1>2, <1>5, <1>15, <1>17

(* What thread j has written up to done[j] is ref[j], wherever it begins. *)
Holds(mem, stride, done_, N, ref) ==
  \A j \in 1 .. N : \A p \in 1 .. done_[j] : mem[stride * (j - 1) + p] = ref[j][p]

(* Where the part of a thread may reach. *)
Room(stride, done_, N, k, l) ==
  /\ done_[k] + l <= BLOCK_SIZE
  /\ N = 1 \/ (done_[k] + l <= stride /\ \A j \in 1 .. N : done_[j] <= stride)

Fits(n, N, stride, k, d, l, place) == n = N * BLOCK_SIZE /\ place = stride * (k - 1) + d /\ d + l <= BLOCK_SIZE

WrittenOver(new, mem, n, place, b) ==
  /\ place \in Nat /\ n \in Nat /\ place + Len(b) <= n /\ new \in Bytes(n)
  /\ \A p \in 1 .. n : new[p] = IF p <= place \/ p > place + Len(b) THEN mem[p] ELSE b[p - place]

(* What a thread's block changes in the memory, ... *)
LEMMA MemoryTyped ==
  ASSUME NEW N \in Nat, NEW n, NEW mem \in Bytes(n), NEW stride \in Nat, stride <= BLOCK_SIZE,
         NEW k \in 1 .. N, NEW d \in Nat, NEW b \in Seq(Byte), NEW place, Fits(n, N, stride, k, d, Len(b), place)
  PROVE  WrittenOver(Overwritten(mem, place, b), mem, n, place, b)
<1>1. PICK M \in Nat : M = BLOCK_SIZE
  BY ChunkAssumption
<1>2. PICK base : base = stride * (k - 1)
  OBVIOUS
<1>3. base \in Nat /\ n \in Nat /\ base + M <= n
  BY <1>1, <1>2, Inside DEF Fits
<1>4. place = base + d /\ d + Len(b) <= M /\ Len(b) \in Nat
  BY <1>1, <1>2 DEF Fits
<1>5. place \in Nat /\ place + Len(b) <= n
  BY ONLY <1>1, <1>3, <1>4, d \in Nat
<1> QED
  BY <1>3, <1>5, OverwrittenIs DEF WrittenOver

(* ... which keeps what all threads have written, unless several write     *)
(* over their part's end.                                                  *)
LEMMA MemoryHolds ==
  ASSUME NEW N \in Nat, NEW size_, NEW mem \in Bytes(size_), NEW stride \in Nat, stride <= BLOCK_SIZE,
         NEW done_ \in [1 .. N -> Nat], NEW k \in 1 .. N, NEW b \in Seq(Byte), Room(stride, done_, N, k, Len(b)),
         NEW place, Fits(size_, N, stride, k, done_[k], Len(b), place),
         NEW ref, Holds(mem, stride, done_, N, ref), \A i \in 1 .. Len(b) : b[i] = ref[k][done_[k] + i],
         \A j \in 1 .. N : done_[j] <= BLOCK_SIZE, NEW after, after = [done_ EXCEPT ![k] = @ + Len(b)]
  PROVE  Holds(Overwritten(mem, place, b), stride, after, N, ref)
<1>1. PICK M, base, n, l, d : M = BLOCK_SIZE /\ base = stride * (k - 1) /\ n = size_ /\ l = Len(b) /\ d = done_[k]
  OBVIOUS
<1>2. mem \in Bytes(n) /\ place = base + d
  BY <1>1 DEF Fits
<1>3. M \in Nat /\ base \in Nat /\ n \in Nat /\ l \in Nat /\ d \in Nat /\ base + M <= n
  <2>1. M \in Nat /\ l \in Nat /\ d \in Nat /\ stride <= M
    BY <1>1, ChunkAssumption
  <2>2. Total(n, N, M) /\ BeginsAt(base, stride, k)
    BY <1>1 DEF Fits, Total, BeginsAt
  <2> QED
    BY <2>1, <2>2, PartInside
<1>4. PICK y : y = Overwritten(mem, base + d, b)
  OBVIOUS
<1>5. d + l <= M
  BY <1>1 DEF Room
<1>6. /\ base + d \in Nat /\ (base + d) + l <= n
      /\ \A p \in 1 .. n : y[p] = IF p <= base + d \/ p > (base + d) + l THEN mem[p] ELSE b[p - (base + d)]
  <2>1. Fits(n, N, stride, k, d, Len(b), place)
    BY <1>1 DEF Fits
  <2>2. d \in Nat /\ mem \in Bytes(n)
    BY <1>3, <1>2
  <2>3. WrittenOver(Overwritten(mem, place, b), mem, n, place, b)
    BY <2>1, <2>2, MemoryTyped
  <2>4. PICK z : z = Overwritten(mem, place, b) /\ WrittenOver(z, mem, n, place, b)
    BY <2>3
  <2>5. y = z
    BY <1>4, <1>2, <2>4
  <2> QED
    BY <1>1, <1>2, <2>4, <2>5 DEF WrittenOver
<1>7. PICK e : e = [done_ EXCEPT ![k] = @ + Len(b)]
  OBVIOUS
<1>8. e[k] = d + l /\ \A j \in 1 .. N : j # k => e[j] = done_[j]
  BY <1>1, <1>7
<1>9. ASSUME NEW j \in 1 .. N, NEW p \in 1 .. e[j]
      PROVE  y[stride * (j - 1) + p] = ref[j][p]
  <2>1. CASE j = k
    <3>1. p \in 1 .. d + l /\ base + p \in 1 .. n
      <4>1. p \in 1 .. d + l
        BY <1>8, <2>1
      <4> QED
        BY ONLY <1>3, <1>5, <4>1
    <3>2. CASE p <= d
      <4>1. y[base + p] = mem[base + p]
        <5>1. base + p <= base + d
          BY ONLY <1>3, <3>1, <3>2
        <5> QED
          BY <1>6, <3>1, <5>1
      <4>2. p \in 1 .. done_[k]
        BY <1>1, <1>3, <3>1, <3>2
      <4>3. mem[stride * (k - 1) + p] = ref[k][p]
        BY <4>2 DEF Holds
      <4> QED
        BY <1>1, <2>1, <4>1, <4>3
    <3>3. CASE ~(p <= d)
      <4>1. PICK i \in 1 .. l : p = d + i
        <5>1. p - d \in 1 .. l /\ p = d + (p - d)
          BY ONLY <1>3, <3>1, <3>3
        <5> QED
          BY <5>1
      <4>2. y[base + p] = b[i]
        <5>1. ~(base + p <= base + d \/ base + p > (base + d) + l) /\ (base + p) - (base + d) = i
          BY ONLY <1>3, <4>1
        <5> QED
          BY <1>6, <3>1, <5>1
      <4>3. b[i] = ref[k][d + i]
        BY <1>1, <4>1
      <4> QED
        BY <1>1, <2>1, <4>1, <4>2, <4>3
    <3> QED
      BY <3>2, <3>3
  <2>2. CASE j # k
    <3>1. PICK o : o = stride * (j - 1)
      OBVIOUS
    <3>2. o \in Nat /\ o + M <= n
      <4>1. stride <= M
        BY <1>1
      <4>2. Total(n, N, M) /\ BeginsAt(o, stride, j)
        BY <1>1, <3>1 DEF Fits, Total, BeginsAt
      <4> QED
        BY <1>1, <1>3, <3>1, <4>1, <4>2, PartInside
    <3>3. p \in 1 .. done_[j] /\ done_[j] \in Nat
      BY <1>8, <2>2
    <3>4. mem[o + p] = ref[j][p]
      BY <3>1, <3>3 DEF Holds
    <3>5. d + l <= stride /\ done_[j] <= stride
      <4>1. N # 1
        BY <2>2
      <4> QED
        BY <1>1, <4>1 DEF Room
    <3>6. p \in Nat /\ p > 0 /\ p <= done_[j] /\ done_[j] <= M
      BY <1>1, <3>3
    <3>7. o + p \in 1 .. n
      BY ONLY <1>3, <3>2, <3>3, <3>6
    <3>8. o + p <= base + d \/ o + p > (base + d) + l
      <4>1. CASE j < k
        <5>1. o + stride <= base
          <6>1. j \in Nat /\ k \in Nat /\ j > 0
            OBVIOUS
          <6> QED
            BY <1>1, <3>1, <4>1, <6>1, Apart
        <5> QED
          BY ONLY <1>3, <3>2, <3>3, <3>5, <3>6, <5>1, stride \in Nat
      <4>2. CASE k < j
        <5>1. base + stride <= o
          <6>1. j \in Nat /\ k \in Nat /\ k > 0
            OBVIOUS
          <6> QED
            BY <1>1, <3>1, <4>2, <6>1, Apart
        <5> QED
          BY ONLY <1>3, <3>2, <3>3, <3>5, <3>6, <5>1, stride \in Nat
      <4> QED
        BY <2>2, <4>1, <4>2
    <3> QED
      BY <1>6, <3>1, <3>4, <3>7, <3>8
  <2> QED
    BY <2>1, <2>2
<1>10. Holds(y, stride, e, N, ref)
  BY <1>9 DEF Holds
<1> QED
  BY <1>4, <1>7, <1>10, <1>2

-----------------------------------------------------------------------------
(* A thread's next block of CBC. *)
LEMMA MultipleNext ==
  ASSUME NEW w \in BlockSizes, NEW a, NEW b, Multiple(w, a), Multiple(w, b)
  PROVE  a \in Nat /\ b \in Nat /\ (a < b => a + w <= b) /\ (a < b + w => a <= b)
<1>1. CASE w = 16
  BY <1>1, SMT DEF Multiple
<1>2. CASE w = 64
  BY <1>2, SMT DEF Multiple
<1> QED
  BY <1>1, <1>2 DEF BlockSizes

(* A place in the stream lies in one of its blocks. *)
LEMMA BlocksCover ==
  ASSUME NEW w \in BlockSizes, NEW n \in Nat, NEW r \in Nat
  PROVE  (w * r < n + w => r <= Blocks(w, n)) /\ (w * r < n => r + 1 <= Blocks(w, n))
<1>1. CASE w = 16
  BY <1>1, SMT DEF Blocks
<1>2. CASE w = 64
  BY <1>2, SMT DEF Blocks
<1> QED
  BY <1>1, <1>2 DEF BlockSizes

(* Byte p, from one, of the ciphertext of the stream with the blocks B. *)
StreamByte(B, w, p) == B[((p - 1) \div w) + 2][((p - 1) % w) + 1]

(* Place i of block r, from none. *)
PlaceOfByte(w, r, i, p) == p = w * r + i

(* A byte of the ciphertext, by its block. *)
LEMMA StreamByteIs ==
  ASSUME NEW w \in BlockSizes, NEW B, NEW r \in Nat, NEW i \in 1 .. w, NEW p, PlaceOfByte(w, r, i, p)
  PROVE  StreamByte(B, w, p) = B[r + 2][i]
<1>1. w * r \in Nat /\ (w * r + (i - 1)) \div w = r /\ (w * r + (i - 1)) % w = i - 1
  <2>1. i - 1 \in 0 .. w - 1
    BY DEF BlockSizes
  <2> QED
    BY <2>1, PlaceWhole
<1>2. p - 1 = w * r + (i - 1) /\ (i - 1) + 1 = i
  BY <1>1 DEF BlockSizes, PlaceOfByte
<1> QED
  BY <1>1, <1>2 DEF StreamByte

(* The chunk ch of the stream s that begins at byte o. *)
ChunkOf(ch, s, w, o) ==
  /\ s \in Seq(Byte) /\ ch \in Seq(Byte) /\ Multiple(w, o) /\ Len(s) = o + Len(ch)
  /\ \A p \in 1 .. Len(ch) : ch[p] = s[o + p]

(* The thread's part at base holds d bytes of the ciphertext. *)
Written_(mem, base, d, B, w, o) ==
  /\ mem \in Seq(Byte) /\ base \in Nat /\ base + d <= Len(mem)
  /\ \A p \in 1 .. d : mem[base + p] = StreamByte(B, w, o + p)

(* The block a thread reads back is the last one it wrote ... *)
LEMMA ReadBack ==
  ASSUME NEW m \in CbcModes, NEW k \in DOMAIN KeyBytes, NEW w, w = CipherBlock(m),
         NEW s, NEW ch, NEW o, ChunkOf(ch, s, w, o), NEW B, IsStream(B, m, k, s),
         NEW d, Multiple(w, d), d > 0, d < Len(ch) + w,
         NEW mem, NEW base, Written_(mem, base, d, B, w, o)
  PROVE  SubSeq(mem, base + d - w + 1, base + d) = B[((o + d) \div w) + 1]
<1>1. w \in BlockSizes /\ w \in Nat /\ w > 0
  BY CipherBlockIs DEF BlockSizes
<1>2. o \in Nat /\ d \in Nat /\ Len(ch) \in Nat /\ Len(s) = o + Len(ch) /\ Len(s) \in Nat /\ Multiple(w, o) /\ s \in Seq(Byte)
  BY DEF ChunkOf, Multiple
<1>3. /\ mem \in Seq(Byte) /\ base \in Nat /\ base + d <= Len(mem)
       /\ \A p \in 1 .. d : mem[base + p] = StreamByte(B, w, o + p)
  BY DEF Written_
<1>4. PICK r \in Nat : o + d = w * r /\ (o + d) \div w = r
  <2>1. Multiple(w, o + d)
    BY <1>1, <1>2, MultipleSum
  <2> QED
    BY <1>1, <2>1, MultipleIs
<1>5. w <= d
  <2>1. Multiple(w, w * 0) /\ w * 0 = 0
    BY <1>1, MultipleOf
  <2>2. Multiple(w, 0) /\ 0 < d
    BY <2>1
  <2>3. 0 + w <= d
    BY <1>1, <2>2, MultipleNext
  <2> QED
    BY <1>1, <1>2, <2>3
<1>6. r > 0
  BY <1>1, <1>2, <1>4
<1>7. PICK q \in Nat : q = r - 1 /\ w * q \in Nat /\ w * q + w = o + d
  <2>1. r - 1 \in Nat /\ r \in 1 .. r
    BY <1>6
  <2>2. w * (r - 1) \in Nat /\ w * (r - 1) + w = w * r
    BY <1>1, <2>1, BlockFits
  <2> QED
    BY <1>4, <2>1, <2>2
<1>8. r <= Blocks(w, Len(s)) /\ Blocks(w, Len(s)) \in Nat
  <2>1. w * r < Len(s) + w
    <3>1. o + d < (o + Len(ch)) + w
      BY <1>1, <1>2
    <3> QED
      BY <1>2, <1>4, <3>1
  <2>2. Blocks(w, Len(s)) \in Nat
    BY <1>1, <1>2, BlocksAre
  <2> QED
    BY <1>1, <1>2, <2>1, <2>2, BlocksCover
<1>9. B[r + 1] \in Bytes(w)
  <2>1. r + 1 \in 1 .. Blocks(w, Len(s)) + 1
    BY <1>8
  <2> QED
    BY <1>2, <2>1, StreamBlock
<1>10. PICK b : b = B[r + 1] /\ b \in Seq(Byte) /\ Len(b) = w
  BY <1>1, <1>9, BytesHave
<1>11. PICK u, v : u = base + d - w /\ v = base + d
  OBVIOUS
<1>12. u \in Nat /\ v \in Nat /\ u <= v /\ v <= Len(mem) /\ v - u = w
  BY <1>1, <1>2, <1>5, <1>11, <1>3, SMTT(30)
<1>13. PICK x : x = Part(mem, u, v)
  OBVIOUS
<1>14. IsPart(x, Byte, mem, u, v)
  BY <1>12, <1>13, <1>3, PartIs
<1>15. x \in Seq(Byte) /\ Len(x) = w /\ \A i \in 1 .. w : x[i] = mem[u + i]
  BY <1>12, <1>14 DEF IsPart
<1>16. ASSUME NEW i \in 1 .. w
       PROVE  x[i] = b[i]
  <2>1. PICK p : p = (d - w) + i
    OBVIOUS
  <2>2. p \in 1 .. d /\ u + i = base + p
    BY ONLY <1>1, <1>2, <1>5, <1>11, <2>1, i \in 1 .. w, <1>3
  <2>3. mem[u + i] = StreamByte(B, w, o + p)
    BY <1>3, <2>2
  <2>4. o + p = w * q + i
    <3>1. PICK z : z = w * q
      OBVIOUS
    <3>2. z \in Nat /\ z + w = o + d
      BY <1>7, <3>1
    <3>3. o + p = z + i
      BY ONLY <1>1, <1>2, <2>1, <3>2, i \in 1 .. w
    <3> QED
      BY <3>1, <3>3
  <2>5. StreamByte(B, w, o + p) = B[q + 2][i]
    <3>1. q \in Nat /\ w \in BlockSizes
      BY <1>1, <1>7
    <3>2. PICK z : z = o + p
      OBVIOUS
    <3>3. PlaceOfByte(w, q, i, z)
      BY <2>4, <3>2 DEF PlaceOfByte
    <3>4. StreamByte(B, w, z) = B[q + 2][i]
      BY <3>1, <3>3, StreamByteIs
    <3> QED
      BY <3>2, <3>4
  <2>6. q + 2 = r + 1
    BY <1>7
  <2> QED
    BY <1>10, <1>15, <2>3, <2>5, <2>6
<1>17. x = b
  BY <1>10, <1>15, <1>16, SameSeq
<1> QED
  BY <1>4, <1>10, <1>11, <1>13, <1>17 DEF Part

(* ... and the block it writes is the stream's next. *)
LEMMA WritesNext ==
  ASSUME NEW m \in CbcModes, NEW k \in DOMAIN KeyBytes, NEW w, w = CipherBlock(m),
         NEW s, NEW ch, NEW o, ChunkOf(ch, s, w, o), NEW B, IsStream(B, m, k, s),
         NEW d, Multiple(w, d), d < Len(ch), NEW b,
         b = CbcBlock(m, Schedules[k], ch, d, B[((o + d) \div w) + 1])
  PROVE  \A i \in 1 .. w : b[i] = StreamByte(B, w, (o + d) + i)
<1>1. w \in BlockSizes /\ w \in Nat /\ w > 0
  BY CipherBlockIs DEF BlockSizes
<1>2. o \in Nat /\ d \in Nat /\ Len(ch) \in Nat /\ Len(s) = o + Len(ch) /\ Len(s) \in Nat /\ Multiple(w, o)
      /\ s \in Seq(Byte) /\ ch \in Seq(Byte)
  BY DEF ChunkOf, Multiple
<1>3. PICK r \in Nat : o + d = w * r /\ (o + d) \div w = r
  <2>1. Multiple(w, o + d)
    BY <1>1, <1>2, MultipleSum
  <2> QED
    BY <1>1, <2>1, MultipleIs
<1>4. r + 1 <= Blocks(w, Len(s)) /\ Blocks(w, Len(s)) \in Nat
  <2>1. w * r < Len(s)
    BY <1>2, <1>3
  <2>2. Blocks(w, Len(s)) \in Nat
    BY <1>1, <1>2, BlocksAre
  <2> QED
    BY <1>1, <1>2, <2>1, <2>2, BlocksCover
<1>5. PICK iv : iv = B[r + 1]
  OBVIOUS
<1>6. iv \in Bytes(w)
  <2>1. r + 1 \in 1 .. Blocks(w, Len(s)) + 1
    BY <1>4
  <2> QED
    BY <1>2, <1>5, <2>1, StreamBlock
<1>7. B[r + 2] = CbcBlock(m, Schedules[k], s, w * r, iv)
  <2>1. r + 1 \in 1 .. Blocks(w, Len(s)) /\ (r + 1) - 1 = r /\ (r + 1) + 1 = r + 2
    BY <1>4
  <2> QED
    BY <1>5, <2>1 DEF IsStream
<1>8. PICK e : e = w * r
  OBVIOUS
<1>9. e = o + d
  BY <1>3, <1>8
<1>10. SameAhead(ch, d, s, e, w)
  <2>1. ASSUME NEW i \in 1 .. w
        PROVE  (d + i <= Len(ch) <=> e + i <= Len(s)) /\ (d + i <= Len(ch) => ch[d + i] = s[e + i])
    <3>1. d + i <= Len(ch) <=> e + i <= Len(s)
      BY <1>1, <1>2, <1>9
    <3>2. d + i <= Len(ch) => d + i \in 1 .. Len(ch) /\ o + (d + i) = e + i
      BY <1>1, <1>2, <1>9
    <3>3. d + i <= Len(ch) => ch[d + i] = s[o + (d + i)]
      BY <3>2 DEF ChunkOf
    <3> QED
      BY <3>1, <3>2, <3>3
  <2> QED
    BY <2>1 DEF SameAhead
<1>11. Mixed(ch, d, iv) = Mixed(s, e, iv)
  BY <1>1, <1>6, <1>10, MixedSame
<1>12. b = B[r + 2]
  BY <1>3, <1>5, <1>7, <1>8, <1>11 DEF CbcBlock
<1>13. ASSUME NEW i \in 1 .. w
       PROVE  b[i] = StreamByte(B, w, (o + d) + i)
  <2>1. PlaceOfByte(w, r, i, (o + d) + i)
    BY <1>3 DEF PlaceOfByte
  <2> QED
    BY <1>1, <1>12, <2>1, StreamByteIs
<1> QED
  BY <1>13

-----------------------------------------------------------------------------
(* A call on its way: m the function, N the keys, gv the inputs before, c  *)
(* the call, mem the output memory, done_ what each thread has done.       *)
StrideFor(m, c) == IF m = "sample" THEN BLOCK_SIZE ELSE Len(Chunk(c))
AloneFor(m, N) == N = 1 \/ m = "sample"
WholeFor(m, N, inputs) ==
  \A i \in DOMAIN inputs : Len(inputs[i]) % CipherBlock(m) = 0 \/ (i = Len(inputs) /\ AloneFor(m, N))
Known(m, N) == m \in CbcModes \union {"ctr"} /\ N \in Nat /\ N <= Len(KeyBytes)
CallState(N, gv, c, mem, done_) ==
  /\ gv \in Seq(Seq(Byte)) /\ IsCall(c) /\ c.start = Len(Joined(gv))
  /\ mem \in Bytes(N * BLOCK_SIZE) /\ done_ \in [1 .. N -> Nat]
CbcDone(m, N, c, fin, done_) ==
  \A k \in 1 .. N : /\ Multiple(CipherBlock(m), done_[k]) /\ done_[k] < Len(Chunk(c)) + CipherBlock(m)
                    /\ k \in fin => done_[k] >= Len(Chunk(c))

(* What all inputs but the last one are, and the last with several keys. *)
LEMMA WholeAppend ==
  ASSUME NEW m, NEW N, NEW gv \in Seq(Seq(Byte)), NEW x \in Seq(Byte), WholeFor(m, N, Append(gv, x))
  PROVE  /\ \A i \in DOMAIN gv : Multiple(CipherBlock(m), Len(gv[i]))
         /\ AloneFor(m, N) \/ Multiple(CipherBlock(m), Len(x))
<1>1. PICK t, n : t = Append(gv, x) /\ n = Len(gv)
  OBVIOUS
<1>2. n \in Nat /\ DOMAIN gv = 1 .. n /\ DOMAIN t = 1 .. n + 1 /\ Len(t) = n + 1 /\ t[n + 1] = x /\ \A i \in 1 .. n : t[i] = gv[i]
  BY <1>1
<1>3. \A i \in 1 .. n + 1 : Len(t[i]) % CipherBlock(m) = 0 \/ (i = n + 1 /\ AloneFor(m, N))
  BY <1>1, <1>2 DEF WholeFor
<1>4. ASSUME NEW i \in 1 .. n
      PROVE  Multiple(CipherBlock(m), Len(gv[i]))
  <2>1. gv[i] \in Seq(Byte) /\ t[i] = gv[i] /\ i \in 1 .. n + 1 /\ i # n + 1
    BY <1>1, <1>2
  <2>2. Len(gv[i]) \in Nat /\ Len(gv[i]) % CipherBlock(m) = 0
    BY <1>3, <2>1
  <2> QED
    BY <2>2 DEF Multiple
<1>5. AloneFor(m, N) \/ Multiple(CipherBlock(m), Len(x))
  <2>1. n + 1 \in 1 .. n + 1 /\ Len(x) \in Nat
    BY <1>2
  <2> QED
    BY <1>2, <1>3, <2>1 DEF Multiple
<1> QED
  BY <1>2, <1>4, <1>5

(* ... and when these are whole, so are all the inputs. *)
LEMMA WholeIf ==
  ASSUME NEW m, NEW N, NEW gv \in Seq(Seq(Byte)), NEW x \in Seq(Byte),
         \A i \in DOMAIN gv : Multiple(CipherBlock(m), Len(gv[i])), AloneFor(m, N) \/ Multiple(CipherBlock(m), Len(x))
  PROVE  WholeFor(m, N, Append(gv, x)) /\ WholeFor(m, N, gv)
<1>1. PICK t, n : t = Append(gv, x) /\ n = Len(gv)
  OBVIOUS
<1>2. n \in Nat /\ DOMAIN gv = 1 .. n /\ DOMAIN t = 1 .. n + 1 /\ Len(t) = n + 1 /\ t[n + 1] = x /\ \A i \in 1 .. n : t[i] = gv[i]
  BY <1>1
<1>3. \A i \in 1 .. n : Len(gv[i]) % CipherBlock(m) = 0
  BY <1>2 DEF Multiple
<1>4. AloneFor(m, N) \/ Len(x) % CipherBlock(m) = 0
  BY DEF Multiple
<1>5. ASSUME NEW i \in 1 .. n + 1
      PROVE  Len(t[i]) % CipherBlock(m) = 0 \/ (i = n + 1 /\ AloneFor(m, N))
  <2>1. CASE i = n + 1
    BY <1>2, <1>4, <2>1
  <2>2. CASE i # n + 1
    <3>1. i \in 1 .. n
      BY <1>2, <2>2
    <3> QED
      BY <1>2, <1>3, <3>1
  <2> QED
    BY <2>1, <2>2
<1> QED
  BY <1>1, <1>2, <1>3, <1>5 DEF WholeFor

(* The rest of a multiple. *)
LEMMA MultipleRest ==
  ASSUME NEW w \in BlockSizes, NEW d, NEW n \in Nat, Multiple(w, d), Multiple(w, d + n)
  PROVE  Multiple(w, n)
<1>1. CASE w = 16
  BY <1>1, SMT DEF Multiple
<1>2. CASE w = 64
  BY <1>2, SMT DEF Multiple
<1> QED
  BY <1>1, <1>2 DEF BlockSizes

(* The whole input so far and its chunk. *)
LEMMA CallStream ==
  ASSUME NEW m \in CbcModes, NEW N, NEW gv, NEW c, NEW mem, NEW done_, CallState(N, gv, c, mem, done_),
         WholeFor(m, N, Append(gv, SoFar(c))), NEW s, s = Joined(Append(gv, SoFar(c))), NEW w, w = CipherBlock(m)
  PROVE  /\ ChunkOf(Chunk(c), s, w, Offset(c)) /\ (AloneFor(m, N) \/ Multiple(w, Len(Chunk(c))))
         /\ \A k \in DOMAIN KeyBytes : IsStream(StreamFor(m, k, s), m, k, s)
<1>1. w \in BlockSizes
  BY CipherBlockIs
<1>2. IsCall(c) /\ gv \in Seq(Seq(Byte)) /\ c.start = Len(Joined(gv))
  BY DEF CallState
<1>3. PICK n, d : ChunkIs(c, n, d) /\ Multiple(16, d) /\ Multiple(64, d)
  BY <1>2, ChunkBytes
<1>4. PICK x, ch : x = SoFar(c) /\ ch = Chunk(c)
  OBVIOUS
<1>5. /\ n \in Nat /\ d \in Nat /\ x \in Seq(Byte) /\ Len(x) = d + n /\ ch \in Seq(Byte) /\ Len(ch) = n
      /\ (\A p \in 1 .. n : ch[p] = x[d + p]) /\ d = BLOCK_SIZE * c.i
  BY <1>3, <1>4 DEF ChunkIs
<1>6. Multiple(w, d)
  BY <1>1, <1>3 DEF BlockSizes
<1>7. /\ \A i \in DOMAIN gv : Multiple(w, Len(gv[i]))
      /\ AloneFor(m, N) \/ Multiple(w, d + n)
  BY <1>2, <1>4, <1>5, WholeAppend
<1>8. PICK g, l : g = Joined(gv) /\ l = Len(g)
  OBVIOUS
<1>9. g \in Seq(Byte) /\ l \in Nat
  BY <1>2, <1>8, JoinedIs
<1>10. Multiple(w, l)
  BY <1>1, <1>2, <1>7, <1>8, JoinedMultiple
<1>11. s = g \o x
  BY <1>2, <1>4, <1>5, <1>8, JoinedAppend
<1>12. IsJoin(s, Byte, g, x)
  BY <1>5, <1>9, <1>11, JoinIs
<1>13. Offset(c) = d + l
  BY <1>2, <1>5, <1>8 DEF Offset
<1>14. Multiple(w, d + l)
  BY <1>1, <1>6, <1>10, MultipleSum
<1>15. s \in Seq(Byte) /\ Len(s) = (d + l) + n
  <2>1. Len(s) = l + (d + n) /\ s \in Seq(Byte)
    BY <1>5, <1>8, <1>12 DEF IsJoin
  <2> QED
    BY <1>5, <1>9, <2>1
<1>16. ASSUME NEW p \in 1 .. n
       PROVE  ch[p] = s[(d + l) + p]
  <2>1. d + p \in 1 .. d + n /\ l + (d + p) = (d + l) + p
    <3>1. d \in Nat /\ n \in Nat /\ l \in Nat
      BY <1>5, <1>9
    <3>2. p \in Nat /\ 1 <= p /\ p <= n
      BY <3>1
    <3> QED
      BY ONLY <3>1, <3>2
  <2>2. s[l + (d + p)] = x[d + p]
    BY <1>5, <1>8, <1>12, <2>1 DEF IsJoin
  <2> QED
    BY <1>5, <2>1, <2>2
<1>17. ChunkOf(ch, s, w, d + l)
  BY <1>5, <1>14, <1>15, <1>16 DEF ChunkOf
<1>18. AloneFor(m, N) \/ Multiple(w, n)
  BY <1>1, <1>5, <1>6, <1>7, MultipleRest
<1>19. \A k \in DOMAIN KeyBytes : IsStream(StreamFor(m, k, s), m, k, s)
  BY <1>15, StreamIs
<1> QED
  BY <1>4, <1>5, <1>13, <1>17, <1>18, <1>19

(* The chaining block of a thread that has done d bytes of its chunk. *)
ChainFor(w, iv, mem, place, d, k) == IF d = 0 THEN iv[k] ELSE SubSeq(mem, place - w + 1, place)

(* The lengths of chunks and of the threads' parts. *)
LEMMA ChunkSizes ==
  ASSUME NEW m, NEW c, IsCall(c)
  PROVE  /\ Len(Chunk(c)) \in Nat /\ Chunk(c) \in Seq(Byte) /\ Len(Chunk(c)) <= StrideFor(m, c)
         /\ StrideFor(m, c) \in Nat /\ StrideFor(m, c) <= BLOCK_SIZE /\ BLOCK_SIZE \in Nat
<1>1. PICK n, d : ChunkIs(c, n, d)
  BY ChunkBytes
<1>2. BLOCK_SIZE \in Nat
  BY ChunkAssumption
<1>3. n \in Nat /\ n = Len(Chunk(c)) /\ n <= BLOCK_SIZE /\ Chunk(c) \in Seq(Byte)
  BY <1>1 DEF ChunkIs
<1> QED
  BY <1>2, <1>3 DEF StrideFor

(* A chunk is whole blocks of either cipher. *)
LEMMA ChunkMultiple ==
  ASSUME NEW w \in BlockSizes
  PROVE  Multiple(w, BLOCK_SIZE)
<1>1. PICK M : M = BLOCK_SIZE
  OBVIOUS
<1>2. M \in Nat /\ M % 64 = 0
  BY <1>1, ChunkAssumption, SMT
<1>3. M % 16 = 0
  BY <1>2, SMT
<1> QED
  BY <1>1, <1>2, <1>3 DEF Multiple, BlockSizes

(* How far a thread of CBC gets. *)
LEMMA CbcSteps ==
  ASSUME NEW m \in CbcModes, NEW N, NEW c, IsCall(c), NEW fin, NEW done_ \in [1 .. N -> Nat], CbcDone(m, N, c, fin, done_),
         NEW w, w = CipherBlock(m), NEW k \in 1 .. N
  PROVE  /\ done_[k] \in Nat /\ Multiple(w, done_[k]) /\ done_[k] <= BLOCK_SIZE /\ done_[k] < Len(Chunk(c)) + w
         /\ Multiple(w, Len(Chunk(c))) => done_[k] <= Len(Chunk(c))
         /\ done_[k] < Len(Chunk(c)) => /\ done_[k] + w <= BLOCK_SIZE /\ k \notin fin
                                        /\ Multiple(w, Len(Chunk(c))) => done_[k] + w <= Len(Chunk(c))
<1>1. w \in BlockSizes /\ w \in Nat
  BY CipherBlockIs
<1>2. PICK n : n = Len(Chunk(c)) /\ n \in Nat /\ n <= BLOCK_SIZE /\ BLOCK_SIZE \in Nat
  BY ChunkSizes
<1>3. PICK d : d = done_[k] /\ d \in Nat /\ Multiple(w, d) /\ d < n + w /\ (k \in fin => d >= n)
  BY <1>2 DEF CbcDone
<1>4. Multiple(w, BLOCK_SIZE)
  BY <1>1, ChunkMultiple
<1>5. d <= BLOCK_SIZE
  <2>1. d < BLOCK_SIZE + w
    BY <1>1, <1>2, <1>3
  <2> QED
    BY <1>1, <1>3, <1>4, <2>1, MultipleNext
<1>6. Multiple(w, n) => d <= n
  BY <1>1, <1>3, MultipleNext
<1>7. d < n => d + w <= BLOCK_SIZE
  <2>1. d < n => d < BLOCK_SIZE
    BY <1>2, <1>3
  <2> QED
    BY <1>1, <1>3, <1>4, <2>1, MultipleNext
<1>8. d < n /\ Multiple(w, n) => d + w <= n
  BY <1>1, <1>3, MultipleNext
<1>9. d < n => k \notin fin
  BY <1>2, <1>3
<1> QED
  BY <1>2, <1>3, <1>5, <1>6, <1>7, <1>8, <1>9

(* A thread one block on. *)
LEMMA CbcDoneNext ==
  ASSUME NEW m \in CbcModes, NEW N, NEW c, IsCall(c), NEW fin, NEW done_ \in [1 .. N -> Nat], CbcDone(m, N, c, fin, done_),
         NEW w, w = CipherBlock(m), NEW k \in 1 .. N, done_[k] < Len(Chunk(c)), NEW e, e = [done_ EXCEPT ![k] = @ + w]
  PROVE  e \in [1 .. N -> Nat] /\ CbcDone(m, N, c, fin, e)
<1>1. w \in BlockSizes /\ w \in Nat /\ Multiple(w, w)
  <2>1. Multiple(w, w * 1) /\ w * 1 = w
    BY CipherBlockIs, MultipleOf DEF BlockSizes
  <2> QED
    BY <2>1, CipherBlockIs
<1>2. PICK n : n = Len(Chunk(c)) /\ n \in Nat
  BY ChunkSizes
<1>3. e[k] = done_[k] + w /\ \A j \in 1 .. N : j # k => e[j] = done_[j]
  OBVIOUS
<1>4. e \in [1 .. N -> Nat]
  BY <1>1
<1>5. ASSUME NEW j \in 1 .. N
      PROVE  Multiple(w, e[j]) /\ e[j] < n + w /\ (j \in fin => e[j] >= n)
  <2>1. CASE j = k
    <3>1. done_[k] \in Nat /\ Multiple(w, done_[k]) /\ k \notin fin
      BY CbcSteps
    <3>2. Multiple(w, done_[k] + w)
      BY <1>1, <3>1, MultipleSum
    <3>3. done_[k] + w < n + w
      BY <1>1, <1>2, <3>1
    <3> QED
      BY <1>3, <2>1, <3>1, <3>2, <3>3
  <2>2. CASE j # k
    BY <1>2, <1>3, <2>2 DEF CbcDone
  <2> QED
    BY <2>1, <2>2
<1> QED
  BY <1>2, <1>4, <1>5 DEF CbcDone

(* The chaining block and the block written are blocks. *)
LEMMA CbcTyped ==
  ASSUME NEW m \in CbcModes, NEW N, Known(m, N), NEW gv, NEW c, NEW mem, NEW done_, CallState(N, gv, c, mem, done_),
         NEW fin, CbcDone(m, N, c, fin, done_), NEW w, w = CipherBlock(m), NEW iv \in [1 .. N -> Bytes(w)],
         NEW k \in 1 .. N, NEW place, place = StrideFor(m, c) * (k - 1) + done_[k],
         NEW chain, chain = ChainFor(w, iv, mem, place, done_[k], k)
  PROVE  /\ chain \in Bytes(w)
         /\ CbcBlock(m, Schedules[k], Chunk(c), done_[k], chain) \in Bytes(w)
<1>1. w \in BlockSizes /\ w \in Nat /\ w > 0
  BY CipherBlockIs DEF BlockSizes
<1>2. N \in Nat /\ k \in DOMAIN KeyBytes
  <2>1. N \in Nat /\ N <= Len(KeyBytes)
    BY DEF Known
  <2> QED
    BY <2>1, KeyAssumption
<1>3. IsCall(c) /\ done_ \in [1 .. N -> Nat] /\ mem \in Bytes(N * BLOCK_SIZE)
  BY DEF CallState
<1>4. PICK stride, M, base, n, d : stride = StrideFor(m, c) /\ M = BLOCK_SIZE /\ base = stride * (k - 1) /\ n = N * M /\ d = done_[k]
  OBVIOUS
<1>5. stride \in Nat /\ M \in Nat /\ stride <= M
  BY <1>3, <1>4, ChunkSizes
<1>6. base \in Nat /\ n \in Nat /\ base + M <= n
  BY <1>2, <1>4, <1>5, Inside
<1>7. d \in Nat /\ Multiple(w, d) /\ d <= M
  BY <1>3, <1>4, CbcSteps
<1>8. chain \in Bytes(w)
  <2>1. CASE d = 0
    BY <1>4, <2>1 DEF ChainFor
  <2>2. CASE d # 0
    <3>1. w <= d
      <4>1. Multiple(w, w * 0) /\ w * 0 = 0
        BY <1>1, MultipleOf
      <4>2. Multiple(w, 0) /\ 0 < d
        BY <1>7, <2>2, <4>1
      <4>3. 0 + w <= d
        BY <1>1, <1>7, <4>2, MultipleNext
      <4> QED
        BY <1>1, <1>7, <4>3
    <3>2. PICK u : u = place - w
      OBVIOUS
    <3>3. place = base + d
      BY <1>4
    <3>4. u \in Nat /\ place \in Nat /\ u <= place /\ place <= n /\ place - u = w
      BY ONLY <1>1, <1>5, <1>6, <1>7, <3>1, <3>2, <3>3
    <3>5. mem \in Seq(Byte) /\ Len(mem) = n
      BY <1>3, <1>4 DEF Bytes
    <3>6. IsPart(Part(mem, u, place), Byte, mem, u, place)
      BY <3>4, <3>5, PartIs
    <3>7. chain = Part(mem, u, place)
      BY <1>4, <2>2, <3>2 DEF ChainFor, Part
    <3> QED
      BY <3>4, <3>6, <3>7 DEF IsPart, Bytes
  <2> QED
    BY <2>1, <2>2
<1>9. CbcBlock(m, Schedules[k], Chunk(c), d, chain) \in Bytes(w)
  <2>1. Schedules[k] \in AesKeys
    BY <1>2, SchedulesAre
  <2>2. Chunk(c) \in Seq(Byte)
    BY <1>3, ChunkSizes
  <2> QED
    BY <1>7, <1>8, <2>1, <2>2, CbcBlockIs
<1> QED
  BY <1>4, <1>8, <1>9

(* Key k's part of the output and its ivec, for the stream with blocks B. *)
CbcKey(B, w, o, fin, iv, mem, base, d, k) ==
  /\ k \in fin => iv[k] = B[Len(B)]
  /\ k \notin fin => iv[k] = B[(o \div w) + 1]
  /\ \A p \in 1 .. d : mem[base + p] = StreamByte(B, w, o + p)
CbcAt(m, N, gv, c, fin, iv, mem, done_) ==
  WholeFor(m, N, Append(gv, SoFar(c))) =>
    \A k \in 1 .. N : CbcKey(StreamFor(m, k, Joined(Append(gv, SoFar(c)))), CipherBlock(m), Offset(c), fin, iv, mem,
                             StrideFor(m, c) * (k - 1), done_[k], k)

(* What the threads' parts should hold. *)
CbcRef(m, N, s, w, o) == [j \in 1 .. N |-> [p \in Nat |-> StreamByte(StreamFor(m, j, s), w, o + p)]]

(* What a byte of a thread's part should be. *)
LEMMA CbcRefIs ==
  ASSUME NEW m, NEW N \in Nat, NEW s, NEW w, NEW o, NEW j \in 1 .. N, NEW p \in Nat
  PROVE  CbcRef(m, N, s, w, o)[j][p] = StreamByte(StreamFor(m, j, s), w, o + p)
  BY DEF CbcRef

(* A thread that has not ended, and the stream of its key. *)
ChainWaits(m, N, gv, c, fin, iv, mem, done_, w, k, s, B) ==
  /\ m \in CbcModes /\ Known(m, N) /\ CallState(N, gv, c, mem, done_) /\ CbcDone(m, N, c, fin, done_)
  /\ w = CipherBlock(m) /\ k \in 1 .. N /\ k \notin fin
  /\ ChunkOf(Chunk(c), s, w, Offset(c)) /\ IsStream(B, m, k, s)
  /\ CbcKey(B, w, Offset(c), fin, iv, mem, StrideFor(m, c) * (k - 1), done_[k], k)

(* The chaining block of a thread that has not ended is the stream's. *)
LEMMA ChainIsStreams ==
  ASSUME NEW m, NEW N, NEW gv, NEW c, NEW fin, NEW iv, NEW mem, NEW done_, NEW w, NEW k, NEW s, NEW B,
         ChainWaits(m, N, gv, c, fin, iv, mem, done_, w, k, s, B),
         NEW place, place = StrideFor(m, c) * (k - 1) + done_[k]
  PROVE  ChainFor(w, iv, mem, place, done_[k], k) = B[((Offset(c) + done_[k]) \div w) + 1]
<1>1. /\ m \in CbcModes /\ Known(m, N) /\ CallState(N, gv, c, mem, done_) /\ CbcDone(m, N, c, fin, done_)
      /\ w = CipherBlock(m) /\ k \in 1 .. N /\ k \notin fin
      /\ ChunkOf(Chunk(c), s, w, Offset(c)) /\ IsStream(B, m, k, s)
      /\ CbcKey(B, w, Offset(c), fin, iv, mem, StrideFor(m, c) * (k - 1), done_[k], k)
  BY DEF ChainWaits
<1>2. w \in BlockSizes /\ w \in Nat /\ w > 0
  BY <1>1, CipherBlockIs DEF BlockSizes
<1>3. N \in Nat /\ k \in DOMAIN KeyBytes
  <2>1. N \in Nat /\ N <= Len(KeyBytes)
    BY <1>1 DEF Known
  <2> QED
    BY <1>1, <2>1, KeyAssumption
<1>4. IsCall(c) /\ done_ \in [1 .. N -> Nat]
  BY <1>1 DEF CallState
<1>5. PICK stride, d, base, M, n, o, ch : stride = StrideFor(m, c) /\ d = done_[k] /\ base = stride * (k - 1) /\ M = BLOCK_SIZE
                                   /\ n = N * M /\ o = Offset(c) /\ ch = Chunk(c)
  OBVIOUS
<1>6. stride \in Nat /\ stride <= M /\ Len(ch) \in Nat /\ M \in Nat
  BY <1>1, <1>4, <1>5, ChunkSizes
<1>7. d \in Nat /\ d <= M /\ d < Len(ch) + w /\ Multiple(w, d)
  BY <1>1, <1>4, <1>5, CbcSteps
<1>8. n \in Nat /\ base \in Nat /\ base + M <= n
  <2>1. Total(n, N, M) /\ BeginsAt(base, stride, k)
    BY <1>1, <1>5 DEF Total, BeginsAt
  <2> QED
    BY <1>1, <1>3, <1>6, <2>1, PartInside
<1>9. mem \in Seq(Byte) /\ Len(mem) = n
  BY <1>1, <1>5 DEF CallState, Bytes
<1>10. iv[k] = B[(o \div w) + 1] /\ \A p \in 1 .. d : mem[base + p] = StreamByte(B, w, o + p)
  BY <1>1, <1>5 DEF CbcKey
<1>11. o \in Nat
  BY <1>1, <1>5 DEF ChunkOf, Multiple
<1>12. CASE d = 0
  BY <1>1, <1>5, <1>10, <1>11, <1>12 DEF ChainFor
<1>13. CASE d # 0
  <2>1. base + d <= Len(mem)
    BY ONLY <1>2, <1>6, <1>7, <1>8, <1>9
  <2>2. Written_(mem, base, d, B, w, o)
    BY <1>1, <1>8, <1>9, <1>10, <2>1 DEF Written_
  <2>3. d > 0 /\ ChunkOf(ch, s, w, o)
    BY <1>1, <1>5, <1>7, <1>13
  <2>4. SubSeq(mem, base + d - w + 1, base + d) = B[((o + d) \div w) + 1]
    BY <1>1, <1>3, <1>7, <2>2, <2>3, ReadBack
  <2>5. place = base + d
    BY <1>1, <1>5
  <2>6. PICK z : z = place - w + 1
    OBVIOUS
  <2>7. ChainFor(w, iv, mem, place, done_[k], k) = SubSeq(mem, z, place)
    BY <1>1, <1>5, <1>13, <2>6 DEF ChainFor
  <2>8. z = base + d - w + 1
    BY ONLY <1>2, <1>7, <1>8, <2>5, <2>6
  <2> QED
    BY <1>1, <1>5, <2>4, <2>5, <2>7, <2>8
<1> QED
  BY <1>1, <1>12, <1>13

(* A thread writes its next block. *)
LEMMA CbcWrites ==
  ASSUME NEW m \in CbcModes, NEW N, Known(m, N), NEW gv, NEW c, NEW mem, NEW done_, CallState(N, gv, c, mem, done_),
         NEW fin, CbcDone(m, N, c, fin, done_), NEW w, w = CipherBlock(m), NEW iv \in [1 .. N -> Bytes(w)],
         CbcAt(m, N, gv, c, fin, iv, mem, done_),
         NEW k \in 1 .. N, done_[k] < Len(Chunk(c)), NEW place, place = StrideFor(m, c) * (k - 1) + done_[k],
         NEW b, b = CbcBlock(m, Schedules[k], Chunk(c), done_[k], ChainFor(w, iv, mem, place, done_[k], k)),
         NEW mem2, mem2 = Overwritten(mem, place, b), NEW e, e = [done_ EXCEPT ![k] = @ + Len(b)]
  PROVE  CallState(N, gv, c, mem2, e) /\ CbcDone(m, N, c, fin, e) /\ CbcAt(m, N, gv, c, fin, iv, mem2, e)
<1>1. w \in BlockSizes /\ w \in Nat /\ w > 0
  BY CipherBlockIs DEF BlockSizes
<1>2. N \in Nat /\ \A j \in 1 .. N : j \in DOMAIN KeyBytes
  <2>1. N \in Nat /\ N <= Len(KeyBytes)
    BY DEF Known
  <2> QED
    BY <2>1, KeyAssumption
<1>3. IsCall(c) /\ done_ \in [1 .. N -> Nat]
  BY DEF CallState
<1>4. PICK chain : chain = ChainFor(w, iv, mem, place, done_[k], k)
  OBVIOUS
<1>5. chain \in Bytes(w) /\ b \in Bytes(w)
  BY <1>4, CbcTyped
<1>6. b \in Seq(Byte) /\ Len(b) = w
  BY <1>1, <1>5, BytesHave
<1>7. PICK stride, d, base : stride = StrideFor(m, c) /\ d = done_[k] /\ base = stride * (k - 1)
  OBVIOUS
<1>8. stride \in Nat /\ stride <= BLOCK_SIZE /\ Len(Chunk(c)) \in Nat /\ Len(Chunk(c)) <= stride /\ BLOCK_SIZE \in Nat
  BY <1>3, <1>7, ChunkSizes
<1>9. d \in Nat /\ d + w <= BLOCK_SIZE /\ k \notin fin /\ Multiple(w, d)
  BY <1>3, <1>7, CbcSteps
<1>10. PICK n : n = N * BLOCK_SIZE
  OBVIOUS
<1>11. mem \in Bytes(n)
  BY <1>10 DEF CallState
<1>12. Fits(n, N, stride, k, d, Len(b), place)
  BY <1>6, <1>7, <1>9, <1>10 DEF Fits
<1>13. mem2 \in Bytes(n)
  <2>1. WrittenOver(Overwritten(mem, place, b), mem, n, place, b)
    BY <1>2, <1>6, <1>8, <1>9, <1>11, <1>12, MemoryTyped
  <2> QED
    BY <2>1 DEF WrittenOver
<1>14. e \in [1 .. N -> Nat] /\ CbcDone(m, N, c, fin, e)
  BY <1>3, <1>6, CbcDoneNext
<1>15. CallState(N, gv, c, mem2, e)
  BY <1>10, <1>13, <1>14 DEF CallState
<1>16. ASSUME WholeFor(m, N, Append(gv, SoFar(c))), NEW s, s = Joined(Append(gv, SoFar(c)))
       PROVE  \A j \in 1 .. N : CbcKey(StreamFor(m, j, s), w, Offset(c), fin, iv, mem2, stride * (j - 1), e[j], j)
  <2>1. PICK o, ch : o = Offset(c) /\ ch = Chunk(c)
    OBVIOUS
  <2>2. /\ ChunkOf(ch, s, w, o) /\ (AloneFor(m, N) \/ Multiple(w, Len(ch)))
        /\ \A j \in DOMAIN KeyBytes : IsStream(StreamFor(m, j, s), m, j, s)
    BY <1>16, <2>1, CallStream
  <2>3. \A j \in 1 .. N : CbcKey(StreamFor(m, j, s), w, o, fin, iv, mem, stride * (j - 1), done_[j], j)
    BY <1>7, <1>16, <2>1 DEF CbcAt
  <2>4. PICK B : B = StreamFor(m, k, s)
    OBVIOUS
  <2>5. IsStream(B, m, k, s) /\ k \in DOMAIN KeyBytes
    BY <1>2, <2>2, <2>4
  <2>6. /\ iv[k] = B[(o \div w) + 1]
        /\ \A p \in 1 .. d : mem[base + p] = StreamByte(B, w, o + p)
    <3>1. CbcKey(B, w, o, fin, iv, mem, base, d, k)
      BY <1>7, <2>3, <2>4
    <3> QED
      BY <1>9, <3>1 DEF CbcKey
  <2>7. o \in Nat
    BY <2>2 DEF ChunkOf, Multiple
  <2>8. chain = B[((o + d) \div w) + 1]
    <3>1. CbcKey(B, w, Offset(c), fin, iv, mem, StrideFor(m, c) * (k - 1), done_[k], k)
      BY <1>7, <2>1, <2>3, <2>4
    <3>2. ChainWaits(m, N, gv, c, fin, iv, mem, done_, w, k, s, B)
      BY <1>9, <2>1, <2>2, <2>5, <3>1 DEF ChainWaits
    <3>3. chain = B[((Offset(c) + done_[k]) \div w) + 1]
      BY <1>4, <3>2, ChainIsStreams
    <3> QED
      BY <1>7, <2>1, <3>3
  <2>9. \A i \in 1 .. w : b[i] = StreamByte(B, w, (o + d) + i)
    <3>1. b = CbcBlock(m, Schedules[k], ch, d, B[((o + d) \div w) + 1])
      BY <1>4, <1>7, <2>1, <2>8
    <3>2. d < Len(ch)
      BY <1>7, <2>1
    <3> QED
      BY <1>9, <2>2, <2>5, <3>1, <3>2, WritesNext
  <2>10. PICK ref : ref = CbcRef(m, N, s, w, o)
    OBVIOUS
  <2>11. Holds(mem, stride, done_, N, ref)
    <3>1. ASSUME NEW j \in 1 .. N, NEW p \in 1 .. done_[j]
          PROVE  mem[stride * (j - 1) + p] = ref[j][p]
      <4>1. mem[stride * (j - 1) + p] = StreamByte(StreamFor(m, j, s), w, o + p)
        BY <2>3 DEF CbcKey
      <4>2. p \in Nat
        OBVIOUS
      <4> QED
        BY <1>2, <2>10, <4>1, <4>2, CbcRefIs
    <3> QED
      BY <3>1 DEF Holds
  <2>12. \A i \in 1 .. Len(b) : b[i] = ref[k][d + i]
    <3>1. ASSUME NEW i \in 1 .. w
          PROVE  b[i] = ref[k][d + i]
      <4>1. d + i \in Nat /\ o + (d + i) = (o + d) + i
        BY <1>1, <1>9, <2>7
      <4>2. ref[k][d + i] = StreamByte(B, w, o + (d + i))
        BY <1>2, <2>4, <2>10, <4>1, CbcRefIs
      <4> QED
        BY <2>9, <4>1, <4>2
    <3> QED
      BY <1>6, <3>1
  <2>13. Room(stride, done_, N, k, Len(b)) /\ \A j \in 1 .. N : done_[j] <= BLOCK_SIZE
    <3>1. ASSUME NEW j \in 1 .. N
          PROVE  done_[j] <= BLOCK_SIZE /\ (Multiple(w, Len(ch)) => done_[j] <= stride)
      <4>1. done_[j] \in Nat /\ done_[j] <= BLOCK_SIZE /\ (Multiple(w, Len(ch)) => done_[j] <= Len(ch))
        BY <1>3, <2>1, CbcSteps
      <4> QED
        BY <1>8, <2>1, <4>1
    <3>2. Multiple(w, Len(ch)) => d + w <= stride
      <4>1. Multiple(w, Len(ch)) => d + w <= Len(ch)
        BY <1>3, <1>7, <2>1, CbcSteps
      <4> QED
        BY <1>1, <1>8, <1>9, <2>1, <4>1
    <3>3. m = "sample" => stride = BLOCK_SIZE
      BY <1>7 DEF StrideFor
    <3> QED
      BY <1>6, <1>7, <1>9, <2>2, <3>1, <3>2, <3>3 DEF Room, AloneFor
  <2>14. Holds(mem2, stride, e, N, ref)
    <3>1. Fits(n, N, stride, k, done_[k], Len(b), place)
      BY <1>7, <1>12
    <3>2. \A i \in 1 .. Len(b) : b[i] = ref[k][done_[k] + i]
      BY <1>7, <2>12
    <3> QED
      BY <1>2, <1>3, <1>6, <1>8, <1>11, <2>11, <2>13, <3>1, <3>2, MemoryHolds
  <2>15. ASSUME NEW j \in 1 .. N
         PROVE  CbcKey(StreamFor(m, j, s), w, o, fin, iv, mem2, stride * (j - 1), e[j], j)
    <3>1. ASSUME NEW p \in 1 .. e[j]
          PROVE  mem2[stride * (j - 1) + p] = StreamByte(StreamFor(m, j, s), w, o + p)
      <4>1. p \in Nat
        OBVIOUS
      <4>2. mem2[stride * (j - 1) + p] = ref[j][p]
        BY <2>14 DEF Holds
      <4> QED
        BY <1>2, <2>10, <4>1, <4>2, CbcRefIs
    <3> QED
      BY <2>3, <3>1 DEF CbcKey
  <2> QED
    BY <2>1, <2>15
<1>17. CbcAt(m, N, gv, c, fin, iv, mem2, e)
  BY <1>7, <1>16 DEF CbcAt
<1> QED
  BY <1>14, <1>15, <1>17

(* How many blocks cover r blocks, the last one perhaps in part. *)
LEMMA BlocksExact ==
  ASSUME NEW w \in BlockSizes, NEW n \in Nat, NEW r \in Nat, n <= w * r, w * r < n + w
  PROVE  Blocks(w, n) = r
<1>1. CASE w = 16
  BY <1>1, SMT DEF Blocks
<1>2. CASE w = 64
  BY <1>2, SMT DEF Blocks
<1> QED
  BY <1>1, <1>2 DEF BlockSizes

(* Thread k has done its chunk. *)
CbcEnding(m, N, gv, c, mem, done_, fin, w, iv, k, place, iv2, fin2) ==
  /\ m \in CbcModes /\ Known(m, N) /\ CallState(N, gv, c, mem, done_) /\ CbcDone(m, N, c, fin, done_) /\ w = CipherBlock(m)
  /\ iv \in [1 .. N -> Bytes(w)] /\ CbcAt(m, N, gv, c, fin, iv, mem, done_)
  /\ k \in 1 .. N /\ done_[k] >= Len(Chunk(c)) /\ k \notin fin /\ place = StrideFor(m, c) * (k - 1) + done_[k]
  /\ iv2 = (IF Chunk(c) = <<>> THEN iv ELSE [iv EXCEPT ![k] = ChainFor(w, iv, mem, place, done_[k], k)])
  /\ fin2 = fin \union {k}

(* A thread ends. *)
LEMMA CbcEnds ==
  ASSUME NEW m, NEW N, NEW gv, NEW c, NEW mem, NEW done_, NEW fin, NEW w, NEW iv, NEW k, NEW place, NEW iv2, NEW fin2,
         CbcEnding(m, N, gv, c, mem, done_, fin, w, iv, k, place, iv2, fin2)
  PROVE  iv2 \in [1 .. N -> Bytes(w)] /\ CbcDone(m, N, c, fin2, done_) /\ CbcAt(m, N, gv, c, fin2, iv2, mem, done_)
<1>1. /\ m \in CbcModes /\ Known(m, N) /\ CallState(N, gv, c, mem, done_) /\ CbcDone(m, N, c, fin, done_) /\ w = CipherBlock(m)
      /\ iv \in [1 .. N -> Bytes(w)] /\ CbcAt(m, N, gv, c, fin, iv, mem, done_)
      /\ k \in 1 .. N /\ done_[k] >= Len(Chunk(c)) /\ k \notin fin /\ place = StrideFor(m, c) * (k - 1) + done_[k]
      /\ iv2 = (IF Chunk(c) = <<>> THEN iv ELSE [iv EXCEPT ![k] = ChainFor(w, iv, mem, place, done_[k], k)])
      /\ fin2 = fin \union {k}
  BY DEF CbcEnding
<1>2. w \in BlockSizes /\ w \in Nat /\ w > 0
  BY <1>1, CipherBlockIs DEF BlockSizes
<1>3. N \in Nat /\ k \in DOMAIN KeyBytes
  <2>1. N \in Nat /\ N <= Len(KeyBytes)
    BY <1>1 DEF Known
  <2> QED
    BY <1>1, <2>1, KeyAssumption
<1>4. IsCall(c) /\ done_ \in [1 .. N -> Nat]
  BY <1>1 DEF CallState
<1>5. PICK chain : chain = ChainFor(w, iv, mem, place, done_[k], k)
  OBVIOUS
<1>6. chain \in Bytes(w)
  BY <1>1, <1>5, CbcTyped
<1>7. iv2 \in [1 .. N -> Bytes(w)] /\ \A j \in 1 .. N : j # k => iv2[j] = iv[j]
  BY <1>1, <1>5, <1>6
<1>8. CbcDone(m, N, c, fin2, done_)
  <2>1. Len(Chunk(c)) \in Nat
    BY <1>1, <1>4, ChunkSizes
  <2> QED
    BY <1>1, <2>1 DEF CbcDone
<1>9. PICK o, ch, d, base : o = Offset(c) /\ ch = Chunk(c) /\ d = done_[k] /\ base = StrideFor(m, c) * (k - 1)
  OBVIOUS
<1>10. d \in Nat /\ d < Len(ch) + w /\ Multiple(w, d) /\ Len(ch) \in Nat /\ d >= Len(ch) /\ ch \in Seq(Byte)
  BY <1>1, <1>4, <1>9, CbcSteps, ChunkSizes
<1>11. ASSUME WholeFor(m, N, Append(gv, SoFar(c))), NEW s, s = Joined(Append(gv, SoFar(c)))
       PROVE  \A j \in 1 .. N : CbcKey(StreamFor(m, j, s), w, o, fin2, iv2, mem, StrideFor(m, c) * (j - 1), done_[j], j)
  <2>1. ChunkOf(ch, s, w, o) /\ \A j \in DOMAIN KeyBytes : IsStream(StreamFor(m, j, s), m, j, s)
    BY <1>1, <1>9, <1>11, CallStream
  <2>2. \A j \in 1 .. N : CbcKey(StreamFor(m, j, s), w, o, fin, iv, mem, StrideFor(m, c) * (j - 1), done_[j], j)
    BY <1>1, <1>9, <1>11 DEF CbcAt
  <2>3. PICK B : B = StreamFor(m, k, s)
    OBVIOUS
  <2>4. IsStream(B, m, k, s) /\ CbcKey(B, w, o, fin, iv, mem, base, d, k)
    BY <1>1, <1>3, <1>9, <2>1, <2>2, <2>3
  <2>5. chain = B[((o + d) \div w) + 1]
    <3>1. CbcKey(B, w, Offset(c), fin, iv, mem, StrideFor(m, c) * (k - 1), done_[k], k)
      BY <1>1, <1>9, <2>4
    <3>2. ChainWaits(m, N, gv, c, fin, iv, mem, done_, w, k, s, B)
      BY <1>1, <1>9, <2>1, <2>4, <3>1 DEF ChainWaits
    <3>3. chain = B[((Offset(c) + done_[k]) \div w) + 1]
      BY <1>1, <1>5, <3>2, ChainIsStreams
    <3> QED
      BY <1>1, <1>9, <3>3
  <2>6. o \in Nat /\ Len(s) = o + Len(ch) /\ Multiple(w, o)
    BY <1>1, <2>1 DEF ChunkOf, Multiple
  <2>7. PICK r \in Nat : o + d = w * r /\ (o + d) \div w = r
    <3>1. Multiple(w, o + d)
      BY <1>1, <1>2, <1>10, <2>6, MultipleSum
    <3> QED
      BY <1>1, <1>2, <3>1, MultipleIs
  <2>8. Len(B) = r + 1
    <3>1. Len(s) <= o + d /\ o + d < Len(s) + w /\ Len(s) \in Nat
      BY <1>1, <1>2, <1>10, <2>6
    <3>2. Len(s) <= w * r /\ w * r < Len(s) + w
      BY <1>1, <2>7, <3>1
    <3>3. Blocks(w, Len(s)) = r
      BY <1>1, <1>2, <3>1, <3>2, BlocksExact
    <3> QED
      BY <1>1, <2>4, <3>3 DEF IsStream
  <2>9. iv2[k] = B[Len(B)]
    <3>1. CASE ch = <<>>
      <4>1. Len(ch) = 0
        BY <1>1, <3>1
      <4>2. d = 0
        <5>1. Multiple(w, w * 0) /\ w * 0 = 0
          BY <1>1, <1>2, MultipleOf
        <5>2. Multiple(w, 0) /\ d < 0 + w
          BY <1>1, <1>2, <1>10, <4>1, <5>1
        <5>3. d <= 0
          BY <1>1, <1>2, <1>10, <5>2, MultipleNext
        <5> QED
          BY <1>1, <1>10, <5>3
      <4>3. iv[k] = B[(o \div w) + 1]
        BY <1>1, <2>4 DEF CbcKey
      <4>4. o + d = o
        BY <1>1, <2>6, <4>2
      <4>5. iv2[k] = iv[k]
        BY <1>1, <1>9, <3>1
      <4> QED
        BY <1>1, <2>7, <2>8, <4>3, <4>4, <4>5
    <3>2. CASE ch # <<>>
      <4>1. iv2[k] = chain
        BY <1>1, <1>5, <1>9, <3>2
      <4> QED
        BY <1>1, <2>5, <2>7, <2>8, <4>1
    <3> QED
      BY <1>1, <3>1, <3>2
  <2>10. ASSUME NEW j \in 1 .. N
         PROVE  CbcKey(StreamFor(m, j, s), w, o, fin2, iv2, mem, StrideFor(m, c) * (j - 1), done_[j], j)
    <3>1. CbcKey(StreamFor(m, j, s), w, o, fin, iv, mem, StrideFor(m, c) * (j - 1), done_[j], j)
      BY <1>1, <2>2
    <3>2. CASE j = k
      BY <1>1, <2>3, <2>9, <3>1, <3>2 DEF CbcKey
    <3>3. CASE j # k
      BY <1>1, <1>7, <3>1, <3>3 DEF CbcKey
    <3> QED
      BY <1>1, <3>2, <3>3
  <2> QED
    BY <1>1, <2>10
<1>12. CbcAt(m, N, gv, c, fin2, iv2, mem, done_)
  BY <1>1, <1>9, <1>11 DEF CbcAt
<1> QED
  BY <1>1, <1>7, <1>8, <1>12

(* Between calls every ivec is the last block. *)
CbcBetween(m, N, gv, iv) ==
  WholeFor(m, N, gv) =>
    \A k \in 1 .. N : LET B == StreamFor(m, k, Joined(gv)) IN iv[k] = B[Len(B)]

(* A call's last chunk ends where its input does. *)
LEMMA LastSoFar ==
  ASSUME NEW c, IsCall(c), LastChunk(c)
  PROVE  SoFar(c) = c.in
<1>1. c.in \in Seq(Byte)
  BY DEF IsCall
<1>2. PICK n, d : ChunkIs(c, n, d) /\ (LastChunk(c) => d + n = Len(c.in))
  BY ChunkBytes
<1>3. PICK l : l = Len(c.in) /\ l \in Nat /\ ChunkEnd(c) = l
  BY <1>1, <1>2 DEF ChunkIs
<1>4. SoFar(c) = SubSeq(c.in, 1, l)
  BY <1>3 DEF SoFar
<1>5. PICK v : v = c.in /\ v \in Seq(Byte) /\ Len(v) = l
  BY <1>1, <1>3
<1>6. SubSeq(v, 1, l) = v
  BY <1>3, <1>5
<1> QED
  BY <1>4, <1>5, <1>6

(* The call returns. *)
LEMMA CbcReturns ==
  ASSUME NEW m \in CbcModes, NEW N, NEW gv, NEW c, NEW mem, NEW done_, CallState(N, gv, c, mem, done_),
         NEW fin, \A k \in 1 .. N : k \in fin, NEW iv, CbcAt(m, N, gv, c, fin, iv, mem, done_), LastChunk(c)
  PROVE  CbcBetween(m, N, Append(gv, c.in), iv)
<1>1. SoFar(c) = c.in
  BY LastSoFar DEF CallState
<1> QED
  BY <1>1 DEF CbcBetween, CbcAt, CbcKey

(* The last block of a stream of whole blocks, in a longer stream. *)
LEMMA LastInLonger ==
  ASSUME NEW m \in CbcModes, NEW k \in DOMAIN KeyBytes, NEW w, w = CipherBlock(m),
         NEW s \in Seq(Byte), NEW t \in Seq(Byte), Multiple(w, Len(s)), Len(s) <= Len(t),
         \A i \in 1 .. Len(s) : s[i] = t[i],
         NEW B, IsStream(B, m, k, s), NEW C, IsStream(C, m, k, t)
  PROVE  B[Len(B)] = C[(Len(s) \div w) + 1]
<1>1. w \in BlockSizes /\ w \in Nat /\ w > 0
  BY CipherBlockIs DEF BlockSizes
<1>2. PICK r \in Nat : Len(s) = w * r /\ Len(s) \div w = r
  BY <1>1, MultipleIs
<1>3. Blocks(w, Len(s)) = r
  <2>1. PICK z, l : z = w * r /\ l = Len(s) /\ l = z /\ l \in Nat
    BY <1>2
  <2>2. l <= z /\ z < l + w
    BY ONLY <1>1, <2>1
  <2>3. l <= w * r /\ w * r < l + w
    BY <2>1, <2>2
  <2>4. Blocks(w, l) = r
    BY <1>1, <2>1, <2>3, BlocksExact
  <2> QED
    BY <2>1, <2>4
<1>4. Len(B) = r + 1
  BY <1>3 DEF IsStream
<1>5. B[r + 1] = C[r + 1]
  <2>1. w * r <= Len(s) /\ w * r <= Len(t) /\ \A i \in 1 .. w * r : s[i] = t[i]
    BY <1>2
  <2>2. \A j \in 0 .. r : B[j + 1] = C[j + 1]
    BY <2>1, StreamSame
  <2> QED
    BY <2>2
<1> QED
  BY <1>2, <1>4, <1>5

(* Inputs that begin alike, joined to the same ones. *)
LEMMA JoinedLonger ==
  ASSUME NEW gv \in Seq(Seq(Byte)), NEW x \in Seq(Byte), NEW y \in Seq(Byte), Len(x) <= Len(y),
         \A i \in 1 .. Len(x) : x[i] = y[i], NEW s, s = Joined(Append(gv, x)), NEW t, t = Joined(Append(gv, y)), NEW g, g = Joined(gv)
  PROVE  /\ g \in Seq(Byte) /\ s \in Seq(Byte) /\ t \in Seq(Byte) /\ Len(g) <= Len(s) /\ Len(s) <= Len(t)
         /\ \A i \in 1 .. Len(s) : s[i] = t[i]
         /\ \A i \in 1 .. Len(g) : g[i] = s[i]
<1>1. g \in Seq(Byte) /\ Len(g) \in Nat
  BY JoinedIs
<1>2. s = g \o x /\ t = g \o y
  BY JoinedAppend
<1>3. IsJoin(s, Byte, g, x) /\ IsJoin(t, Byte, g, y)
  BY <1>1, <1>2, JoinIs
<1>4. s \in Seq(Byte) /\ t \in Seq(Byte) /\ Len(s) = Len(g) + Len(x) /\ Len(t) = Len(g) + Len(y)
  BY <1>3 DEF IsJoin
<1>5. ASSUME NEW i \in 1 .. Len(s)
      PROVE  s[i] = t[i] /\ (i <= Len(g) => g[i] = s[i])
  <2>1. CASE i <= Len(g)
    <3>1. i \in 1 .. Len(g)
      BY <2>1
    <3>2. s[i] = g[i] /\ t[i] = g[i]
      BY <1>3, <3>1 DEF IsJoin
    <3> QED
      BY <3>2
  <2>2. CASE i > Len(g)
    <3>1. PICK j : j = i - Len(g)
      OBVIOUS
    <3>2. j \in 1 .. Len(x) /\ j \in 1 .. Len(y) /\ Len(g) + j = i
      BY <1>1, <1>4, <2>2, <3>1
    <3>3. s[Len(g) + j] = x[j] /\ t[Len(g) + j] = y[j]
      BY <1>3, <3>2 DEF IsJoin
    <3>4. x[j] = y[j]
      BY <3>2
    <3> QED
      BY <1>1, <2>2, <3>2, <3>3, <3>4
  <2> QED
    BY <1>1, <2>1, <2>2
<1>6. ASSUME NEW i \in 1 .. Len(g)
      PROVE  g[i] = s[i]
  <2>1. i \in 1 .. Len(s) /\ i <= Len(g)
    BY <1>1, <1>4
  <2> QED
    BY <1>5, <2>1
<1> QED
  BY <1>1, <1>4, <1>5, <1>6

(* s is a string of bytes with which t begins. *)
Begins(s, t) == s \in Seq(Byte) /\ t \in Seq(Byte) /\ Len(s) <= Len(t) /\ \A i \in 1 .. Len(s) : s[i] = t[i]

(* The chunks of a call meet: the stream up to one's end begins the stream *)
(* up to the next one's, and ends where the next one starts.               *)
LEMMA ChunksMeet ==
  ASSUME NEW m \in CbcModes, NEW N, NEW gv, NEW c, NEW mem, NEW done_, CallState(N, gv, c, mem, done_),
         ~LastChunk(c), NEW c2, IsCall(c2), c2.in = c.in, c2.start = c.start, c2.i = c.i + 1,
         WholeFor(m, N, Append(gv, SoFar(c2))), NEW w, w = CipherBlock(m),
         NEW s, s = Joined(Append(gv, SoFar(c))), NEW t, t = Joined(Append(gv, SoFar(c2)))
  PROVE  WholeFor(m, N, Append(gv, SoFar(c))) /\ Begins(s, t) /\ Len(s) = Offset(c2) /\ Multiple(w, Len(s))
<1>1. w \in BlockSizes /\ w \in Nat /\ w > 0
  BY CipherBlockIs DEF BlockSizes
<1>2. IsCall(c) /\ gv \in Seq(Seq(Byte)) /\ c.start = Len(Joined(gv))
  BY DEF CallState
<1>3. CallState(N, gv, c2, mem, done_)
  BY <1>2 DEF CallState
<1>4. PICK n, d : ChunkIs(c, n, d) /\ n = BLOCK_SIZE /\ d + n < Len(c.in)
  BY <1>2, ChunkBytes
<1>5. PICK n2, d2 : ChunkIs(c2, n2, d2) /\ Multiple(16, d2) /\ Multiple(64, d2)
  BY ChunkBytes
<1>6. PICK x, y : x = SoFar(c) /\ y = SoFar(c2)
  OBVIOUS
<1>7. /\ n \in Nat /\ d \in Nat /\ x \in Seq(Byte) /\ Len(x) = d + n /\ n2 \in Nat /\ d2 \in Nat
      /\ y \in Seq(Byte) /\ Len(y) = d2 + n2 /\ ChunkEnd(c) = d + n /\ ChunkEnd(c2) = d2 + n2
  BY <1>4, <1>5, <1>6 DEF ChunkIs
<1>8. d2 = d + n
  <2>1. PICK M, i : M = BLOCK_SIZE /\ i = c.i
    OBVIOUS
  <2>2. M \in Nat /\ i \in Nat /\ d = M * i /\ d2 = M * (i + 1) /\ n = M
    BY <1>2, <1>4, <1>5, <2>1, ChunkAssumption, SMT DEF ChunkIs, IsCall
  <2> QED
    BY <2>2, Times2
<1>9. PICK v : v = c.in /\ v \in Seq(Byte)
  BY <1>2 DEF IsCall
<1>10. x = SubSeq(v, 1, d + n) /\ y = SubSeq(v, 1, d2 + n2)
  BY <1>6, <1>7, <1>9 DEF SoFar
<1>11. Len(x) <= Len(y) /\ \A i \in 1 .. Len(x) : x[i] = y[i]
  BY <1>7, <1>8, <1>9, <1>10
<1>12. \A i \in DOMAIN gv : Multiple(w, Len(gv[i]))
  BY <1>2, <1>6, <1>7, WholeAppend
<1>13. Multiple(w, Len(x))
  <2>1. Multiple(w, d2)
    BY <1>1, <1>5 DEF BlockSizes
  <2> QED
    BY <1>7, <1>8, <2>1
<1>14. WholeFor(m, N, Append(gv, x))
  BY <1>2, <1>7, <1>12, <1>13, WholeIf
<1>15. Begins(s, t)
  BY <1>2, <1>6, <1>7, <1>11, JoinedLonger DEF Begins
<1>16. Len(s) = Offset(c2) /\ Multiple(w, Len(s))
  <2>1. ChunkOf(Chunk(c), s, w, Offset(c))
    BY <1>6, <1>14, CallStream
  <2>2. ChunkOf(Chunk(c2), t, w, Offset(c2))
    BY <1>3, CallStream
  <2>3. Len(Chunk(c)) = n /\ Offset(c) = d + c.start /\ Offset(c2) = d2 + c.start
    BY <1>4, <1>5 DEF ChunkIs, Offset
  <2>4. c.start \in Nat
    BY <1>2, JoinedIs
  <2>5. Len(s) = Offset(c) + n
    BY <2>1, <2>3 DEF ChunkOf
  <2>6. Len(s) = Offset(c2)
    BY <1>7, <1>8, <2>3, <2>4, <2>5
  <2> QED
    BY <2>2, <2>6 DEF ChunkOf
<1> QED
  BY <1>6, <1>14, <1>15, <1>16

(* At a call's start: the stream of the calls before. *)
LEMMA CallsMeet ==
  ASSUME NEW m \in CbcModes, NEW N, NEW gv, NEW c, NEW mem, NEW done_, CallState(N, gv, c, mem, done_), c.i = 0,
         WholeFor(m, N, Append(gv, SoFar(c))), NEW w, w = CipherBlock(m),
         NEW g, g = Joined(gv), NEW s, s = Joined(Append(gv, SoFar(c)))
  PROVE  WholeFor(m, N, gv) /\ Begins(g, s) /\ Len(g) = Offset(c) /\ Multiple(w, Len(g))
<1>1. w \in BlockSizes
  BY CipherBlockIs
<1>2. IsCall(c) /\ gv \in Seq(Seq(Byte)) /\ c.start = Len(g)
  BY DEF CallState
<1>3. PICK n, d : ChunkIs(c, n, d)
  BY <1>2, ChunkBytes
<1>4. PICK x : x = SoFar(c)
  OBVIOUS
<1>5. x \in Seq(Byte)
  BY <1>3, <1>4 DEF ChunkIs
<1>6. (\A i \in DOMAIN gv : Multiple(w, Len(gv[i]))) /\ (AloneFor(m, N) \/ Multiple(w, Len(x)))
  BY <1>2, <1>4, <1>5, WholeAppend
<1>7. WholeFor(m, N, gv)
  BY <1>2, <1>5, <1>6, WholeIf
<1>8. Multiple(w, Len(g))
  BY <1>1, <1>2, <1>6, JoinedMultiple
<1>9. /\ g \in Seq(Byte) /\ s \in Seq(Byte) /\ Len(g) <= Len(s)
      /\ \A i \in 1 .. Len(g) : g[i] = s[i]
  <2>1. Len(x) <= Len(x) /\ \A i \in 1 .. Len(x) : x[i] = x[i]
    BY <1>5
  <2> QED
    BY <1>2, <1>4, <1>5, <2>1, JoinedLonger
<1>10. Len(g) = Offset(c)
  <2>1. BLOCK_SIZE \in Nat /\ Len(g) \in Nat
    BY <1>9, ChunkAssumption
  <2>2. BLOCK_SIZE * 0 = 0
    BY <2>1
  <2> QED
    BY <1>2, <2>1, <2>2 DEF Offset
<1> QED
  BY <1>7, <1>8, <1>9, <1>10 DEF Begins

(* The next chunk of a call. *)
LEMMA CbcAdvances ==
  ASSUME NEW m \in CbcModes, NEW N, Known(m, N), NEW gv, NEW c, NEW mem, NEW done_, CallState(N, gv, c, mem, done_),
         NEW fin, \A k \in 1 .. N : k \in fin, NEW iv, CbcAt(m, N, gv, c, fin, iv, mem, done_), ~LastChunk(c),
         NEW c2, IsCall(c2), c2.in = c.in, c2.start = c.start, c2.i = c.i + 1, NEW e, e = [k \in 1 .. N |-> 0]
  PROVE  CbcAt(m, N, gv, c2, {}, iv, mem, e)
<1>1. PICK w, s, t : w = CipherBlock(m) /\ s = Joined(Append(gv, SoFar(c))) /\ t = Joined(Append(gv, SoFar(c2)))
  OBVIOUS
<1>2. \A k \in 1 .. N : k \in DOMAIN KeyBytes
  <2>1. N \in Nat /\ N <= Len(KeyBytes)
    BY DEF Known
  <2> QED
    BY <2>1, KeyAssumption
<1>3. ASSUME WholeFor(m, N, Append(gv, SoFar(c2))), NEW k \in 1 .. N
      PROVE  iv[k] = StreamFor(m, k, t)[(Offset(c2) \div w) + 1]
  <2>1. WholeFor(m, N, Append(gv, SoFar(c))) /\ Begins(s, t) /\ Len(s) = Offset(c2) /\ Multiple(w, Len(s))
    BY <1>1, <1>3, ChunksMeet
  <2>2. PICK B, C : B = StreamFor(m, k, s) /\ C = StreamFor(m, k, t)
    OBVIOUS
  <2>3. iv[k] = B[Len(B)]
    BY <1>1, <2>1, <2>2 DEF CbcAt, CbcKey
  <2>4. s \in Seq(Byte) /\ t \in Seq(Byte) /\ Len(s) <= Len(t) /\ \A i \in 1 .. Len(s) : s[i] = t[i]
    BY <2>1 DEF Begins
  <2>5. IsStream(B, m, k, s) /\ IsStream(C, m, k, t) /\ k \in DOMAIN KeyBytes
    BY <1>2, <2>2, <2>4, StreamIs
  <2>6. B[Len(B)] = C[(Len(s) \div w) + 1]
    BY <1>1, <2>1, <2>4, <2>5, LastInLonger
  <2> QED
    BY <2>1, <2>2, <2>3, <2>6
<1>4. ASSUME NEW k \in 1 .. N
      PROVE  e[k] = 0 /\ ~(k \in {}) /\ 1 .. e[k] = {}
  OBVIOUS
<1> QED
  BY <1>1, <1>3, <1>4 DEF CbcAt, CbcKey

(* ZeroBytes is a string of bytes. *)
LEMMA ZerosAre ==
  ASSUME NEW n \in Nat
  PROVE  ZeroBytes(n) \in Bytes(n)
<1>1. PICK f : f = [i \in 1 .. n |-> 0]
  OBVIOUS
<1>2. f = [i \in 1 .. n |-> f[i]] /\ \A i \in 1 .. n : f[i] \in Byte
  BY <1>1 DEF Byte
<1>3. f \o <<>> \in Bytes(n)
  BY <1>2, BytesMade
<1> QED
  BY <1>1, <1>3 DEF ZeroBytes

(* A call begins. *)
LEMMA CallStarts ==
  ASSUME NEW N \in Nat, NEW gv \in Seq(Seq(Byte)), NEW in \in Seq(Byte),
         NEW c, c.in = in, c.i = 0, c.start = Len(Joined(gv)), NEW mem, mem = ZeroBytes(N * BLOCK_SIZE),
         NEW e, e = [k \in 1 .. N |-> 0]
  PROVE  CallState(N, gv, c, mem, e)
<1>1. PICK M : M = BLOCK_SIZE
  OBVIOUS
<1>2. M \in Nat /\ M * 0 = 0 /\ N * M \in Nat
  BY <1>1, ChunkAssumption, SMT
<1>3. IsCall(c)
  <2>1. Len(in) \in Nat
    OBVIOUS
  <2> QED
    BY <1>1, <1>2, <2>1 DEF IsCall
<1>4. mem \in Bytes(N * BLOCK_SIZE)
  BY <1>1, <1>2, ZerosAre
<1>5. e \in [1 .. N -> Nat]
  OBVIOUS
<1> QED
  BY <1>3, <1>4, <1>5 DEF CallState

(* A chunk begins. *)
LEMMA DoneAtFirst ==
  ASSUME NEW m, NEW N, NEW c, IsCall(c), NEW e, e = [k \in 1 .. N |-> 0]
  PROVE  CbcDone(m, N, c, {}, e)
<1>1. PICK w : w = CipherBlock(m)
  OBVIOUS
<1>2. w \in BlockSizes /\ w \in Nat /\ w > 0
  BY <1>1, CipherBlockIs DEF BlockSizes
<1>3. Multiple(w, 0)
  <2>1. Multiple(w, w * 0) /\ w * 0 = 0
    BY <1>2, MultipleOf
  <2> QED
    BY <2>1
<1>4. PICK l : l = Len(Chunk(c)) /\ l \in Nat
  BY ChunkSizes
<1>5. 0 < l + w
  BY <1>2, <1>4
<1> QED
  BY <1>1, <1>3, <1>4, <1>5 DEF CbcDone

(* At a call's first chunk, every ivec is the block before it. *)
LEMMA CbcStarts ==
  ASSUME NEW m \in CbcModes, NEW N, Known(m, N), NEW gv, NEW c, NEW mem, NEW e, CallState(N, gv, c, mem, e),
         e = [k \in 1 .. N |-> 0], c.i = 0, NEW iv, CbcBetween(m, N, gv, iv)
  PROVE  CbcAt(m, N, gv, c, {}, iv, mem, e)
<1>1. PICK w, s, t : w = CipherBlock(m) /\ s = Joined(gv) /\ t = Joined(Append(gv, SoFar(c)))
  OBVIOUS
<1>2. \A k \in 1 .. N : k \in DOMAIN KeyBytes
  <2>1. N \in Nat /\ N <= Len(KeyBytes)
    BY DEF Known
  <2> QED
    BY <2>1, KeyAssumption
<1>3. ASSUME WholeFor(m, N, Append(gv, SoFar(c))), NEW k \in 1 .. N
      PROVE  iv[k] = StreamFor(m, k, t)[(Offset(c) \div w) + 1]
  <2>1. WholeFor(m, N, gv) /\ Begins(s, t) /\ Len(s) = Offset(c) /\ Multiple(w, Len(s))
    BY <1>1, <1>3, CallsMeet
  <2>2. PICK B, C : B = StreamFor(m, k, s) /\ C = StreamFor(m, k, t)
    OBVIOUS
  <2>3. iv[k] = B[Len(B)]
    BY <1>1, <2>1, <2>2 DEF CbcBetween
  <2>4. s \in Seq(Byte) /\ t \in Seq(Byte) /\ Len(s) <= Len(t) /\ \A i \in 1 .. Len(s) : s[i] = t[i]
    BY <2>1 DEF Begins
  <2>5. IsStream(B, m, k, s) /\ IsStream(C, m, k, t) /\ k \in DOMAIN KeyBytes
    BY <1>2, <2>2, <2>4, StreamIs
  <2>6. B[Len(B)] = C[(Len(s) \div w) + 1]
    BY <1>1, <2>1, <2>4, <2>5, LastInLonger
  <2> QED
    BY <2>1, <2>2, <2>3, <2>6
<1>4. ASSUME NEW k \in 1 .. N
      PROVE  e[k] = 0 /\ ~(k \in {}) /\ 1 .. e[k] = {}
  OBVIOUS
<1> QED
  BY <1>1, <1>3, <1>4 DEF CbcAt, CbcKey

(* Before the first call. *)
LEMMA CbcFirst ==
  ASSUME NEW m \in CbcModes, NEW N, Known(m, N), NEW iv, \A k \in 1 .. N : iv[k] = First(m, k)
  PROVE  CbcBetween(m, N, <<>>, iv)
<1>1. ASSUME NEW k \in 1 .. N, NEW B, B = StreamFor(m, k, Joined(<<>>))
      PROVE  iv[k] = B[Len(B)]
  <2>1. k \in DOMAIN KeyBytes
    <3>1. N \in Nat /\ N <= Len(KeyBytes)
      BY DEF Known
    <3> QED
      BY <3>1, KeyAssumption
  <2>2. <<>> \in Seq(Byte) /\ Len(<<>>) = 0
    OBVIOUS
  <2>3. PICK s : s = <<>> /\ s \in Seq(Byte) /\ Len(s) = 0
    BY <2>2
  <2>4. IsStream(B, m, k, s)
    BY <1>1, <2>1, <2>3, JoinedNothing, StreamIs
  <2>5. Blocks(CipherBlock(m), 0) = 0
    <3>1. CipherBlock(m) \in BlockSizes
      BY CipherBlockIs
    <3> QED
      BY <3>1 DEF Blocks, BlockSizes
  <2>6. Len(B) = 1 /\ B[1] = First(m, k)
    BY <2>3, <2>4, <2>5 DEF IsStream
  <2> QED
    BY <2>6
<1> QED
  BY <1>1 DEF CbcBetween

(* What the thread's part of the output is, as the ciphertext's blocks. *)
LEMMA PartIsBlocks ==
  ASSUME NEW m \in CbcModes, NEW k \in DOMAIN KeyBytes, NEW w, w = CipherBlock(m),
         NEW s, NEW ch, NEW o, ChunkOf(ch, s, w, o), NEW B, IsStream(B, m, k, s),
         NEW d, Multiple(w, d), d < Len(ch) + w,
         NEW mem, NEW base, Written_(mem, base, d, B, w, o)
  PROVE  SubSeq(mem, base + 1, base + w * (d \div w)) = Joined(SubSeq(B, (o \div w) + 2, (o \div w) + 1 + (d \div w)))
<1>1. w \in BlockSizes /\ w \in Nat /\ w > 0
  BY CipherBlockIs DEF BlockSizes
<1>2. PICK r \in Nat : d = w * r /\ d \div w = r
  BY <1>1, MultipleIs
<1>3. PICK q \in Nat : o = w * q /\ o \div w = q
  <2>1. Multiple(w, o)
    BY DEF ChunkOf
  <2> QED
    BY <1>1, <2>1, MultipleIs
<1>4. s \in Seq(Byte) /\ Len(ch) \in Nat /\ Len(s) = o + Len(ch) /\ o \in Nat /\ d \in Nat
  BY DEF ChunkOf, Multiple
<1>5. PICK n, l : n = Len(s) /\ l = Blocks(w, n)
  OBVIOUS
<1>6. n \in Nat /\ l \in Nat /\ B \in Seq(Bytes(w)) /\ Len(B) = l + 1
  <2>1. n \in Nat
    BY <1>4, <1>5
  <2> QED
    BY <1>1, <1>5, <2>1, BlocksAre DEF IsStream
<1>7. q + r <= l
  <2>1. PICK z : z = w * (q + r)
    OBVIOUS
  <2>2. z = o + d
    BY <1>1, <1>2, <1>3, <2>1
  <2>3. o + d < n + w
    BY ONLY <1>1, <1>4, <1>5, d < Len(ch) + w
  <2>4. w * (q + r) < n + w /\ q + r \in Nat
    BY <2>1, <2>2, <2>3
  <2> QED
    BY <1>1, <1>5, <1>6, <2>4, BlocksCover
<1>8. PICK S_ : S_ = SubSeq(B, q + 2, q + 1 + r)
  OBVIOUS
<1>9. S_ \in Seq(Bytes(w)) /\ Len(S_) = r /\ \A i \in 1 .. r : S_[i] = B[(q + 1) + i]
  <2>1. PICK a, b, T : a = q + 1 /\ b = q + 1 + r /\ T = Bytes(w)
    OBVIOUS
  <2>2. a \in Nat /\ b \in Nat /\ a <= b /\ b <= Len(B) /\ b - a = r /\ B \in Seq(T) /\ a + 1 = q + 2
    BY <1>6, <1>7, <2>1
  <2>3. IsPart(Part(B, a, b), T, B, a, b)
    BY <2>2, PartIs
  <2>4. Part(B, a, b) = S_
    BY <1>8, <2>1, <2>2 DEF Part
  <2> QED
    BY <2>1, <2>2, <2>3, <2>4 DEF IsPart
<1>10. Joined(S_) \in Bytes(d) /\ \A p \in 1 .. d : Joined(S_)[p] = BlockByte(S_, w, p)
  BY <1>1, <1>2, <1>9, JoinedBlocks
<1>11. /\ mem \in Seq(Byte) /\ base \in Nat /\ base + d <= Len(mem)
       /\ \A p \in 1 .. d : mem[base + p] = StreamByte(B, w, o + p)
  BY DEF Written_
<1>12. PICK u : u = SubSeq(mem, base + 1, base + d)
  OBVIOUS
<1>13. u \in Seq(Byte) /\ Len(u) = d /\ \A p \in 1 .. d : u[p] = mem[base + p]
  <2>1. PICK b : b = base + d
    OBVIOUS
  <2>2. b \in Nat /\ base <= b /\ b <= Len(mem) /\ b - base = d
    BY <1>4, <1>11, <2>1
  <2>3. IsPart(Part(mem, base, b), Byte, mem, base, b)
    BY <1>11, <2>2, PartIs
  <2>4. Part(mem, base, b) = u
    BY <1>12, <2>1 DEF Part
  <2> QED
    BY <2>2, <2>3, <2>4 DEF IsPart
<1>14. ASSUME NEW p \in 1 .. d
       PROVE  u[p] = Joined(S_)[p]
  <2>1. PICK t \in Nat : t = p - 1
    BY <1>4
  <2>2. t < w * r
    BY <1>2, <1>4, <2>1
  <2>3. t \div w \in Nat /\ t \div w < r
    BY <1>1, <2>2, PlaceParts, PlaceBelow
  <2>4. (w * q + t) \div w = q + (t \div w) /\ (w * q + t) % w = t % w
    BY <1>1, PlaceShift
  <2>5. (o + p) - 1 = o + t
    BY <1>4, <2>1
  <2>6. ((o + p) - 1) \div w = q + (t \div w) /\ ((o + p) - 1) % w = t % w
    BY <1>3, <2>4, <2>5
  <2>7. StreamByte(B, w, o + p) = B[(q + (t \div w)) + 2][(t % w) + 1]
    BY <2>6 DEF StreamByte
  <2>8. BlockByte(S_, w, p) = S_[(t \div w) + 1][(t % w) + 1]
    BY <2>1 DEF BlockByte
  <2>9. PICK i : i = (t \div w) + 1
    OBVIOUS
  <2>10. i \in 1 .. r /\ (q + 1) + i = (q + (t \div w)) + 2
    BY <2>3, <2>9
  <2>11. S_[i] = B[(q + (t \div w)) + 2]
    BY <1>9, <2>10
  <2> QED
    BY <1>10, <1>11, <1>13, <2>7, <2>8, <2>9, <2>11
<1>15. u = Joined(S_)
  <2>1. Joined(S_) \in Seq(Byte) /\ Len(Joined(S_)) = d
    BY <1>4, <1>10, BytesHave
  <2> QED
    BY <1>13, <1>14, <2>1, SameSeq
<1> QED
  BY <1>2, <1>3, <1>8, <1>12, <1>15

(* The threads' parts of the output are the blocks of the one-shot CBC. *)
LEMMA CbcShows ==
  ASSUME NEW m \in CbcModes, NEW N, Known(m, N), NEW gv, NEW c, NEW mem, NEW done_, CallState(N, gv, c, mem, done_),
         NEW fin, CbcDone(m, N, c, fin, done_), NEW iv, CbcAt(m, N, gv, c, fin, iv, mem, done_),
         NEW w, w = CipherBlock(m), WholeFor(m, N, Append(gv, SoFar(c))), NEW k \in 1 .. N,
         NEW B, B = StreamFor(m, k, Joined(Append(gv, SoFar(c)))), NEW base, base = StrideFor(m, c) * (k - 1)
  PROVE  /\ k \in fin => iv[k] = B[Len(B)]
         /\ SubSeq(mem, base + 1, base + w * (done_[k] \div w))
              = Joined(SubSeq(B, (Offset(c) \div w) + 2, (Offset(c) \div w) + 1 + (done_[k] \div w)))
<1>1. w \in BlockSizes /\ w \in Nat /\ w > 0
  BY CipherBlockIs DEF BlockSizes
<1>2. N \in Nat /\ k \in DOMAIN KeyBytes
  <2>1. N \in Nat /\ N <= Len(KeyBytes)
    BY DEF Known
  <2> QED
    BY <2>1, KeyAssumption
<1>3. IsCall(c) /\ done_ \in [1 .. N -> Nat]
  BY DEF CallState
<1>4. PICK s, o, d, ch : s = Joined(Append(gv, SoFar(c))) /\ o = Offset(c) /\ d = done_[k] /\ ch = Chunk(c)
  OBVIOUS
<1>5. ChunkOf(ch, s, w, o) /\ IsStream(B, m, k, s)
  BY <1>2, <1>4, CallStream
<1>6. CbcKey(B, w, o, fin, iv, mem, base, d, k)
  BY <1>4 DEF CbcAt
<1>7. d \in Nat /\ d <= BLOCK_SIZE /\ d < Len(ch) + w /\ Multiple(w, d)
  BY <1>3, <1>4, CbcSteps
<1>8. PICK stride, M, n : stride = StrideFor(m, c) /\ M = BLOCK_SIZE /\ n = N * M
  OBVIOUS
<1>9. n \in Nat /\ base \in Nat /\ base + M <= n /\ M \in Nat
  <2>1. Total(n, N, M) /\ BeginsAt(base, stride, k)
    BY <1>8 DEF Total, BeginsAt
  <2>2. stride \in Nat /\ stride <= M /\ M \in Nat
    BY <1>3, <1>8, ChunkSizes
  <2> QED
    BY <1>2, <2>1, <2>2, PartInside
<1>10. mem \in Seq(Byte) /\ Len(mem) = n
  BY <1>8 DEF CallState, Bytes
<1>11. Written_(mem, base, d, B, w, o)
  <2>1. base + d <= Len(mem)
    BY <1>7, <1>8, <1>9, <1>10
  <2> QED
    BY <1>6, <1>9, <1>10, <2>1 DEF Written_, CbcKey
<1>12. SubSeq(mem, base + 1, base + w * (d \div w)) = Joined(SubSeq(B, (o \div w) + 2, (o \div w) + 1 + (d \div w)))
  BY <1>2, <1>5, <1>7, <1>11, PartIsBlocks
<1>13. k \in fin => iv[k] = B[Len(B)]
  BY <1>6 DEF CbcKey
<1> QED
  BY <1>4, <1>12, <1>13

-----------------------------------------------------------------------------
(* CTR: a chunk is combined with the key stream, from block 0.             *)
Nonce(k) == SubSeq(Ivec[k], 1, 12)
Counts(n) == n \in Nat /\ n <= 2147483647

(* The counter of CTR fills its four bytes as long as it fits. *)
LEMMA CounterIs ==
  ASSUME NEW n, Counts(n)
  PROVE  CounterBytes(n) \in Bytes(4)
<1>1. n \in Nat /\ n <= 2147483647
  BY SMT DEF Counts
<1>2. PICK a, b, c, d : a = n % 256 /\ b = (n \div 256) % 256 /\ c = (n \div 65536) % 256 /\ d = n \div 16777216
  OBVIOUS
<1>3. a \in Byte /\ b \in Byte /\ c \in Byte
  BY <1>1, <1>2, SMT DEF Byte
<1>4. d \in Nat /\ d <= 255
  BY <1>1, <1>2, SMT
<1>5. d \in Byte
  BY <1>4, SMT DEF Byte
<1>6. Quad(a, b, c, d) \in Bytes(4)
  BY <1>3, <1>5, QuadIs, SMT
<1> QED
  BY <1>2, <1>6, SMT DEF Quad, CounterBytes

(* The constant of ChaCha has sixteen bytes. *)
LEMMA ExpandIs == sigma \in Bytes(16)
<1>1. sigma \in Seq(Byte)
  BY DEF sigma, Byte
<1>2. Len(sigma) = 16
  BY DEF sigma
<1> QED
  BY <1>1, <1>2 DEF Bytes

(* A block of the key stream. *)
LEMMA KeyStreamIs ==
  ASSUME NEW k \in DOMAIN KeyBytes, NEW n, Counts(n)
  PROVE  KeyStream(KeyBytes[k], Nonce(k), n) \in Bytes(64)
<1>1. PICK key, iv : key = KeyBytes[k] /\ iv = Ivec[k]
  OBVIOUS
<1>2. key \in Bytes(32) /\ iv \in Seq(Byte) /\ Len(iv) = 64
  <2>1. KeyBytes \in Seq(Seq(Byte)) /\ Ivec \in Seq(Seq(Byte)) /\ Len(Ivec) = Len(KeyBytes)
    BY KeyAssumption DEF Byte
  <2>2. DOMAIN KeyBytes = 1 .. Len(KeyBytes) /\ DOMAIN Ivec = 1 .. Len(Ivec)
    BY <2>1
  <2>3. KeyBytes[k] \in Seq(Byte) /\ Ivec[k] \in Seq(Byte)
    BY <2>1, <2>2
  <2>4. Len(KeyBytes[k]) = 32 /\ Len(Ivec[k]) = 64
    BY KeyAssumption
  <2> QED
    BY <1>1, <2>3, <2>4 DEF Bytes
<1>3. Nonce(k) \in Bytes(12)
  <2>1. PICK a, b : a = 0 /\ b = 12
    OBVIOUS
  <2>2. a \in Nat /\ b \in Nat /\ a <= b /\ b <= Len(iv)
    BY <1>2, <2>1
  <2>3. IsPart(Part(iv, a, b), Byte, iv, a, b)
    BY <1>2, <2>2, PartIs
  <2>4. Part(iv, a, b) = Nonce(k)
    BY <1>1, <2>1 DEF Part, Nonce
  <2> QED
    BY <2>1, <2>3, <2>4 DEF IsPart, Bytes
<1>4. PICK count, nonce : count = CounterBytes(n) /\ nonce = Nonce(k)
  OBVIOUS
<1>5. PICK a, b, c : a = sigma \o key /\ b = a \o count /\ c = b \o nonce
  OBVIOUS
<1>6. a \in Bytes(16 + 32)
  BY <1>2, <1>5, ExpandIs, BytesJoin
<1>7. b \in Bytes((16 + 32) + 4)
  BY <1>4, <1>5, <1>6, CounterIs, BytesJoin
<1>8. c \in Bytes(((16 + 32) + 4) + 12)
  BY <1>3, <1>4, <1>5, <1>7, BytesJoin
<1>9. c \in Bytes(64)
  BY <1>8
<1>10. chacha20_encrypt[c][CHACHA_ROUNDS] \in Bytes(64)
  BY <1>9, RoundsAssumption, ChaChaIs
<1> QED
  BY <1>1, <1>4, <1>5, <1>10 DEF KeyStream

(* Byte p, from one, of the chunk ch enciphered. *)
CtrByte(k, ch, p) == XorByte(ch[p], KeyStream(KeyBytes[k], Nonce(k), (p - 1) \div 64)[((p - 1) % 64) + 1])
CtrPart(ch, d) == SubSeq(ch, d + 1, IF d + 64 < Len(ch) THEN d + 64 ELSE Len(ch))
CtrPiece(k, ch, n) == XorBytes[CtrPart(ch, 64 * n)][KeyStream(KeyBytes[k], Nonce(k), n)]

(* A piece of a chunk: 64 bytes, or what is left of it. *)
PieceIs(b, k, ch, d) ==
  /\ b \in Seq(Byte) /\ Len(b) \in 1 .. 64 /\ d + Len(b) <= Len(ch) /\ (Len(b) = 64 \/ d + Len(b) = Len(ch))
  /\ \A i \in 1 .. Len(b) : b[i] = CtrByte(k, ch, d + i)

(* A piece of the output holds the chunk's bytes with the key stream's. *)
LEMMA CtrPieceIs ==
  ASSUME NEW k \in DOMAIN KeyBytes, NEW ch \in Seq(Byte), Len(ch) <= BLOCK_SIZE, NEW n \in Nat, NEW d, d = 64 * n, d < Len(ch)
  PROVE  PieceIs(CtrPiece(k, ch, n), k, ch, d)
<1>1. PICK l : l = Len(ch) /\ l \in Nat
  OBVIOUS
<1>2. d \in Nat /\ d < l
  BY <1>1
<1>3. n <= d
  OBVIOUS
<1>4. Counts(n)
  BY <1>1, <1>2, <1>3, ChunkAssumption, SMT DEF Counts
<1>5. PICK e : e = IF d + 64 < l THEN d + 64 ELSE l
  OBVIOUS
<1>6. e \in Nat /\ d <= e /\ e <= l /\ e - d \in 1 .. 64 /\ (e - d = 64 \/ e = l)
  BY ONLY <1>1, <1>2, <1>5
<1>7. PICK x : x = CtrPart(ch, d)
  OBVIOUS
<1>8. x \in Seq(Byte) /\ Len(x) = e - d /\ \A i \in 1 .. e - d : x[i] = ch[d + i]
  <2>1. IsPart(Part(ch, d, e), Byte, ch, d, e)
    BY <1>1, <1>2, <1>6, PartIs
  <2>2. Part(ch, d, e) = x
    BY <1>1, <1>5, <1>7 DEF Part, CtrPart
  <2> QED
    BY <2>1, <2>2 DEF IsPart
<1>9. PICK y : y = KeyStream(KeyBytes[k], Nonce(k), n)
  OBVIOUS
<1>10. y \in Seq(Byte) /\ Len(y) = 64
  <2>1. y \in Bytes(64)
    BY <1>4, <1>9, KeyStreamIs, SMT
  <2> QED
    BY <2>1 DEF Bytes
<1>11. PICK b : b = XorBytes[x][y]
  OBVIOUS
<1>12. b \in Bytes(Len(x)) /\ \A i \in 1 .. Len(x) : b[i] = XorByte(x[i], y[i])
  <2>1. Len(x) <= Len(y)
    BY <1>6, <1>8, <1>10
  <2> QED
    BY <1>8, <1>10, <1>11, <2>1, XorBytesIs
<1>13. b \in Seq(Byte) /\ Len(b) = e - d
  BY <1>8, <1>12 DEF Bytes
<1>14. ASSUME NEW i \in 1 .. e - d
       PROVE  b[i] = CtrByte(k, ch, d + i)
  <2>1. i - 1 \in 0 .. 63
    BY <1>6
  <2>2. (d + i) - 1 = 64 * n + (i - 1)
    BY <1>2
  <2>3. ((d + i) - 1) \div 64 = n /\ ((d + i) - 1) % 64 = i - 1
    BY <2>1, <2>2, SMT
  <2>4. (i - 1) + 1 = i
    OBVIOUS
  <2>5. CtrByte(k, ch, d + i) = XorByte(ch[d + i], y[i])
    BY <1>9, <2>3, <2>4 DEF CtrByte
  <2> QED
    BY <1>8, <1>12, <2>5
<1>15. CtrPiece(k, ch, n) = b
  BY <1>7, <1>9, <1>11 DEF CtrPiece
<1>16. d + Len(b) = e
  BY <1>2, <1>6, <1>13
<1> QED
  BY <1>1, <1>6, <1>13, <1>14, <1>15, <1>16 DEF PieceIs

(* A chunk on its way through CTR. *)
CtrDone(N, c, done_) ==
  \A k \in 1 .. N : done_[k] <= Len(Chunk(c)) /\ (Multiple(64, done_[k]) \/ done_[k] = Len(Chunk(c)))
CtrAt(N, c, mem, done_) ==
  \A k \in 1 .. N : \A p \in 1 .. done_[k] : mem[StrideFor("ctr", c) * (k - 1) + p] = CtrByte(k, Chunk(c), p)

(* What the threads' parts should hold. *)
CtrRef(N, ch) == [j \in 1 .. N |-> [p \in Nat |-> CtrByte(j, ch, p)]]

(* What a byte of a thread's part should be. *)
LEMMA CtrRefIs ==
  ASSUME NEW N \in Nat, NEW ch, NEW j \in 1 .. N, NEW p \in Nat
  PROVE  CtrRef(N, ch)[j][p] = CtrByte(j, ch, p)
  BY DEF CtrRef

(* Thread k has the next piece. *)
CtrWriting(N, gv, c, mem, done_, k, place, b, mem2, e) ==
  /\ Known("ctr", N) /\ CallState(N, gv, c, mem, done_) /\ CtrDone(N, c, done_) /\ CtrAt(N, c, mem, done_)
  /\ k \in 1 .. N /\ done_[k] < Len(Chunk(c)) /\ place = StrideFor("ctr", c) * (k - 1) + done_[k]
  /\ b = XorBytes[CtrPart(Chunk(c), done_[k])][KeyStream(KeyBytes[k], Nonce(k), done_[k] \div 64)]
  /\ mem2 = Overwritten(mem, place, b) /\ e = [done_ EXCEPT ![k] = @ + Len(b)]

(* A thread writes its next block. *)
LEMMA CtrWrites ==
  ASSUME NEW N, NEW gv, NEW c, NEW mem, NEW done_, NEW k, NEW place, NEW b, NEW mem2, NEW e,
         CtrWriting(N, gv, c, mem, done_, k, place, b, mem2, e)
  PROVE  CallState(N, gv, c, mem2, e) /\ CtrDone(N, c, e) /\ CtrAt(N, c, mem2, e)
<1>1. /\ Known("ctr", N) /\ CallState(N, gv, c, mem, done_) /\ CtrDone(N, c, done_) /\ CtrAt(N, c, mem, done_)
      /\ k \in 1 .. N /\ done_[k] < Len(Chunk(c)) /\ place = StrideFor("ctr", c) * (k - 1) + done_[k]
      /\ b = XorBytes[CtrPart(Chunk(c), done_[k])][KeyStream(KeyBytes[k], Nonce(k), done_[k] \div 64)]
      /\ mem2 = Overwritten(mem, place, b) /\ e = [done_ EXCEPT ![k] = @ + Len(b)]
  BY DEF CtrWriting
<1>2. N \in Nat /\ \A j \in 1 .. N : j \in DOMAIN KeyBytes
  <2>1. N \in Nat /\ N <= Len(KeyBytes)
    BY <1>1 DEF Known
  <2> QED
    BY <1>1, <2>1, KeyAssumption
<1>3. IsCall(c) /\ done_ \in [1 .. N -> Nat]
  BY <1>1 DEF CallState
<1>4. PICK stride, d, ch : stride = StrideFor("ctr", c) /\ d = done_[k] /\ ch = Chunk(c)
  OBVIOUS
<1>5. stride \in Nat /\ stride <= BLOCK_SIZE /\ stride = Len(ch) /\ BLOCK_SIZE \in Nat /\ ch \in Seq(Byte)
  BY <1>1, <1>3, <1>4, ChunkSizes DEF StrideFor
<1>6. d \in Nat /\ d < Len(ch)
  BY <1>1, <1>3, <1>4
<1>7. PICK r \in Nat : d = 64 * r /\ d \div 64 = r
  <2>1. Multiple(64, d)
    <3>1. d # Len(ch)
      BY <1>1, <1>5, <1>6
    <3> QED
      BY <1>1, <1>4, <3>1 DEF CtrDone
  <2>2. 64 \in BlockSizes
    BY <1>1 DEF BlockSizes
  <2> QED
    BY <1>1, <2>1, <2>2, MultipleIs
<1>8. PieceIs(b, k, ch, d)
  <2>1. b = CtrPiece(k, ch, r)
    BY <1>1, <1>4, <1>7 DEF CtrPiece
  <2>2. Len(ch) <= BLOCK_SIZE /\ k \in DOMAIN KeyBytes
    BY <1>1, <1>2, <1>5
  <2> QED
    BY <1>1, <1>5, <1>6, <1>7, <2>1, <2>2, CtrPieceIs
<1>9. /\ b \in Seq(Byte) /\ Len(b) \in 1 .. 64 /\ d + Len(b) <= Len(ch) /\ (Len(b) = 64 \/ d + Len(b) = Len(ch))
       /\ \A i \in 1 .. Len(b) : b[i] = CtrByte(k, ch, d + i)
  BY <1>1, <1>8 DEF PieceIs
<1>10. PICK n : n = N * BLOCK_SIZE
  OBVIOUS
<1>11. mem \in Bytes(n)
  BY <1>1, <1>10 DEF CallState
<1>12. Fits(n, N, stride, k, d, Len(b), place)
  <2>1. d + Len(b) <= BLOCK_SIZE
    BY <1>5, <1>6, <1>9
  <2> QED
    BY <1>1, <1>4, <1>10, <2>1 DEF Fits
<1>13. mem2 \in Bytes(n)
  <2>1. WrittenOver(Overwritten(mem, place, b), mem, n, place, b)
    BY <1>1, <1>2, <1>5, <1>6, <1>9, <1>11, <1>12, MemoryTyped
  <2> QED
    BY <1>1, <2>1 DEF WrittenOver
<1>14. e \in [1 .. N -> Nat] /\ e[k] = d + Len(b) /\ \A j \in 1 .. N : j # k => e[j] = done_[j]
  <2>1. PICK l \in Nat : l = Len(b)
    BY <1>9
  <2>2. e = [done_ EXCEPT ![k] = done_[k] + l] /\ done_[k] + l \in Nat
    BY <1>1, <1>3, <2>1
  <2>3. k \in 1 .. N
    BY <1>1
  <2> QED
    BY ONLY <1>3, <1>4, <2>1, <2>2, <2>3
<1>15. CallState(N, gv, c, mem2, e)
  BY <1>1, <1>10, <1>13, <1>14 DEF CallState
<1>16. CtrDone(N, c, e)
  <2>1. d + Len(b) <= Len(ch) /\ (Multiple(64, d + Len(b)) \/ d + Len(b) = Len(ch))
    <3>1. CASE Len(b) = 64
      <4>1. d + Len(b) = 64 * (r + 1) /\ r + 1 \in Nat
        BY <1>1, <1>7, <3>1
      <4>2. 64 \in BlockSizes
        BY <1>1 DEF BlockSizes
      <4>3. Multiple(64, 64 * (r + 1))
        BY <1>1, <4>1, <4>2, MultipleOf
      <4> QED
        BY <1>1, <1>9, <4>1, <4>3
    <3> QED
      BY <1>1, <1>9, <3>1
  <2> QED
    BY <1>1, <1>4, <1>14, <2>1 DEF CtrDone
<1>17. PICK ref : ref = CtrRef(N, ch)
  OBVIOUS
<1>18. Holds(mem, stride, done_, N, ref)
  <2>1. ASSUME NEW j \in 1 .. N, NEW p \in 1 .. done_[j]
        PROVE  mem[stride * (j - 1) + p] = ref[j][p]
    <3>1. mem[stride * (j - 1) + p] = CtrByte(j, ch, p)
      BY <1>1, <1>4 DEF CtrAt
    <3>2. p \in Nat
      OBVIOUS
    <3> QED
      BY <1>1, <1>2, <1>17, <3>1, <3>2, CtrRefIs
  <2> QED
    BY <1>1, <2>1 DEF Holds
<1>19. \A i \in 1 .. Len(b) : b[i] = ref[k][d + i]
  <2>1. ASSUME NEW i \in 1 .. Len(b)
        PROVE  b[i] = ref[k][d + i]
    <3>1. d + i \in Nat
      BY <1>1, <1>6
    <3>2. ref[k][d + i] = CtrByte(k, ch, d + i)
      BY <1>1, <1>2, <1>17, <3>1, CtrRefIs
    <3> QED
      BY <1>1, <1>9, <3>2
  <2> QED
    BY <1>1, <2>1
<1>20. Room(stride, done_, N, k, Len(b)) /\ \A j \in 1 .. N : done_[j] <= BLOCK_SIZE
  <2>1. ASSUME NEW j \in 1 .. N
        PROVE  done_[j] <= stride /\ done_[j] <= BLOCK_SIZE
    <3>1. done_[j] \in Nat /\ done_[j] <= Len(ch)
      BY <1>1, <1>3, <1>4 DEF CtrDone
    <3> QED
      BY <1>1, <1>5, <3>1
  <2>2. d + Len(b) <= stride /\ d + Len(b) <= BLOCK_SIZE
    BY <1>5, <1>6, <1>9
  <2> QED
    BY <1>1, <1>4, <2>1, <2>2 DEF Room
<1>21. Holds(mem2, stride, e, N, ref)
  <2>1. Fits(n, N, stride, k, done_[k], Len(b), place)
    BY <1>1, <1>4, <1>12
  <2>2. \A i \in 1 .. Len(b) : b[i] = ref[k][done_[k] + i]
    BY <1>1, <1>4, <1>19
  <2> QED
    BY <1>1, <1>2, <1>3, <1>5, <1>9, <1>11, <1>18, <1>20, <2>1, <2>2, MemoryHolds, ZenonT(30)
<1>22. CtrAt(N, c, mem2, e)
  <2>1. ASSUME NEW j \in 1 .. N, NEW p \in 1 .. e[j]
        PROVE  mem2[stride * (j - 1) + p] = CtrByte(j, ch, p)
    <3>1. p \in Nat
      OBVIOUS
    <3>2. mem2[stride * (j - 1) + p] = ref[j][p]
      BY <1>1, <1>21 DEF Holds
    <3> QED
      BY <1>1, <1>2, <1>17, <3>1, <3>2, CtrRefIs
  <2> QED
    BY <1>1, <1>4, <2>1 DEF CtrAt
<1> QED
  BY <1>1, <1>15, <1>16, <1>22

(* A chunk begins. *)
LEMMA CtrStarts ==
  ASSUME NEW N, NEW c, IsCall(c), NEW mem, NEW e, e = [k \in 1 .. N |-> 0]
  PROVE  CtrDone(N, c, e) /\ CtrAt(N, c, mem, e)
<1>1. Len(Chunk(c)) \in Nat
  BY ChunkSizes
<1>2. Multiple(64, 0)
  BY DEF Multiple
<1>3. ASSUME NEW k \in 1 .. N
      PROVE  e[k] = 0 /\ 1 .. e[k] = {}
  OBVIOUS
<1> QED
  BY <1>1, <1>2, <1>3 DEF CtrDone, CtrAt

(* chacha20_ctr_encrypt of a chunk, from counter 0. *)
CtrStep(k, ch) ==
  [sofar \in Seq(Nat) |-> [n \in Nat |->
     sofar \o XorBytes[SubSeq(ch, 64 * n + 1, IF Len(ch) < 64 * n + 64 THEN Len(ch) ELSE 64 * n + 64)]
                      [KeyStream(KeyBytes[k], Nonce(k), 0 + n)]]]
CtrCounts(l) == [n \in 1 .. ((l + 63) \div 64) |-> n - 1]

(* chacha20_ctr_encrypt goes along the chunk's pieces. *)
LEMMA CtrCode ==
  ASSUME NEW k, NEW ch
  PROVE  chacha20_ctr_encrypt(ch, KeyBytes[k], Nonce(k), 0) = Along(CtrStep(k, ch), <<>>, CtrCounts(Len(ch)))
  BY DEF chacha20_ctr_encrypt, CtrStep, CtrCounts

(* A piece as the code cuts it. *)
LEMMA CtrCut ==
  ASSUME NEW k, NEW ch, Len(ch) \in Nat, NEW n \in Nat
  PROVE  XorBytes[SubSeq(ch, 64 * n + 1, IF Len(ch) < 64 * n + 64 THEN Len(ch) ELSE 64 * n + 64)]
                 [KeyStream(KeyBytes[k], Nonce(k), 0 + n)] = CtrPiece(k, ch, n)
<1>1. PICK d, l : d = 64 * n /\ l = Len(ch) /\ d \in Nat /\ l \in Nat
  OBVIOUS
<1>2. (IF l < d + 64 THEN l ELSE d + 64) = (IF d + 64 < l THEN d + 64 ELSE l) /\ 0 + n = n
  BY ONLY <1>1, n \in Nat
<1> QED
  BY <1>1, <1>2 DEF CtrPiece, CtrPart

(* What j pieces make. *)
CtrSoFar(k, ch, j) ==
  {x \in Seq(Byte) : /\ Len(x) = IF 64 * j < Len(ch) THEN 64 * j ELSE Len(ch)
                     /\ \A p \in 1 .. Len(x) : x[p] = CtrByte(k, ch, p)}

(* One more piece. *)
LEMMA CtrGrows ==
  ASSUME NEW k \in DOMAIN KeyBytes, NEW ch \in Seq(Byte), Len(ch) <= BLOCK_SIZE, NEW j \in Nat, j > 0,
         64 * (j - 1) < Len(ch), NEW x \in CtrSoFar(k, ch, j - 1)
  PROVE  CtrStep(k, ch)[x][j - 1] \in CtrSoFar(k, ch, j)
<1>1. PICK n, d : n = j - 1 /\ d = 64 * n
  OBVIOUS
<1>2. n \in Nat /\ d \in Nat /\ d < Len(ch) /\ Len(ch) \in Nat /\ 64 * j = d + 64
  BY <1>1
<1>3. x \in Seq(Byte) /\ Len(x) = d /\ \A p \in 1 .. d : x[p] = CtrByte(k, ch, p)
  BY <1>1, <1>2 DEF CtrSoFar
<1>4. PICK b : b = CtrPiece(k, ch, n)
  OBVIOUS
<1>5. PieceIs(b, k, ch, d)
  BY <1>1, <1>2, <1>4, CtrPieceIs
<1>6. /\ b \in Seq(Byte) /\ Len(b) \in 1 .. 64 /\ d + Len(b) <= Len(ch) /\ (Len(b) = 64 \/ d + Len(b) = Len(ch))
      /\ \A i \in 1 .. Len(b) : b[i] = CtrByte(k, ch, d + i)
  BY <1>5 DEF PieceIs
<1>7. PICK y : y = x \o b
  OBVIOUS
<1>8. IsJoin(y, Byte, x, b)
  BY <1>3, <1>6, <1>7, JoinIs
<1>9. CtrStep(k, ch)[x][n] = y
  <2>1. x \in Seq(Nat)
    BY <1>3, BytesIs
  <2> QED
    BY <1>2, <1>4, <1>7, <2>1, CtrCut DEF CtrStep
<1>10. y \in Seq(Byte) /\ Len(y) = d + Len(b)
  BY <1>3, <1>8 DEF IsJoin
<1>11. ASSUME NEW p \in 1 .. Len(y)
       PROVE  y[p] = CtrByte(k, ch, p)
  <2>1. CASE p <= d
    <3>1. p \in 1 .. Len(x)
      BY <1>2, <1>3, <2>1
    <3>2. y[p] = x[p]
      BY <1>8, <3>1 DEF IsJoin
    <3> QED
      BY <1>3, <3>1, <3>2
  <2>2. CASE p > d
    <3>1. PICK i : i = p - d
      OBVIOUS
    <3>2. i \in 1 .. Len(b) /\ d + i = p
      BY <1>2, <1>6, <1>10, <2>2, <3>1
    <3>3. y[d + i] = b[i]
      BY <1>3, <1>8, <3>2 DEF IsJoin
    <3> QED
      BY <1>6, <3>2, <3>3
  <2> QED
    BY <1>2, <2>1, <2>2
<1>12. Len(y) = IF 64 * j < Len(ch) THEN 64 * j ELSE Len(ch)
  <2>1. PICK l, t, e : l = Len(b) /\ t = Len(ch) /\ e = 64 * j
    OBVIOUS
  <2>2. l \in 1 .. 64 /\ d + l <= t /\ (l = 64 \/ d + l = t) /\ e = d + 64 /\ d \in Nat /\ t \in Nat /\ d < t
    BY <1>2, <1>6, <2>1
  <2>3. d + l = IF e < t THEN e ELSE t
    BY ONLY <2>2
  <2> QED
    BY <1>10, <2>1, <2>3
<1> QED
  BY <1>1, <1>9, <1>10, <1>11, <1>12 DEF CtrSoFar

(* It combines every byte of the chunk with the key stream's. *)
LEMMA CtrIs ==
  ASSUME NEW k \in DOMAIN KeyBytes, NEW ch \in Seq(Byte), Len(ch) <= BLOCK_SIZE,
         NEW x, x = chacha20_ctr_encrypt(ch, KeyBytes[k], Nonce(k), 0)
  PROVE  x \in Bytes(Len(ch)) /\ \A p \in 1 .. Len(ch) : x[p] = CtrByte(k, ch, p)
<1>1. PICK l, q : l = Len(ch) /\ q = (l + 63) \div 64
  OBVIOUS
<1>2. l \in Nat /\ q \in Nat /\ l <= 64 * q /\ (64 * q) - 64 < l
  <2>1. l \in Nat
    BY <1>1
  <2> QED
    BY <1>1, <2>1, SMT
<1>3. PICK s : s = CtrCounts(l)
  OBVIOUS
<1>4. s \in Seq(Nat) /\ Len(s) = q /\ \A j \in 1 .. q : s[j] = j - 1
  <2>1. s = [n \in 1 .. q |-> n - 1]
    BY <1>1, <1>3 DEF CtrCounts
  <2> QED
    BY <1>2, <2>1
<1>5. PICK J : J = [j \in 0 .. q |-> CtrSoFar(k, ch, j)]
  OBVIOUS
<1>6. <<>> \in J[0]
  <2>1. <<>> \in Seq(Byte) /\ Len(<<>>) = 0
    OBVIOUS
  <2>2. Len(<<>>) = IF 64 * 0 < l THEN 64 * 0 ELSE l
    BY <1>2, <2>1
  <2>3. <<>> \in CtrSoFar(k, ch, 0)
    BY <1>1, <2>1, <2>2 DEF CtrSoFar
  <2> QED
    BY <1>2, <1>5, <2>3
<1>7. ASSUME NEW j \in 1 .. q, NEW y \in J[j - 1]
      PROVE  CtrStep(k, ch)[y][s[j]] \in J[j]
  <2>1. j \in Nat /\ j > 0 /\ s[j] = j - 1 /\ y \in CtrSoFar(k, ch, j - 1)
    BY <1>2, <1>4, <1>5
  <2>2. 64 * (j - 1) < Len(ch)
    <3>1. 64 * (j - 1) <= (64 * q) - 64
      BY <1>2
    <3> QED
      BY <1>1, <1>2, <2>1, <3>1
  <2>3. CtrStep(k, ch)[y][j - 1] \in CtrSoFar(k, ch, j)
    BY <2>1, <2>2, CtrGrows
  <2> QED
    BY <1>5, <2>1, <2>3
<1>8. Along(CtrStep(k, ch), <<>>, s) \in J[Len(s)]
  BY <1>4, <1>6, <1>7, AlongInvariant
<1>9. x \in CtrSoFar(k, ch, q)
  BY <1>1, <1>2, <1>3, <1>4, <1>5, <1>8, CtrCode
<1>10. x \in Seq(Byte) /\ Len(x) = l /\ \A p \in 1 .. Len(x) : x[p] = CtrByte(k, ch, p)
  BY <1>1, <1>2, <1>9 DEF CtrSoFar
<1> QED
  BY <1>1, <1>10 DEF Bytes

(* The part of thread k is the chunk enciphered alone. *)
CtrShown(c, mem, done_, k, base) ==
  SubSeq(mem, base + 1, base + done_[k])
    = SubSeq(chacha20_ctr_encrypt(Chunk(c), KeyBytes[k], Nonce(k), 0), 1, done_[k])

(* The part of thread k during a chunk. *)
CtrShowing(N, gv, c, mem, done_, k, base) ==
  /\ Known("ctr", N) /\ CallState(N, gv, c, mem, done_) /\ CtrDone(N, c, done_) /\ CtrAt(N, c, mem, done_)
  /\ k \in 1 .. N /\ base = StrideFor("ctr", c) * (k - 1)

(* The threads' parts of the output are the chunk enciphered alone. *)
LEMMA CtrShows ==
  ASSUME NEW N, NEW gv, NEW c, NEW mem, NEW done_, NEW k, NEW base,
         CtrShowing(N, gv, c, mem, done_, k, base)
  PROVE  CtrShown(c, mem, done_, k, base)
<1>1. /\ Known("ctr", N) /\ CallState(N, gv, c, mem, done_) /\ CtrDone(N, c, done_) /\ CtrAt(N, c, mem, done_)
      /\ k \in 1 .. N /\ base = StrideFor("ctr", c) * (k - 1)
  BY DEF CtrShowing
<1>2. N \in Nat /\ k \in DOMAIN KeyBytes
  <2>1. N \in Nat /\ N <= Len(KeyBytes)
    BY <1>1 DEF Known
  <2> QED
    BY <1>1, <2>1, KeyAssumption
<1>3. IsCall(c) /\ done_ \in [1 .. N -> Nat]
  BY <1>1 DEF CallState
<1>4. PICK stride, M, n, d, ch : /\ stride = StrideFor("ctr", c) /\ M = BLOCK_SIZE /\ n = N * M /\ d = done_[k]
                                 /\ ch = Chunk(c)
  OBVIOUS
<1>5. /\ stride \in Nat /\ stride <= M /\ stride = Len(ch) /\ M \in Nat /\ ch \in Seq(Byte) /\ d \in Nat
      /\ d <= Len(ch) /\ Len(ch) \in Nat
  BY <1>1, <1>3, <1>4, ChunkSizes DEF StrideFor, CtrDone
<1>6. n \in Nat /\ base \in Nat /\ base + M <= n
  <2>1. Total(n, N, M) /\ BeginsAt(base, stride, k)
    BY <1>1, <1>4 DEF Total, BeginsAt
  <2> QED
    BY <1>1, <1>2, <1>5, <2>1, PartInside
<1>7. mem \in Seq(Byte) /\ Len(mem) = n
  BY <1>1, <1>4 DEF CallState, Bytes
<1>8. PICK x : x = chacha20_ctr_encrypt(ch, KeyBytes[k], Nonce(k), 0)
  OBVIOUS
<1>9. x \in Seq(Byte) /\ Len(x) = Len(ch) /\ \A p \in 1 .. Len(ch) : x[p] = CtrByte(k, ch, p)
  <2>1. Len(ch) <= BLOCK_SIZE
    BY <1>1, <1>4, <1>5
  <2> QED
    BY <1>1, <1>2, <1>5, <1>8, <2>1, CtrIs DEF Bytes
<1>10. PICK u, v, b, z : u = SubSeq(mem, base + 1, b) /\ v = SubSeq(x, z + 1, d) /\ b = base + d /\ z = 0
  OBVIOUS
<1>11. u \in Seq(Byte) /\ Len(u) = d /\ \A p \in 1 .. d : u[p] = mem[base + p]
  <2>1. b \in Nat /\ base <= b /\ b <= Len(mem) /\ b - base = d
    BY ONLY <1>5, <1>6, <1>7, <1>10
  <2>2. IsPart(Part(mem, base, b), Byte, mem, base, b)
    BY <1>1, <1>6, <1>7, <2>1, PartIs
  <2>3. Part(mem, base, b) = u
    BY <1>1, <1>10 DEF Part
  <2> QED
    BY <1>1, <2>1, <2>2, <2>3 DEF IsPart
<1>12. v \in Seq(Byte) /\ Len(v) = d /\ \A p \in 1 .. d : v[p] = x[p]
  <2>1. z \in Nat /\ z <= d /\ d <= Len(x) /\ d - z = d
    BY <1>1, <1>5, <1>9, <1>10
  <2>2. IsPart(Part(x, z, d), Byte, x, z, d)
    BY <1>1, <1>5, <1>9, <2>1, PartIs
  <2>3. Part(x, z, d) = v
    BY <1>1, <1>10 DEF Part
  <2>4. v \in Seq(Byte) /\ Len(v) = d /\ \A p \in 1 .. d : v[p] = x[z + p]
    BY <1>1, <2>1, <2>2, <2>3 DEF IsPart
  <2>5. \A p \in 1 .. d : z + p = p
    BY <1>1, <1>10
  <2> QED
    BY <1>1, <2>4, <2>5
<1>13. \A p \in 1 .. d : mem[base + p] = CtrByte(k, ch, p)
  BY <1>1, <1>4 DEF CtrAt
<1>14. \A p \in 1 .. d : u[p] = v[p]
  <2>1. \A p \in 1 .. d : p \in 1 .. Len(ch)
    BY <1>1, <1>5
  <2> QED
    BY <1>1, <1>9, <1>11, <1>12, <1>13, <2>1
<1>15. u = v
  BY <1>1, <1>11, <1>12, <1>14, SameSeq
<1>16. z + 1 = 1
  BY <1>1, <1>10
<1> QED
  BY <1>4, <1>8, <1>10, <1>15, <1>16 DEF CtrShown

-----------------------------------------------------------------------------
(* The inductive invariant.                                                *)
Good(m, N, gv, c, fin, iv, mem, done_) ==
  /\ CallState(N, gv, c, mem, done_)
  /\ m \in CbcModes => CbcDone(m, N, c, fin, done_) /\ CbcAt(m, N, gv, c, fin, iv, mem, done_)
  /\ m = "ctr" => CtrDone(N, c, done_) /\ CtrAt(N, c, mem, done_)
Ivecs(m, N) == [1 .. N -> Bytes(CipherBlock(m))]
CallRecords == [in : Seq(Byte), i : Nat, start : Nat]
Enciphering == CbcModes \union {"ctr"}

CallerOk ==
  /\ mode \in Enciphering \union {"none", "host"} /\ calls \in Nat /\ given \in Seq(Seq(Byte))
  /\ mode = "none" => given = <<>>
  /\ mode \notin Enciphering => call = NoCall
  /\ mode \in Enciphering => Known(mode, num_keys) /\ ivec \in Ivecs(mode, num_keys)
CallOk ==
  call # NoCall => call \in CallRecords /\ Good(mode, num_keys, given, call, finished, ivec, out, at)
BetweenOk == call = NoCall /\ mode \in CbcModes => CbcBetween(mode, num_keys, given, ivec)
CipherInv == CallerOk /\ CallOk /\ BetweenOk

(* A call in progress is not the absence of one. *)
LEMMA CallIsSome ==
  ASSUME NEW c \in CallRecords
  PROVE  c # NoCall
<1>1. "in" \in DOMAIN c
  BY DEF CallRecords
<1>2. DOMAIN NoCall = {}
  BY DEF NoCall
<1> QED
  BY <1>1, <1>2

(* Initially nothing has been given. *)
LEMMA CipherInit0 == CipherInit => CipherInv
  BY DEF CipherInit, CipherInv, CallerOk, CallOk, BetweenOk, Enciphering, CbcModes, NoCall

(* The set-up. *)
LEMMA UseStep ==
  ASSUME CipherInv, NEW m \in Modes, NEW n \in DOMAIN KeyBytes, NEW samples, Use(m, n, samples)
  PROVE  CipherInv'
<1>1. m \in Enciphering
  BY CallAssumption DEF Enciphering, CbcModes
<1>2. Known(m, n)
  <2>1. n \in Nat /\ n <= Len(KeyBytes)
    BY KeyAssumption
  <2> QED
    BY <1>1, <2>1 DEF Known, Enciphering
<1>3. PICK iv : iv = [k \in 1 .. n |-> First(m, k)]
  OBVIOUS
<1>4. \A k \in 1 .. n : k \in DOMAIN KeyBytes
  BY KeyAssumption
<1>5. iv \in Ivecs(m, n) /\ \A k \in 1 .. n : iv[k] = First(m, k)
  BY <1>3, <1>4, FirstIs DEF Ivecs
<1>6. mode' = m /\ num_keys' = n /\ ivec' = iv
  BY <1>3 DEF Use, First
<1>7. mode = "none" /\ given = <<>> /\ call = NoCall /\ UNCHANGED <<given, calls, call>>
  BY DEF CipherInv, CallerOk, Use, Enciphering, CbcModes
<1>8. CallerOk'
  BY <1>1, <1>2, <1>5, <1>6, <1>7 DEF CipherInv, CallerOk
<1>9. CallOk'
  BY <1>7 DEF CallOk
<1>10. BetweenOk'
  <2>1. m \in CbcModes => CbcBetween(m, n, <<>>, iv)
    BY <1>2, <1>5, CbcFirst
  <2> QED
    BY <1>6, <1>7, <2>1 DEF BetweenOk
<1> QED
  BY <1>8, <1>9, <1>10 DEF CipherInv

(* A call. *)
LEMMA CallStep ==
  ASSUME CipherInv, NEW in \in Inputs(calls + 1), Call(in)
  PROVE  CipherInv'
<1>1. /\ mode \in Enciphering /\ call = NoCall /\ calls \in Nat /\ calls + 1 <= MaxCalls /\ calls' = calls + 1
      /\ UNCHANGED <<mode, num_keys, ivec, given>> /\ given \in Seq(Seq(Byte))
      /\ Known(mode, num_keys) /\ ivec \in Ivecs(mode, num_keys)
  <2>1. mode \in Enciphering
    BY DEF Call, CipherInv, CallerOk
  <2>2. calls \in Nat /\ calls < MaxCalls /\ MaxCalls \in Nat
    BY CallAssumption DEF Call, CipherInv, CallerOk
  <2> QED
    BY <2>1, <2>2 DEF Call, CipherInv, CallerOk
<1>2. in \in Seq(Byte)
  <2>1. calls + 1 \in 1 .. MaxCalls
    BY <1>1, CallAssumption
  <2> QED
    BY <2>1, CallAssumption DEF Byte
<1>3. CallerOk'
  <2>1. mode # "none"
    BY DEF Call
  <2> QED
    BY <1>1, <2>1 DEF CallerOk
<1>4. CASE call' = call
  BY <1>1, <1>3, <1>4 DEF CipherInv, CallOk, BetweenOk
<1>5. CASE call' # call
  <2>1. /\ call' = [in |-> in, i |-> 0, start |-> Len(Joined(given))] /\ out' = ZeroBytes(num_keys * BLOCK_SIZE)
        /\ at' = [k \in 1 .. num_keys |-> 0] /\ finished' = {}
    BY <1>5 DEF Call, KeyNumbers
  <2>2. PICK c, mem, e, N : c = call' /\ mem = out' /\ e = at' /\ N = num_keys
    OBVIOUS
  <2>3. N \in Nat /\ Known(mode, N)
    BY <1>1, <2>2 DEF Known
  <2>4. c.in = in /\ c.i = 0 /\ c.start = Len(Joined(given)) /\ mem = ZeroBytes(N * BLOCK_SIZE) /\ e = [k \in 1 .. N |-> 0]
    BY <2>1, <2>2
  <2>5. c \in CallRecords
    <3>1. Len(Joined(given)) \in Nat
      BY <1>1, JoinedIs
    <3> QED
      BY <1>2, <2>1, <2>2, <3>1 DEF CallRecords
  <2>6. CallState(N, given, c, mem, e)
    BY <1>1, <1>2, <2>3, <2>4, CallStarts
  <2>7. IsCall(c)
    BY <2>6 DEF CallState
  <2>8. CbcDone(mode, N, c, {}, e)
    BY <2>4, <2>7, DoneAtFirst
  <2>9. mode \in CbcModes => CbcAt(mode, N, given, c, {}, ivec, mem, e)
    <3>1. mode \in CbcModes => CbcBetween(mode, N, given, ivec)
      BY <1>1, <2>2 DEF CipherInv, BetweenOk
    <3> QED
      BY <2>3, <2>4, <2>6, <3>1, CbcStarts
  <2>10. CtrDone(N, c, e) /\ CtrAt(N, c, mem, e)
    BY <2>4, <2>7, CtrStarts
  <2>11. Good(mode, N, given, c, {}, ivec, mem, e)
    BY <2>6, <2>8, <2>9, <2>10 DEF Good
  <2>12. CallOk'
    BY <1>1, <2>1, <2>2, <2>5, <2>11 DEF CallOk
  <2>13. BetweenOk'
    <3>1. c # NoCall
      BY <2>5, CallIsSome
    <3> QED
      BY <2>2, <3>1 DEF BetweenOk, NoCall
  <2> QED
    BY <1>3, <2>12, <2>13 DEF CipherInv
<1> QED
  BY <1>4, <1>5

(* What holds during a call. *)
LEMMA InCall ==
  ASSUME CipherInv, call # NoCall
  PROVE  /\ mode \in Enciphering /\ Known(mode, num_keys) /\ ivec \in Ivecs(mode, num_keys)
         /\ call \in CallRecords /\ Good(mode, num_keys, given, call, finished, ivec, out, at)
         /\ given \in Seq(Seq(Byte)) /\ calls \in Nat
<1>1. mode \in Enciphering
  BY DEF CipherInv, CallerOk
<1> QED
  BY <1>1 DEF CipherInv, CallerOk, CallOk

(* Afterwards, with the call still on its way. *)
LEMMA StillInCall ==
  ASSUME CipherInv, call # NoCall, UNCHANGED <<mode, num_keys, given, calls>>,
         ivec' \in Ivecs(mode, num_keys), call' \in CallRecords,
         Good(mode, num_keys, given, call', finished', ivec', out', at')
  PROVE  CipherInv'
<1>1. call' # NoCall
  BY CallIsSome
<1>2. CallerOk'
  <2>1. mode \in Enciphering
    BY InCall
  <2>2. mode # "none"
    BY <2>1 DEF Enciphering, CbcModes
  <2> QED
    BY <2>1, <2>2 DEF CipherInv, CallerOk
<1>3. CallOk'
  BY DEF CallOk
<1>4. BetweenOk'
  BY <1>1 DEF BetweenOk, NoCall
<1> QED
  BY <1>2, <1>3, <1>4 DEF CipherInv

(* A thread's next block. *)
LEMMA BlockStep ==
  ASSUME CipherInv, NEW k \in KeyNumbers, ThreadBlock(k)
  PROVE  CipherInv'
<1>1. call # NoCall /\ at[k] < Len(Chunk(call)) /\ UNCHANGED <<mode, num_keys, given, calls, call, finished, ivec>>
  BY DEF ThreadBlock
<1>2. /\ mode \in Enciphering /\ Known(mode, num_keys) /\ ivec \in Ivecs(mode, num_keys)
      /\ call \in CallRecords /\ Good(mode, num_keys, given, call, finished, ivec, out, at)
  BY <1>1, InCall
<1>3. PICK b, place : /\ b = Written(k) /\ place = Place(k)
                      /\ out' = Overwritten(out, place, b) /\ at' = [at EXCEPT ![k] = @ + Len(b)]
  BY DEF ThreadBlock
<1>4. place = StrideFor(mode, call) * (k - 1) + at[k]
  BY <1>3 DEF Place, Stride, StrideFor
<1>5. PICK N, mem, e : N = num_keys /\ mem = out' /\ e = at'
  OBVIOUS
<1>6. k \in 1 .. N /\ Known(mode, N) /\ CallState(N, given, call, out, at)
  BY <1>2, <1>5 DEF KeyNumbers, Good
<1>7. mem = Overwritten(out, place, b) /\ e = [at EXCEPT ![k] = @ + Len(b)]
  BY <1>3, <1>5
<1>8. CASE mode \in CbcModes
  <2>1. mode # "ctr"
    BY <1>8 DEF CbcModes
  <2>2. PICK w : w = CipherBlock(mode)
    OBVIOUS
  <2>3. b = CbcBlock(mode, Schedules[k], Chunk(call), at[k], ChainFor(w, ivec, out, place, at[k], k))
    BY <1>3, <2>1, <2>2 DEF Written, ChainBlock, ChainFor
  <2>4. ivec \in [1 .. N -> Bytes(w)]
    BY <1>2, <1>5, <2>2 DEF Ivecs
  <2>5. CbcDone(mode, N, call, finished, at) /\ CbcAt(mode, N, given, call, finished, ivec, out, at)
    BY <1>2, <1>5, <1>8 DEF Good
  <2>6. CallState(N, given, call, mem, e) /\ CbcDone(mode, N, call, finished, e) /\ CbcAt(mode, N, given, call, finished, ivec, mem, e)
    BY <1>1, <1>4, <1>6, <1>7, <1>8, <2>2, <2>3, <2>4, <2>5, CbcWrites, ZenonT(30)
  <2>7. Good(mode, N, given, call, finished, ivec, mem, e)
    BY <2>1, <2>6 DEF Good
  <2> QED
    BY <1>1, <1>2, <1>5, <2>7, StillInCall
<1>9. CASE mode = "ctr"
  <2>1. mode \notin CbcModes
    BY <1>9 DEF CbcModes
  <2>2. b = XorBytes[CtrPart(Chunk(call), at[k])][KeyStream(KeyBytes[k], Nonce(k), at[k] \div 64)]
    BY <1>3, <1>9 DEF Written, CtrBlock, CtrPart, Nonce
  <2>3. CtrDone(N, call, at) /\ CtrAt(N, call, out, at)
    BY <1>2, <1>5, <1>9 DEF Good
  <2>4. CallState(N, given, call, mem, e) /\ CtrDone(N, call, e) /\ CtrAt(N, call, mem, e)
    <3>1. Known("ctr", N) /\ place = StrideFor("ctr", call) * (k - 1) + at[k]
      BY <1>4, <1>6, <1>9
    <3>2. CtrWriting(N, given, call, out, at, k, place, b, mem, e)
      BY <1>1, <1>6, <1>7, <2>2, <2>3, <3>1 DEF CtrWriting
    <3> QED
      BY <3>2, CtrWrites
  <2>5. Good(mode, N, given, call, finished, ivec, mem, e)
    BY <2>1, <2>4 DEF Good
  <2> QED
    BY <1>1, <1>2, <1>5, <2>5, StillInCall
<1> QED
  BY <1>2, <1>8, <1>9 DEF Enciphering

(* A thread ends. *)
LEMMA EndsStep ==
  ASSUME CipherInv, NEW k \in KeyNumbers, ThreadEnds(k)
  PROVE  CipherInv'
<1>1. /\ call # NoCall /\ at[k] >= Len(Chunk(call)) /\ k \notin finished /\ finished' = finished \union {k}
      /\ UNCHANGED <<mode, num_keys, given, calls, call, out, at>>
  BY DEF ThreadEnds
<1>2. /\ mode \in Enciphering /\ Known(mode, num_keys) /\ ivec \in Ivecs(mode, num_keys)
      /\ call \in CallRecords /\ Good(mode, num_keys, given, call, finished, ivec, out, at)
  BY <1>1, InCall
<1>3. PICK N, fin2, iv2 : N = num_keys /\ fin2 = finished' /\ iv2 = ivec'
  OBVIOUS
<1>4. k \in 1 .. N /\ Known(mode, N) /\ CallState(N, given, call, out, at)
  BY <1>2, <1>3 DEF KeyNumbers, Good
<1>5. CASE mode \in CbcModes
  <2>1. mode # "ctr"
    BY <1>5 DEF CbcModes
  <2>2. PICK w, place : w = CipherBlock(mode) /\ place = Place(k)
    OBVIOUS
  <2>3. place = StrideFor(mode, call) * (k - 1) + at[k]
    BY <2>2 DEF Place, Stride, StrideFor
  <2>4. iv2 = IF Chunk(call) = <<>> THEN ivec ELSE [ivec EXCEPT ![k] = ChainFor(w, ivec, out, place, at[k], k)]
    BY <1>3, <2>1, <2>2 DEF ThreadEnds, ChainBlock, ChainFor
  <2>5. ivec \in [1 .. N -> Bytes(w)] /\ fin2 = finished \union {k}
    BY <1>1, <1>2, <1>3, <2>2 DEF Ivecs
  <2>6. CbcDone(mode, N, call, finished, at) /\ CbcAt(mode, N, given, call, finished, ivec, out, at)
    BY <1>2, <1>3, <1>5 DEF Good
  <2>7. /\ iv2 \in [1 .. N -> Bytes(w)] /\ CbcDone(mode, N, call, fin2, at)
        /\ CbcAt(mode, N, given, call, fin2, iv2, out, at)
    <3>1. CbcEnding(mode, N, given, call, out, at, finished, w, ivec, k, place, iv2, fin2)
      BY <1>1, <1>4, <1>5, <2>2, <2>3, <2>4, <2>5, <2>6 DEF CbcEnding
    <3> QED
      BY <3>1, CbcEnds
  <2>8. Good(mode, N, given, call, fin2, iv2, out, at)
    BY <1>4, <2>1, <2>7 DEF Good
  <2>9. iv2 \in Ivecs(mode, N)
    BY <2>2, <2>7 DEF Ivecs
  <2> QED
    BY <1>1, <1>2, <1>3, <2>8, <2>9, StillInCall
<1>6. CASE mode = "ctr"
  <2>1. mode \notin CbcModes
    BY <1>6 DEF CbcModes
  <2>2. ivec' = ivec
    BY <1>6 DEF ThreadEnds
  <2>3. Good(mode, N, given, call, fin2, ivec, out, at)
    BY <1>2, <1>3, <2>1 DEF Good
  <2> QED
    BY <1>1, <1>2, <1>3, <2>2, <2>3, StillInCall
<1> QED
  BY <1>2, <1>5, <1>6 DEF Enciphering

(* The next chunk of the call. *)
LEMMA ChunkStep ==
  ASSUME CipherInv, NextChunk, ~LastChunk(call)
  PROVE  CipherInv'
<1>1. /\ call # NoCall /\ finished = KeyNumbers /\ finished' = {} /\ call' = [call EXCEPT !.i = @ + 1]
      /\ UNCHANGED <<mode, num_keys, given, calls, out, ivec>> /\ at' = [k \in KeyNumbers |-> 0]
  BY DEF NextChunk
<1>2. /\ mode \in Enciphering /\ Known(mode, num_keys) /\ ivec \in Ivecs(mode, num_keys)
      /\ call \in CallRecords /\ Good(mode, num_keys, given, call, finished, ivec, out, at)
  BY <1>1, InCall
<1>3. PICK N, c, e : N = num_keys /\ c = call' /\ e = at'
  OBVIOUS
<1>4. c \in CallRecords /\ c.in = call.in /\ c.start = call.start /\ c.i = call.i + 1
  BY <1>1, <1>2, <1>3 DEF CallRecords
<1>5. CallState(N, given, call, out, at) /\ Known(mode, N) /\ N \in Nat
  BY <1>2, <1>3 DEF Good, Known
<1>6. IsCall(c)
  <2>1. c.in \in Seq(Byte) /\ c.i \in Nat
    BY <1>4 DEF CallRecords
  <2>2. PICK z, l : z = BLOCK_SIZE * (call.i + 1) /\ l = Len(call.in)
    OBVIOUS
  <2>3. z \in Nat /\ l \in Nat
    <3>1. call.i + 1 \in Nat /\ call.in \in Seq(Byte)
      BY <1>2 DEF CallRecords
    <3>2. BLOCK_SIZE \in Nat
      BY ChunkAssumption
    <3> QED
      BY <2>2, <3>1, <3>2
  <2>4. ~(l <= z)
    BY <2>2 DEF LastChunk
  <2>5. z <= l
    BY ONLY <2>3, <2>4
  <2> QED
    BY <1>4, <2>1, <2>2, <2>5 DEF IsCall
<1>7. e = [k \in 1 .. N |-> 0] /\ \A k \in 1 .. N : k \in finished
  BY <1>1, <1>3 DEF KeyNumbers
<1>8. CallState(N, given, c, out, e)
  <2>1. e \in [1 .. N -> Nat]
    BY <1>7
  <2> QED
    BY <1>4, <1>5, <1>6, <2>1 DEF CallState
<1>9. CtrDone(N, c, e) /\ CtrAt(N, c, out, e) /\ CbcDone(mode, N, c, {}, e)
  BY <1>6, <1>7, CtrStarts, DoneAtFirst
<1>10. mode \in CbcModes => CbcAt(mode, N, given, c, {}, ivec, out, e)
  <2>1. mode \in CbcModes => CbcAt(mode, N, given, call, finished, ivec, out, at)
    BY <1>2, <1>3 DEF Good
  <2> QED
    BY <1>4, <1>5, <1>6, <1>7, <2>1, CbcAdvances
<1>11. Good(mode, N, given, c, {}, ivec, out, e)
  BY <1>8, <1>9, <1>10 DEF Good
<1> QED
  BY <1>1, <1>2, <1>3, <1>4, <1>11, StillInCall

(* The call returns. *)
LEMMA ReturnStep ==
  ASSUME CipherInv, NextChunk, LastChunk(call)
  PROVE  CipherInv'
<1>1. /\ call # NoCall /\ finished = KeyNumbers /\ call' = NoCall /\ given' = Append(given, call.in)
      /\ UNCHANGED <<mode, num_keys, calls, ivec>>
  BY DEF NextChunk
<1>2. /\ mode \in Enciphering /\ Known(mode, num_keys) /\ ivec \in Ivecs(mode, num_keys)
      /\ call \in CallRecords /\ Good(mode, num_keys, given, call, finished, ivec, out, at)
      /\ given \in Seq(Seq(Byte)) /\ calls \in Nat
  BY <1>1, InCall
<1>3. given' \in Seq(Seq(Byte))
  <2>1. call.in \in Seq(Byte)
    BY <1>2 DEF CallRecords
  <2> QED
    BY <1>1, <1>2, <2>1
<1>4. CallerOk'
  <2>1. mode # "none"
    BY <1>2 DEF Enciphering, CbcModes
  <2> QED
    BY <1>1, <1>2, <1>3, <2>1 DEF CallerOk
<1>5. CallOk'
  BY <1>1 DEF CallOk, NoCall
<1>6. BetweenOk'
  <2>1. ASSUME mode \in CbcModes
        PROVE  CbcBetween(mode, num_keys, Append(given, call.in), ivec)
    <3>1. CallState(num_keys, given, call, out, at) /\ CbcAt(mode, num_keys, given, call, finished, ivec, out, at)
      BY <1>2, <2>1 DEF Good
    <3>2. \A k \in 1 .. num_keys : k \in finished
      BY <1>1 DEF KeyNumbers
    <3> QED
      BY <1>1, <2>1, <3>1, <3>2, CbcReturns
  <2> QED
    BY <1>1, <2>1 DEF BetweenOk
<1> QED
  BY <1>4, <1>5, <1>6 DEF CipherInv

(* Steps outside calls. *)
LEMMA QuietStep ==
  ASSUME CipherInv, EndShaState \/ UNCHANGED cipherVars
  PROVE  CipherInv'
<1>1. UNCHANGED <<mode, num_keys, ivec, given, calls, call, finished, out, at>>
  BY DEF EndShaState, cipherVars
<1> QED
  BY <1>1 DEF CipherInv, CallerOk, CallOk, BetweenOk

(* The host's encryption and decryption calls nothing. *)
LEMMA TripStep ==
  ASSUME CipherInv, NEW k, NEW bits, NEW in, RoundTrip(k, bits, in)
  PROVE  CipherInv'
<1>1. mode = "none" /\ mode' = "host" /\ UNCHANGED <<given, calls, call>>
  BY DEF RoundTrip
<1>2. mode \notin Enciphering /\ mode' \notin Enciphering /\ mode' # "none" /\ mode' \notin CbcModes
  BY <1>1 DEF Enciphering, CbcModes
<1>3. call = NoCall /\ calls \in Nat /\ given \in Seq(Seq(Byte))
  BY <1>2 DEF CipherInv, CallerOk
<1> QED
  BY <1>1, <1>2, <1>3 DEF CipherInv, CallerOk, CallOk, BetweenOk, NoCall

(* Every step keeps the invariant. *)
LEMMA CipherStep == CipherInv /\ [Cipher]_cipherVars => CipherInv'
<1> SUFFICES ASSUME CipherInv, [Cipher]_cipherVars
             PROVE  CipherInv'
  OBVIOUS
<1>1. CASE \E m \in Modes, n \in DOMAIN KeyBytes, samples \in Samples \union {<<>>} : Use(m, n, samples)
  BY <1>1, UseStep
<1>2. CASE \E in \in Inputs(calls + 1) : Call(in)
  BY <1>2, CallStep
<1>3. CASE \E k \in KeyNumbers : ThreadBlock(k) \/ ThreadEnds(k)
  BY <1>3, BlockStep, EndsStep
<1>4. CASE NextChunk
  BY <1>4, ChunkStep, ReturnStep
<1>5. CASE EndShaState \/ UNCHANGED cipherVars
  BY <1>5, QuietStep
<1>6. CASE \E k \in DOMAIN KeyBytes, bits \in {128, 192, 256}, in \in Trips : RoundTrip(k, bits, in)
  BY <1>6, TripStep
<1> QED
  BY <1>1, <1>2, <1>3, <1>4, <1>5, <1>6 DEF Cipher

(***************************************************************************)
(* The inductive invariant.  During a call, the part of the output memory  *)
(* that each thread has done holds, byte for byte, the ciphertext of the   *)
(* key's one-shot CBC (or of the chunk's CTR), the thread is at a whole    *)
(* number of blocks, and the ivec is the block before the chunk, or the    *)
(* last one if the thread has ended; between calls every ivec is the last  *)
(* block of the inputs given so far.                                       *)
(***************************************************************************)
THEOREM CipherInvariance == CipherSpec => []CipherInv
  BY CipherInit0, CipherStep, PTL DEF CipherSpec

(* What the invariant says of the properties. *)
LEMMA StreamsFollow == CipherInv => StreamsAreOneShot
<1> SUFFICES ASSUME CipherInv
             PROVE  StreamsAreOneShot
  OBVIOUS
<1>1. ASSUME mode \in CbcModes, call = NoCall
      PROVE  CbcIsOneShot(given, 0)
  <2>1. CbcBetween(mode, num_keys, given, ivec)
    BY <1>1 DEF CipherInv, BetweenOk
  <2>2. ASSUME Whole(given), NEW k \in KeyNumbers
        PROVE  LET B == StreamOf(k, Joined(given)) IN ivec[k] = B[Len(B)]
    <3>1. WholeFor(mode, num_keys, given) /\ k \in 1 .. num_keys
      BY <2>2 DEF Whole, WholeFor, Alone, AloneFor, KeyNumbers
    <3> QED
      BY <2>1, <3>1, StreamOfIs DEF CbcBetween
  <2> QED
    BY <1>1, <2>2 DEF CbcIsOneShot
<1>2. ASSUME mode \in CbcModes, call # NoCall
      PROVE  CbcIsOneShot(Append(given, SubSeq(call.in, 1, ChunkEnd(call))), Offset(call))
  <2>1. PICK m, N, w, sofar : m = mode /\ N = num_keys /\ w = CipherBlock(mode) /\ sofar = Append(given, SoFar(call))
    OBVIOUS
  <2>2. /\ m \in CbcModes /\ Known(m, N) /\ CallState(N, given, call, out, at) /\ CbcDone(m, N, call, finished, at)
        /\ CbcAt(m, N, given, call, finished, ivec, out, at)
    BY <1>1, <1>2, <2>1, InCall DEF Good
  <2>3. ASSUME Whole(sofar), NEW k \in KeyNumbers, NEW B, B = StreamOf(k, Joined(sofar))
        PROVE  /\ k \in finished => ivec[k] = B[Len(B)]
               /\ OutputOf(k, w * (at[k] \div w)) = Joined(SubSeq(B, (Offset(call) \div w) + 2, (Offset(call) \div w) + 1 + (at[k] \div w)))
    <3>1. WholeFor(m, N, sofar) /\ k \in 1 .. N
      BY <2>1, <2>3 DEF Whole, WholeFor, Alone, AloneFor, KeyNumbers
    <3>2. B = StreamFor(m, k, Joined(sofar))
      BY <2>1, <2>3, StreamOfIs
    <3>3. PICK base : base = StrideFor(m, call) * (k - 1)
      OBVIOUS
    <3>4. /\ k \in finished => ivec[k] = B[Len(B)]
          /\ SubSeq(out, base + 1, base + w * (at[k] \div w))
               = Joined(SubSeq(B, (Offset(call) \div w) + 2, (Offset(call) \div w) + 1 + (at[k] \div w)))
      BY <2>1, <2>2, <3>1, <3>2, <3>3, CbcShows
    <3>5. OutputOf(k, w * (at[k] \div w)) = SubSeq(out, base + 1, base + w * (at[k] \div w))
      BY <2>1, <3>3 DEF OutputOf, Stride, StrideFor
    <3> QED
      BY <3>4, <3>5
  <2> QED
    BY <1>2, <2>1, <2>3 DEF CbcIsOneShot, SoFar
<1> QED
  BY <1>1, <1>2 DEF StreamsAreOneShot, CbcModes

LEMMA ChunksFollow == CipherInv => ChunksAreCtr
<1> SUFFICES ASSUME CipherInv, mode = "ctr", call # NoCall, NEW k \in KeyNumbers
             PROVE  OutputOf(k, at[k]) = SubSeq(chacha20_ctr_encrypt(Chunk(call), KeyBytes[k], SubSeq(Ivec[k], 1, 12), 0), 1, at[k])
  BY DEF ChunksAreCtr
<1>1. PICK N, base : N = num_keys /\ base = StrideFor("ctr", call) * (k - 1)
  OBVIOUS
<1>2. /\ Known("ctr", N) /\ CallState(N, given, call, out, at) /\ CtrDone(N, call, at) /\ CtrAt(N, call, out, at)
      /\ k \in 1 .. N
  BY <1>1, InCall DEF Good, KeyNumbers
<1>3. SubSeq(out, base + 1, base + at[k]) = SubSeq(chacha20_ctr_encrypt(Chunk(call), KeyBytes[k], Nonce(k), 0), 1, at[k])
  <2>1. CtrShowing(N, given, call, out, at, k, base)
    BY <1>1, <1>2 DEF CtrShowing
  <2>2. CtrShown(call, out, at, k, base)
    BY <2>1, CtrShows
  <2> QED
    BY <2>2 DEF CtrShown
<1>4. OutputOf(k, at[k]) = SubSeq(out, base + 1, base + at[k])
  BY <1>1 DEF OutputOf, Stride, StrideFor
<1> QED
  BY <1>3, <1>4 DEF Nonce

(***************************************************************************)
(* For every number of keys, every input and any order of the threads'     *)
(* blocks, what AES_cbc_encrypt_many and chacha_cbc_encrypt_many(_sample)  *)
(* have written is the one-shot CBC, however the input is cut into calls   *)
(* and chunks; with several keys, if lengths are whole blocks or the       *)
(* function is the sampling one.                                           *)
(***************************************************************************)
THEOREM OneShot == CipherSpec => []StreamsAreOneShot
  BY StreamsFollow, CipherInvariance, PTL

(***************************************************************************)
(* For every number of keys, every input and any order of the threads'     *)
(* blocks, what chacha_ctr_encrypt_many has written of a chunk is          *)
(* chacha20_ctr_encrypt of that chunk alone, with the counter at 0.        *)
(***************************************************************************)
THEOREM CtrPerChunk == CipherSpec => []ChunksAreCtr
  BY ChunksFollow, CipherInvariance, PTL

-----------------------------------------------------------------------------
(* The samples.                                                            *)

(* Samples do not reach over the end of whole blocks. *)
From(x) == x * SAMPLE_SIZE

(* A block is a whole number of samples. *)
LEMMA SampleSize == SAMPLE_SIZE \in Nat /\ SAMPLE_SIZE > 0 /\ \E e \in Nat : SAMPLE_SIZE * e = 64
<1>1. PICK z : z = SAMPLE_SIZE
  OBVIOUS
<1>2. z \in Nat /\ z > 0 /\ 64 % z = 0
  BY <1>1, ChunkAssumption
<1>3. PICK e : e = 64 \div z
  OBVIOUS
<1>4. e \in Nat /\ z * e = 64
  BY <1>2, <1>3, SMT
<1> QED
  BY <1>1, <1>2, <1>4

(* Where a sample begins. *)
LEMMA FromIs ==
  ASSUME NEW x \in Nat
  PROVE  From(x) \in Nat /\ SAMPLE_SIZE \in Nat /\ SAMPLE_SIZE > 0
         /\ \A y \in Nat : x <= y => From(x) <= From(y)
<1>1. SAMPLE_SIZE \in Nat /\ SAMPLE_SIZE > 0
  BY SampleSize
<1>2. ASSUME NEW y \in Nat, x <= y
      PROVE  x * SAMPLE_SIZE <= y * SAMPLE_SIZE /\ x * SAMPLE_SIZE \in Nat
  BY <1>1, <1>2, Grows
<1>3. x * SAMPLE_SIZE \in Nat
  BY <1>2
<1> QED
  BY <1>1, <1>2, <1>3 DEF From

(* A sample that begins within r blocks ends there. *)
LEMMA SliceEnds ==
  ASSUME NEW r \in Nat, NEW x \in Nat, From(x) < 64 * r
  PROVE  From(x) + SAMPLE_SIZE <= 64 * r
<1>1. PICK z : z = SAMPLE_SIZE
  OBVIOUS
<1>2. PICK e \in Nat : z \in Nat /\ z > 0 /\ z * e = 64
  BY <1>1, SampleSize
<1>3. PICK y \in Nat : y = e * r
  BY <1>2
<1>4. 64 * r = y * z
  BY ONLY <1>2, <1>3, r \in Nat, SMT
<1>5. x * z < y * z
  BY <1>1, <1>4 DEF From
<1>6. ~(y <= x)
  <2>1. y <= x => y * z <= x * z /\ y * z \in Nat /\ x * z \in Nat
    BY <1>2, Grows
  <2>2. x * z \in Nat /\ y * z \in Nat
    BY <1>2, Grows
  <2>3. PICK a, b : a = x * z /\ b = y * z
    OBVIOUS
  <2>4. a \in Nat /\ b \in Nat /\ a < b /\ (y <= x => b <= a)
    BY <1>5, <2>1, <2>2, <2>3
  <2> QED
    BY ONLY <2>4, y \in Nat
<1>7. x + 1 <= y /\ x + 1 \in Nat
  BY <1>6
<1>8. (x + 1) * z <= y * z
  BY <1>2, <1>7, Grows
<1>9. (x + 1) * z = (x * z) + z
  BY <1>2, SMT
<1> QED
  BY <1>1, <1>4, <1>8, <1>9 DEF From

(* A sampled slice of a ciphertext. *)
Slice(cph, x) == SubSeq(cph, From(x) + 1, From(x) + SAMPLE_SIZE)

(* Its bytes. *)
LEMMA SliceIs ==
  ASSUME NEW cph \in Seq(Byte), NEW x \in Nat, From(x) + SAMPLE_SIZE <= Len(cph)
  PROVE  /\ Slice(cph, x) \in Seq(Byte) /\ Len(Slice(cph, x)) = SAMPLE_SIZE
         /\ \A i \in 1 .. SAMPLE_SIZE : Slice(cph, x)[i] = cph[From(x) + i]
<1>1. PICK f, z : f = From(x) /\ z = SAMPLE_SIZE
  OBVIOUS
<1>2. f \in Nat /\ z \in Nat
  BY <1>1, FromIs
<1>3. f + z \in Nat /\ f <= f + z /\ f + z <= Len(cph)
  BY <1>1, <1>2
<1>4. IsPart(Part(cph, f, f + z), Byte, cph, f, f + z)
  BY <1>2, <1>3, PartIs
<1>5. Slice(cph, x) = Part(cph, f, f + z) /\ (f + z) - f = z
  BY <1>1, <1>2 DEF Slice, Part
<1> QED
  BY <1>1, <1>4, <1>5 DEF IsPart

(* The slices of the samples of a list that begin from a to below b. *)
SliceStep(cph, a, b) ==
  [s \in Seq(Nat) |-> [x \in Nat |-> IF From(x) >= a /\ From(x) < b THEN s \o Slice(cph, x) ELSE s]]
SlicesIn(cph, a, b, list) == Along(SliceStep(cph, a, b), <<>>, list)
Covers(cph, b) == cph \in Seq(Byte) /\ \A x \in Nat : From(x) < b => From(x) + SAMPLE_SIZE <= Len(cph)

(* One more sample. *)
LEMMA SliceStepIs ==
  ASSUME NEW cph, NEW a, NEW b, Covers(cph, b), NEW s \in Seq(Byte), NEW x \in Nat
  PROVE  /\ SliceStep(cph, a, b)[s][x] = IF From(x) >= a /\ From(x) < b THEN s \o Slice(cph, x) ELSE s
         /\ SliceStep(cph, a, b)[s][x] \in Seq(Byte)
         /\ From(x) < b => Slice(cph, x) \in Seq(Byte)
<1>1. s \in Seq(Nat)
  BY BytesAre
<1>2. SliceStep(cph, a, b)[s][x] = IF From(x) >= a /\ From(x) < b THEN s \o Slice(cph, x) ELSE s
  BY <1>1 DEF SliceStep
<1>3. From(x) < b => Slice(cph, x) \in Seq(Byte)
  BY SliceIs DEF Covers
<1>4. From(x) < b => s \o Slice(cph, x) \in Seq(Byte)
  BY <1>3, TwoParts
<1> QED
  BY <1>2, <1>3, <1>4

(* The slices are bytes. *)
LEMMA SlicesAre ==
  ASSUME NEW cph, NEW a, NEW b, Covers(cph, b), NEW list \in Seq(Nat)
  PROVE  SlicesIn(cph, a, b, list) \in Seq(Byte)
<1>1. PICK I : I = Seq(Byte)
  OBVIOUS
<1>2. <<>> \in I
  BY <1>1
<1>3. \A s \in I : \A x \in Nat : SliceStep(cph, a, b)[s][x] \in I
  BY <1>1, SliceStepIs
<1>4. SlicesIn(cph, a, b, list) \in I
  BY <1>2, <1>3, AlongStays DEF SlicesIn
<1> QED
  BY <1>1, <1>4

(* After j samples: the slices before a, and those from a on, of which     *)
(* there are none until the samples have come to a.                       *)
Parted(x, z, u, list, a, j) ==
  /\ z[j] \in Seq(Byte) /\ u[j] \in Seq(Byte) /\ x[j] = z[j] \o u[j]
  /\ u[j] = <<>> \/ \E i \in 1 .. j : From(list[i]) >= a

(* With an ascending list the slices up to a come before those from a on. *)
LEMMA SlicesSplit ==
  ASSUME NEW cph, NEW a \in Nat, NEW b \in Nat, a <= b, Covers(cph, b), NEW list \in Seq(Nat), Ascending(list)
  PROVE  SlicesIn(cph, 0, b, list) = SlicesIn(cph, 0, a, list) \o SlicesIn(cph, a, b, list)
<1>1. PICK n \in Nat : n = Len(list)
  OBVIOUS
<1>2. PICK x : Follows(x, SliceStep(cph, 0, b), <<>>, list, n) /\ SlicesIn(cph, 0, b, list) = x[n]
  BY <1>1, AlongHas DEF SlicesIn
<1>3. PICK z : Follows(z, SliceStep(cph, 0, a), <<>>, list, n) /\ SlicesIn(cph, 0, a, list) = z[n]
  BY <1>1, AlongHas DEF SlicesIn
<1>4. PICK u : Follows(u, SliceStep(cph, a, b), <<>>, list, n) /\ SlicesIn(cph, a, b, list) = u[n]
  BY <1>1, AlongHas DEF SlicesIn
<1>5. Covers(cph, a)
  <2>1. ASSUME NEW y \in Nat, From(y) < a
        PROVE  From(y) < b
    BY <2>1, FromIs
  <2> QED
    BY <2>1 DEF Covers
<1>6. PICK N : N = {j \in 0 .. n : Parted(x, z, u, list, a, j)}
  OBVIOUS
<1>7. 0 \in N
  <2>1. x[0] = <<>> /\ z[0] = <<>> /\ u[0] = <<>>
    BY <1>2, <1>3, <1>4 DEF Follows
  <2>2. PICK e : e = <<>>
    OBVIOUS
  <2>3. e \in Seq(Byte) /\ e = e \o e
    BY <2>2, ConcatEmptySeq
  <2>4. Parted(x, z, u, list, a, 0)
    BY <2>1, <2>2, <2>3 DEF Parted
  <2> QED
    BY <1>1, <1>6, <2>4
<1>8. ASSUME NEW j \in 1 .. n, j - 1 \in N
      PROVE  j \in N
  <2>1. PICK e \in Nat : e = list[j]
    BY <1>1
  <2>2. PICK x0, z0, u0 : x0 = x[j - 1] /\ z0 = z[j - 1] /\ u0 = u[j - 1]
    OBVIOUS
  <2>3. /\ z0 \in Seq(Byte) /\ u0 \in Seq(Byte) /\ x0 = z0 \o u0
        /\ u0 = <<>> \/ \E i \in 1 .. j - 1 : From(list[i]) >= a
    BY <1>6, <1>8, <2>2 DEF Parted
  <2>4. x0 \in Seq(Byte)
    BY <2>3, TwoParts
  <2>5. /\ x[j] = SliceStep(cph, 0, b)[x0][e] /\ z[j] = SliceStep(cph, 0, a)[z0][e]
        /\ u[j] = SliceStep(cph, a, b)[u0][e]
    BY <1>2, <1>3, <1>4, <2>1, <2>2 DEF Follows
  <2>6. PICK f, p : f = From(e) /\ p = Slice(cph, e)
    OBVIOUS
  <2>7. f \in Nat
    BY <2>6, FromIs
  <2>8. /\ x[j] = IF f >= 0 /\ f < b THEN x0 \o p ELSE x0
        /\ f < b => p \in Seq(Byte)
    BY <2>4, <2>5, <2>6, SliceStepIs
  <2>9. z[j] = (IF f >= 0 /\ f < a THEN z0 \o p ELSE z0) /\ z[j] \in Seq(Byte)
    BY <1>5, <2>3, <2>5, <2>6, SliceStepIs
  <2>10. u[j] = (IF f >= a /\ f < b THEN u0 \o p ELSE u0) /\ u[j] \in Seq(Byte)
    BY <2>3, <2>5, <2>6, SliceStepIs
  <2>11. Parted(x, z, u, list, a, j)
    <3>1. CASE f < a
      <4>1. ASSUME NEW i \in 1 .. j - 1
            PROVE  ~(From(list[i]) >= a)
        <5>1. i \in DOMAIN list /\ j \in DOMAIN list /\ i < j /\ list[i] \in Nat
          BY <1>1
        <5>2. list[i] <= e
          BY <2>1, <5>1 DEF Ascending
        <5>3. From(list[i]) \in Nat /\ From(list[i]) <= f
          BY <2>6, <5>1, <5>2, FromIs
        <5> QED
          BY <2>7, <3>1, <5>3
      <4>2. u0 = <<>>
        BY <2>3, <4>1
      <4>3. x0 = z0
        BY <2>3, <4>2, ConcatEmptySeq
      <4>4. x[j] = z0 \o p /\ z[j] = z0 \o p /\ u[j] = <<>>
        BY <2>7, <2>8, <2>9, <2>10, <3>1, <4>2, <4>3
      <4>5. z[j] \o <<>> = z[j]
        BY <2>9, ConcatEmptySeq
      <4> QED
        BY <2>9, <2>10, <4>4, <4>5 DEF Parted
    <3>2. CASE f >= a /\ f < b
      <4>1. x[j] = (z0 \o u0) \o p /\ z[j] = z0 /\ u[j] = u0 \o p
        BY <2>3, <2>7, <2>8, <2>9, <2>10, <3>2, SMTT(30)
      <4>2. (z0 \o u0) \o p = z0 \o (u0 \o p)
        <5>1. p \in Seq(Byte) /\ z0 \in Seq(Byte) /\ u0 \in Seq(Byte)
          BY <2>3, <2>8, <3>2
        <5> QED
          BY ONLY <5>1, ConcatAssociative
      <4>3. j \in 1 .. j /\ From(list[j]) >= a
        BY <2>1, <2>6, <3>2
      <4> QED
        BY <2>9, <2>10, <4>1, <4>2, <4>3 DEF Parted
    <3>3. CASE ~(f < b)
      <4>1. ~(f < a)
        BY <2>7, <3>3
      <4>2. x[j] = x0 /\ z[j] = z0 /\ u[j] = u0
        BY <2>7, <2>8, <2>9, <2>10, <3>3, <4>1
      <4>3. \A i \in 1 .. j - 1 : i \in 1 .. j
        OBVIOUS
      <4> QED
        BY <2>3, <4>2, <4>3 DEF Parted
    <3>4. f < a \/ (f >= a /\ f < b) \/ ~(f < b)
      BY <2>7
    <3> QED
      BY <3>1, <3>2, <3>3, <3>4
  <2> QED
    BY <1>6, <2>11
<1>9. n \in N
  <2>1. 0 .. n \subseteq N
    BY <1>7, <1>8, InductionTo
  <2> QED
    BY <2>1
<1> QED
  BY <1>2, <1>3, <1>4, <1>6, <1>9 DEF Parted

(* Hashing the slices from o on, after those before. *)
HashStep(step, cph, o, b) ==
  \A y \in HashState : \A x \in Nat :
    step[y][x] = IF From(x) >= o /\ From(x) < b THEN process[Sha256][y][Slice(cph, x)] ELSE y
Hashed(st, z) == \E q : Within(Sha256, st, z, Len(z), q)
HashedAfter(y, z, u, j) == u[j] \in Seq(Byte) /\ \E a : a = z \o u[j] /\ Hashed(y[j], a)

(* One more piece hashed. *)
LEMMA HashedOne ==
  ASSUME NEW st, NEW z \in Seq(Byte), Hashed(st, z), NEW p \in Seq(Byte)
  PROVE  st \in HashState /\ Hashed(process[Sha256][st][p], z \o p)
<1>1. Sha256 \in Algs
  BY DEF Algs
<1>2. PICK q : Within(Sha256, st, z, Len(z), q)
  BY DEF Hashed
<1>3. st \in HashState
  BY <1>1, <1>2, WithinIs
<1>4. PICK all : all = z \o p
  OBVIOUS
<1>5. all \in Seq(Byte)
  BY <1>4, TwoParts
<1>6. Within(Sha256, st, all, Len(z), q)
  BY <1>1, <1>2, <1>4, WithinExtends
<1>7. p = Part(all, Len(z), Len(all))
  BY <1>4, Appended
<1>8. \E q2 : Within(Sha256, process[Sha256][st][p], all, Len(all), q2)
  BY <1>1, <1>5, <1>6, <1>7, ProcessWithin
<1> QED
  BY <1>3, <1>4, <1>8 DEF Hashed

(* What a fold over the samples hashes are the slices, one after another. *)
LEMMA SampledHashed ==
  ASSUME NEW cph, NEW o \in Nat, NEW b \in Nat, Covers(cph, b), NEW list \in Seq(Nat),
         NEW st, NEW z \in Seq(Byte), Hashed(st, z), NEW step, HashStep(step, cph, o, b)
  PROVE  Hashed(Along(step, st, list), z \o SlicesIn(cph, o, b, list))
<1>1. PICK n \in Nat : n = Len(list)
  OBVIOUS
<1>2. PICK y : Follows(y, step, st, list, n) /\ Along(step, st, list) = y[n]
  BY <1>1, AlongHas
<1>3. PICK u : Follows(u, SliceStep(cph, o, b), <<>>, list, n) /\ SlicesIn(cph, o, b, list) = u[n]
  BY <1>1, AlongHas DEF SlicesIn
<1>4. PICK N : N = {j \in 0 .. n : HashedAfter(y, z, u, j)}
  OBVIOUS
<1>5. 0 \in N
  <2>1. y[0] = st /\ u[0] = <<>>
    BY <1>2, <1>3 DEF Follows
  <2>2. z \o <<>> = z /\ <<>> \in Seq(Byte)
    BY ConcatEmptySeq
  <2>3. HashedAfter(y, z, u, 0)
    BY <2>1, <2>2 DEF HashedAfter
  <2> QED
    BY <1>1, <1>4, <2>3
<1>6. ASSUME NEW j \in 1 .. n, j - 1 \in N
      PROVE  j \in N
  <2>1. PICK e \in Nat : e = list[j]
    BY <1>1
  <2>2. PICK y0, u0, p : y0 = y[j - 1] /\ u0 = u[j - 1] /\ p = Slice(cph, e)
    OBVIOUS
  <2>3. u0 \in Seq(Byte) /\ Hashed(y0, z \o u0)
    BY <1>4, <1>6, <2>2 DEF HashedAfter
  <2>4. z \o u0 \in Seq(Byte)
    BY <2>3, TwoParts
  <2>5. y0 \in HashState
    <3>1. <<>> \in Seq(Byte)
      OBVIOUS
    <3> QED
      BY <2>3, <2>4, <3>1, HashedOne
  <2>6. y[j] = step[y0][e] /\ u[j] = SliceStep(cph, o, b)[u0][e]
    BY <1>2, <1>3, <2>1, <2>2 DEF Follows
  <2>7. y[j] = IF From(e) >= o /\ From(e) < b THEN process[Sha256][y0][p] ELSE y0
    BY <2>2, <2>5, <2>6 DEF HashStep
  <2>8. /\ u[j] = IF From(e) >= o /\ From(e) < b THEN u0 \o p ELSE u0
        /\ u[j] \in Seq(Byte) /\ (From(e) < b => p \in Seq(Byte))
    BY <2>2, <2>3, <2>6, SliceStepIs
  <2>9. CASE From(e) >= o /\ From(e) < b
    <3>1. p \in Seq(Byte) /\ u[j] = u0 \o p /\ y[j] = process[Sha256][y0][p]
      BY <2>7, <2>8, <2>9
    <3>2. (z \o u0) \o p = z \o (u0 \o p)
      BY <2>3, <3>1, ConcatAssociative, SMTT(30)
    <3>3. Hashed(y[j], (z \o u0) \o p)
      BY <2>3, <2>4, <3>1, HashedOne
    <3>4. HashedAfter(y, z, u, j)
      BY <2>8, <3>1, <3>2, <3>3 DEF HashedAfter
    <3> QED
      BY <1>4, <3>4
  <2>10. CASE ~(From(e) >= o /\ From(e) < b)
    <3>1. y[j] = y0 /\ u[j] = u0
      BY <2>7, <2>8, <2>10
    <3>2. HashedAfter(y, z, u, j)
      BY <2>3, <3>1 DEF HashedAfter
    <3> QED
      BY <1>4, <3>2
  <2> QED
    BY <2>9, <2>10
<1>7. n \in N
  <2>1. 0 .. n \subseteq N
    BY <1>5, <1>6, InductionTo
  <2> QED
    BY <2>1
<1> QED
  BY <1>2, <1>3, <1>4, <1>7 DEF HashedAfter

(* done gives the hash of what was hashed. *)
LEMMA HashedIs ==
  ASSUME NEW st, NEW z \in Seq(Byte), Hashed(st, z)
  PROVE  done(Sha256, st) = hash(Sha256, z)
<1>1. Sha256 \in Algs
  BY DEF Algs
<1>2. done(Sha256, st) = WholeDigest(Sha256, z)
  BY <1>1, DoneIsWhole DEF Hashed
<1>3. PICK e : e = <<>>
  OBVIOUS
<1>4. e \in Seq(Byte) /\ e \o z = z
  BY <1>3, ConcatEmptySeq
<1>5. Hashed(init(Sha256), e)
  BY <1>1, <1>3, InitWithin DEF Hashed
<1>6. Hashed(process[Sha256][init(Sha256)][z], e \o z)
  BY <1>4, <1>5, HashedOne
<1>7. done(Sha256, process[Sha256][init(Sha256)][z]) = WholeDigest(Sha256, z)
  BY <1>1, <1>4, <1>6, DoneIsWhole DEF Hashed
<1> QED
  BY <1>2, <1>7 DEF hash

(* Ciphertexts with the same slices. *)
LEMMA SlicesSame ==
  ASSUME NEW cph, NEW cph2, NEW b \in Nat, Covers(cph, b), NEW list \in Seq(Nat),
         \A x \in Nat : From(x) < b => Slice(cph, x) = Slice(cph2, x)
  PROVE  SlicesIn(cph, 0, b, list) = SlicesIn(cph2, 0, b, list)
<1>1. PICK I, f, g : I = Seq(Byte) /\ f = SliceStep(cph, 0, b) /\ g = SliceStep(cph2, 0, b)
  OBVIOUS
<1>2. ASSUME NEW s \in I, NEW x \in Nat
      PROVE  f[s][x] \in I /\ f[s][x] = g[s][x]
  <2>1. f[s][x] \in I /\ f[s][x] = IF From(x) >= 0 /\ From(x) < b THEN s \o Slice(cph, x) ELSE s
    BY <1>1, SliceStepIs
  <2>2. g[s][x] = IF From(x) >= 0 /\ From(x) < b THEN s \o Slice(cph2, x) ELSE s
    <3>1. s \in Seq(Nat)
      BY <1>1, BytesAre
    <3> QED
      BY <1>1, <3>1 DEF SliceStep
  <2> QED
    BY <2>1, <2>2
<1>3. <<>> \in I
  BY <1>1
<1>4. Agree(f, g, I, list, list)
  BY <1>2 DEF Agree
<1>5. Along(f, <<>>, list) = Along(g, <<>>, list)
  BY <1>3, <1>4, AlongAgree
<1> QED
  BY <1>1, <1>5 DEF SlicesIn

(* No slices before the first place. *)
LEMMA SlicesNone ==
  ASSUME NEW cph, NEW list \in Seq(Nat)
  PROVE  SlicesIn(cph, 0, 0, list) = <<>>
<1>1. PICK I : I = {<<>>}
  OBVIOUS
<1>2. ASSUME NEW s \in I, NEW x \in Nat
      PROVE  SliceStep(cph, 0, 0)[s][x] \in I
  <2>1. s = <<>> /\ s \in Seq(Nat)
    BY <1>1
  <2>2. From(x) \in Nat
    BY FromIs
  <2>3. SliceStep(cph, 0, 0)[s][x] = IF From(x) >= 0 /\ From(x) < 0 THEN s \o Slice(cph, x) ELSE s
    BY <2>1 DEF SliceStep
  <2> QED
    BY <1>2, <2>2, <2>3
<1>3. <<>> \in I
  BY <1>1
<1>4. SlicesIn(cph, 0, 0, list) \in I
  BY <1>2, <1>3, AlongStays DEF SlicesIn
<1> QED
  BY <1>1, <1>4

-----------------------------------------------------------------------------
(* The ciphertext of a stream. *)
CipherText(k, s) == Joined(Tail(StreamFor("sample", k, s)))

(* The sampling function enciphers blocks of 64 bytes. *)
LEMMA SampleMode == "sample" \in CbcModes /\ CipherBlock("sample") = 64 /\ 64 \in BlockSizes
  BY DEF CbcModes, CipherBlock, BlockSizes

(* The ciphertext byte for byte. *)
LEMMA CipherTextIs ==
  ASSUME NEW k \in DOMAIN KeyBytes, NEW s \in Seq(Byte), NEW B, B = StreamFor("sample", k, s),
         NEW l, l = Blocks(64, Len(s))
  PROVE  /\ l \in Nat /\ Len(s) <= 64 * l /\ 64 * l < Len(s) + 64 /\ IsStream(B, "sample", k, s)
         /\ CipherText(k, s) \in Bytes(64 * l)
         /\ \A p \in 1 .. 64 * l : CipherText(k, s)[p] = StreamByte(B, 64, p)
<1>1. IsStream(B, "sample", k, s)
  BY SampleMode, StreamIs
<1>2. B \in Seq(Bytes(64)) /\ Len(B) = l + 1
  BY <1>1, SampleMode DEF IsStream
<1>3. Len(s) \in Nat
  OBVIOUS
<1>4. l \in Nat /\ Len(s) <= 64 * l /\ 64 * l < Len(s) + 64
  BY <1>3, Blocks64
<1>5. PICK T, t : T = Bytes(64) /\ t = Tail(B)
  OBVIOUS
<1>6. t \in Seq(T) /\ Len(t) = l /\ \A i \in 1 .. l : t[i] = B[i + 1]
  BY <1>2, <1>4, <1>5
<1>7. PICK n : n = 64 * l
  OBVIOUS
<1>8. Joined(t) \in Bytes(n) /\ \A p \in 1 .. n : Joined(t)[p] = BlockByte(t, 64, p)
  BY <1>5, <1>6, <1>7, SampleMode, JoinedBlocks
<1>9. n \in Nat
  BY <1>4, <1>7
<1>10. ASSUME NEW p \in 1 .. n
       PROVE  BlockByte(t, 64, p) = StreamByte(B, 64, p)
  <2>1. PICK q : q = (p - 1) \div 64
    OBVIOUS
  <2>2. q \in Nat /\ q + 1 \in 1 .. l
    BY ONLY <1>4, <1>7, <1>9, <1>10, <2>1, SMT
  <2>3. t[q + 1] = B[(q + 1) + 1] /\ (q + 1) + 1 = q + 2
    BY <1>6, <2>2
  <2> QED
    BY <2>1, <2>3 DEF BlockByte, StreamByte
<1> QED
  BY <1>1, <1>4, <1>5, <1>7, <1>8, <1>10 DEF CipherText

(* What lies within a stream lies within its ciphertext. *)
LEMMA TextCovers ==
  ASSUME NEW k \in DOMAIN KeyBytes, NEW s \in Seq(Byte), NEW b \in Nat, b <= Len(s)
  PROVE  Covers(CipherText(k, s), b)
<1>1. PICK B, l : B = StreamFor("sample", k, s) /\ l = Blocks(64, Len(s))
  OBVIOUS
<1>2. l \in Nat /\ Len(s) <= 64 * l /\ CipherText(k, s) \in Bytes(64 * l)
  BY <1>1, CipherTextIs
<1>3. ASSUME NEW x \in Nat, From(x) < b
      PROVE  From(x) + SAMPLE_SIZE <= 64 * l
  <2>1. From(x) \in Nat
    BY FromIs
  <2>2. From(x) < 64 * l
    <3>1. PICK f, n, e : f = From(x) /\ n = Len(s) /\ e = 64 * l /\ f \in Nat /\ n \in Nat /\ e \in Nat
      BY <1>2, <2>1
    <3> QED
      BY <1>2, <1>3, <3>1
  <2> QED
    BY <1>2, <2>2, SliceEnds
<1> QED
  BY <1>2, <1>3 DEF Covers, Bytes

(* The slice a thread reads back from what it has written. *)
LEMMA SliceRead ==
  ASSUME NEW k \in DOMAIN KeyBytes, NEW s, NEW ch, NEW o, ChunkOf(ch, s, 64, o), NEW B, B = StreamFor("sample", k, s),
         NEW d, Multiple(64, d), Len(ch) <= d, d < Len(ch) + 64, NEW mem, NEW base, Written_(mem, base, d, B, 64, o),
         NEW x \in Nat, From(x) >= o, From(x) < o + Len(ch)
  PROVE  SubSeq(mem, ((base + From(x)) - o) + 1, ((base + From(x)) - o) + SAMPLE_SIZE) = Slice(CipherText(k, s), x)
<1>1. PICK f, z, n, l : f = From(x) /\ z = SAMPLE_SIZE /\ n = Len(ch) /\ l = Blocks(64, Len(s))
  OBVIOUS
<1>2. /\ f \in Nat /\ z \in Nat /\ n \in Nat /\ o \in Nat /\ d \in Nat /\ base \in Nat
      /\ f >= o /\ f < o + n /\ n <= d /\ d < n + 64
  BY <1>1, FromIs DEF ChunkOf, Multiple, Written_
<1>3. s \in Seq(Byte) /\ Len(s) = o + n
  BY <1>1 DEF ChunkOf
<1>4. /\ l \in Nat /\ Len(s) <= 64 * l /\ CipherText(k, s) \in Bytes(64 * l)
      /\ \A p \in 1 .. 64 * l : CipherText(k, s)[p] = StreamByte(B, 64, p)
  BY <1>1, <1>3, CipherTextIs
<1>5. PICK r \in Nat : o + d = 64 * r
  <2>1. Multiple(64, o + d)
    BY SampleMode, MultipleSum DEF ChunkOf
  <2> QED
    BY <2>1, SampleMode, MultipleIs
<1>6. f + z <= o + d
  <2>1. f < 64 * r
    BY ONLY <1>2, <1>5
  <2>2. f + z <= 64 * r
    BY <1>1, <2>1, SliceEnds
  <2> QED
    BY <1>5, <2>2
<1>7. f + z <= 64 * l
  <2>1. f < 64 * l
    BY ONLY <1>2, <1>3, <1>4
  <2> QED
    BY <1>1, <1>4, <2>1, SliceEnds
<1>8. PICK g : g = (base + f) - o
  OBVIOUS
<1>9. g \in Nat /\ g >= base /\ g + z <= base + d /\ g <= g + z /\ g + z \in Nat /\ (g + z) - g = z
  BY ONLY <1>2, <1>6, <1>8
<1>10. mem \in Seq(Byte) /\ base + d <= Len(mem) /\ Len(mem) \in Nat
  BY DEF Written_
<1>11. g + z <= Len(mem)
  BY ONLY <1>2, <1>9, <1>10
<1>12. IsPart(Part(mem, g, g + z), Byte, mem, g, g + z)
  BY <1>9, <1>10, <1>11, PartIs
<1>13. PICK u : u = Part(mem, g, g + z)
  OBVIOUS
<1>14. u \in Seq(Byte) /\ Len(u) = z /\ \A i \in 1 .. z : u[i] = mem[g + i]
  BY <1>9, <1>12, <1>13 DEF IsPart
<1>15. CipherText(k, s) \in Seq(Byte) /\ f + z <= Len(CipherText(k, s))
  BY <1>4, <1>7 DEF Bytes
<1>16. PICK v : v = Slice(CipherText(k, s), x)
  OBVIOUS
<1>17. v \in Seq(Byte) /\ Len(v) = z /\ \A i \in 1 .. z : v[i] = CipherText(k, s)[f + i]
  BY <1>1, <1>15, <1>16, SliceIs
<1>18. ASSUME NEW i \in 1 .. z
       PROVE  u[i] = v[i]
  <2>1. PICK p : p = (f - o) + i
    OBVIOUS
  <2>2. p \in 1 .. d /\ base + p = g + i /\ o + p = f + i
    BY ONLY <1>2, <1>6, <1>8, <1>18, <2>1
  <2>3. f + i \in 1 .. 64 * l
    BY ONLY <1>2, <1>4, <1>7, <1>18
  <2>4. mem[base + p] = StreamByte(B, 64, o + p)
    BY <2>2 DEF Written_
  <2> QED
    BY <1>4, <1>14, <1>17, <2>2, <2>3, <2>4
<1>19. u = v
  BY <1>14, <1>17, <1>18, SameSeq
<1> QED
  BY <1>1, <1>8, <1>13, <1>16, <1>19 DEF Part

(* B and C hold the same blocks as far as s goes, when s is whole blocks of w. *)
SameBlocks(B, C, s, w) == \A q \in Nat : Len(s) = w * q => \A j \in 0 .. q : B[j + 1] = C[j + 1]

(* The blocks of a stream of whole blocks, in a longer stream. *)
LEMMA LongerSame ==
  ASSUME NEW m \in CbcModes, NEW k \in DOMAIN KeyBytes, NEW s, NEW t, Begins(s, t),
         NEW B, IsStream(B, m, k, s), NEW C, IsStream(C, m, k, t)
  PROVE  SameBlocks(B, C, s, CipherBlock(m))
<1> DEFINE w == CipherBlock(m)
<1>1. w \in Nat
  BY CipherBlockIs
<1>. HIDE DEF w
<1>2. ASSUME NEW q \in Nat, Len(s) = w * q
      PROVE  \A j \in 0 .. q : B[j + 1] = C[j + 1]
  <2>1. w * q <= Len(s) /\ w * q <= Len(t) /\ \A i \in 1 .. w * q : s[i] = t[i]
    BY <1>2 DEF Begins
  <2>2. s \in Seq(Byte) /\ t \in Seq(Byte)
    BY DEF Begins
  <2>3. w = CipherBlock(m)
    BY DEF w
  <2> QED
    BY <2>1, <2>2, <2>3, StreamSame
<1> QED
  BY <1>2 DEF SameBlocks, w

(* A longer stream has the same slices. *)
LEMMA TextGrows ==
  ASSUME NEW k \in DOMAIN KeyBytes, NEW s \in Seq(Byte), NEW t \in Seq(Byte), Multiple(64, Len(s)), Len(s) <= Len(t),
         \A i \in 1 .. Len(s) : s[i] = t[i], NEW list \in Seq(Nat)
  PROVE  SlicesIn(CipherText(k, s), 0, Len(s), list) = SlicesIn(CipherText(k, t), 0, Len(s), list)
<1>1. PICK r \in Nat : Len(s) = 64 * r
  BY SampleMode, MultipleIs
<1>2. PICK B, C, l, m : /\ B = StreamFor("sample", k, s) /\ C = StreamFor("sample", k, t)
                        /\ l = Blocks(64, Len(s)) /\ m = Blocks(64, Len(t))
  OBVIOUS
<1>3. /\ l \in Nat /\ Len(s) <= 64 * l /\ IsStream(B, "sample", k, s) /\ CipherText(k, s) \in Bytes(64 * l)
      /\ \A p \in 1 .. 64 * l : CipherText(k, s)[p] = StreamByte(B, 64, p)
  BY <1>2, CipherTextIs
<1>4. /\ m \in Nat /\ Len(t) <= 64 * m /\ IsStream(C, "sample", k, t) /\ CipherText(k, t) \in Bytes(64 * m)
      /\ \A p \in 1 .. 64 * m : CipherText(k, t)[p] = StreamByte(C, 64, p)
  BY <1>2, CipherTextIs
<1>5. Len(s) \in Nat /\ Len(t) \in Nat
  OBVIOUS
<1>6. \A j \in 0 .. r : B[j + 1] = C[j + 1]
  <2>1. PICK w, a : w = 64 /\ a = "sample"
    OBVIOUS
  <2>2. a \in CbcModes /\ w = CipherBlock(a) /\ IsStream(B, a, k, s) /\ IsStream(C, a, k, t)
    BY <1>3, <1>4, <2>1, SampleMode
  <2>3. Begins(s, t)
    BY DEF Begins
  <2>4. SameBlocks(B, C, s, CipherBlock(a))
    BY ONLY k \in DOMAIN KeyBytes, <2>2, <2>3, LongerSame
  <2>5. SameBlocks(B, C, s, w)
    BY ONLY <2>2, <2>4
  <2> QED
    BY <1>1, <2>1, <2>5 DEF SameBlocks
<1>7. ASSUME NEW p \in 1 .. 64 * r
      PROVE  CipherText(k, s)[p] = CipherText(k, t)[p]
  <2>1. p \in 1 .. 64 * l /\ p \in 1 .. 64 * m
    BY ONLY <1>1, <1>3, <1>4, <1>5, <1>7, Len(s) <= Len(t)
  <2>2. PICK q : q = (p - 1) \div 64
    OBVIOUS
  <2>3. q \in Nat /\ q + 1 \in 0 .. r /\ (q + 1) + 1 = q + 2
    BY ONLY <1>7, <2>2, r \in Nat, SMT
  <2>4. B[q + 2] = C[q + 2]
    BY <1>6, <2>3
  <2> QED
    BY <1>3, <1>4, <2>1, <2>2, <2>4 DEF StreamByte
<1>8. ASSUME NEW x \in Nat, From(x) < Len(s)
      PROVE  Slice(CipherText(k, s), x) = Slice(CipherText(k, t), x)
  <2>1. PICK f, z : f = From(x) /\ z = SAMPLE_SIZE
    OBVIOUS
  <2>2. f \in Nat /\ z \in Nat /\ f + z <= 64 * r
    BY <1>1, <1>8, <2>1, FromIs, SliceEnds
  <2>3. /\ CipherText(k, s) \in Seq(Byte) /\ CipherText(k, t) \in Seq(Byte)
        /\ Len(CipherText(k, s)) = 64 * l /\ Len(CipherText(k, t)) = 64 * m
    BY <1>3, <1>4 DEF Bytes
  <2>4. f + z <= 64 * l /\ f + z <= 64 * m
    BY ONLY <1>1, <1>3, <1>4, <1>5, <2>2, Len(s) <= Len(t)
  <2>5. PICK u, v : u = Slice(CipherText(k, s), x) /\ v = Slice(CipherText(k, t), x)
    OBVIOUS
  <2>6. u \in Seq(Byte) /\ Len(u) = z /\ \A i \in 1 .. z : u[i] = CipherText(k, s)[f + i]
    BY <2>1, <2>3, <2>4, <2>5, SliceIs
  <2>7. v \in Seq(Byte) /\ Len(v) = z /\ \A i \in 1 .. z : v[i] = CipherText(k, t)[f + i]
    BY <2>1, <2>3, <2>4, <2>5, SliceIs
  <2>8. \A i \in 1 .. z : f + i \in 1 .. 64 * r
    BY ONLY <2>2, r \in Nat
  <2>9. \A i \in 1 .. z : u[i] = v[i]
    BY <1>7, <2>6, <2>7, <2>8
  <2> QED
    BY <2>5, <2>6, <2>7, <2>9, SameSeq
<1>9. Covers(CipherText(k, s), Len(s))
  BY <1>5, TextCovers
<1> QED
  BY <1>5, <1>8, <1>9, SlicesSame

-----------------------------------------------------------------------------
(* The samples. *)
Sampling(st, k, s, b, list) == Hashed(st, SlicesIn(CipherText(k, s), 0, b, list))
SampleAt(N, gv, c, fin, sh, list) ==
  WholeFor("sample", N, Append(gv, SoFar(c))) =>
    \A k \in 1 .. N : \E s, b : /\ s = Joined(Append(gv, SoFar(c))) /\ b = IF k \in fin THEN Len(s) ELSE Offset(c)
                                /\ Sampling(sh[k], k, s, b, list)
SampleBetween(N, gv, sh, list) ==
  WholeFor("sample", N, gv) => \A k \in 1 .. N : Sampling(sh[k], k, Joined(gv), Len(Joined(gv)), list)

(* A longer stream. *)
LEMMA SamplingGrows ==
  ASSUME NEW k \in DOMAIN KeyBytes, NEW s, NEW t, Begins(s, t), Multiple(64, Len(s)), NEW list \in Seq(Nat),
         NEW st, Sampling(st, k, s, Len(s), list)
  PROVE  Sampling(st, k, t, Len(s), list)
<1>1. /\ s \in Seq(Byte) /\ t \in Seq(Byte) /\ Len(s) <= Len(t)
      /\ \A i \in 1 .. Len(s) : s[i] = t[i]
  BY DEF Begins
<1>2. SlicesIn(CipherText(k, s), 0, Len(s), list) = SlicesIn(CipherText(k, t), 0, Len(s), list)
  BY <1>1, TextGrows
<1> QED
  BY <1>2 DEF Sampling

(* Before the first call nothing has been hashed. *)
LEMMA SampleFirst ==
  ASSUME NEW N, NEW sh, \A k \in 1 .. N : sh[k] = init(Sha256), NEW list \in Seq(Nat)
  PROVE  SampleBetween(N, <<>>, sh, list)
<1>1. PICK e : e = <<>>
  OBVIOUS
<1>2. Joined(e) = e /\ Len(e) = 0
  BY <1>1, JoinedNothing
<1>3. \A cph : SlicesIn(cph, 0, 0, list) = e
  BY <1>1, SlicesNone
<1>4. Hashed(init(Sha256), e)
  BY <1>1, InitWithin DEF Hashed, Algs
<1>5. ASSUME NEW k \in 1 .. N
      PROVE  Sampling(sh[k], k, Joined(e), Len(Joined(e)), list)
  BY <1>2, <1>3, <1>4 DEF Sampling
<1> QED
  BY <1>1, <1>5 DEF SampleBetween

(* At a call's start: what was hashed lies before its first chunk. *)
LEMMA SampleStarts ==
  ASSUME NEW N, Known("sample", N), NEW gv, NEW c, NEW mem, NEW done_, CallState(N, gv, c, mem, done_), c.i = 0,
         NEW list \in Seq(Nat), NEW sh, SampleBetween(N, gv, sh, list)
  PROVE  SampleAt(N, gv, c, {}, sh, list)
<1>1. PICK m, w, g, s : m = "sample" /\ w = 64 /\ g = Joined(gv) /\ s = Joined(Append(gv, SoFar(c)))
  OBVIOUS
<1>2. m \in CbcModes /\ w = CipherBlock(m)
  BY <1>1, SampleMode
<1>3. ASSUME WholeFor(m, N, Append(gv, SoFar(c))), NEW k \in 1 .. N
      PROVE  Sampling(sh[k], k, s, Offset(c), list)
  <2>1. WholeFor(m, N, gv) /\ Begins(g, s) /\ Len(g) = Offset(c) /\ Multiple(w, Len(g))
    BY <1>1, <1>2, <1>3, CallsMeet
  <2>2. Sampling(sh[k], k, g, Len(g), list)
    BY <1>1, <2>1 DEF SampleBetween
  <2>3. k \in DOMAIN KeyBytes
    <3>1. N \in Nat /\ N <= Len(KeyBytes)
      BY DEF Known
    <3> QED
      BY <3>1, KeyAssumption
  <2>4. Sampling(sh[k], k, s, Len(g), list)
    BY <1>1, <2>1, <2>2, <2>3, SamplingGrows
  <2> QED
    BY <2>1, <2>4
<1> QED
  BY <1>1, <1>3 DEF SampleAt

(* The next chunk: what was hashed lies before it. *)
LEMMA SampleAdvances ==
  ASSUME NEW N, Known("sample", N), NEW gv, NEW c, NEW mem, NEW done_, CallState(N, gv, c, mem, done_),
         NEW fin, \A k \in 1 .. N : k \in fin, ~LastChunk(c),
         NEW c2, IsCall(c2), c2.in = c.in, c2.start = c.start, c2.i = c.i + 1,
         NEW list \in Seq(Nat), NEW sh, SampleAt(N, gv, c, fin, sh, list)
  PROVE  SampleAt(N, gv, c2, {}, sh, list)
<1>1. PICK m, w, s, t : m = "sample" /\ w = 64 /\ s = Joined(Append(gv, SoFar(c))) /\ t = Joined(Append(gv, SoFar(c2)))
  OBVIOUS
<1>2. m \in CbcModes /\ w = CipherBlock(m)
  BY <1>1, SampleMode
<1>3. ASSUME WholeFor(m, N, Append(gv, SoFar(c2))), NEW k \in 1 .. N
      PROVE  Sampling(sh[k], k, t, Offset(c2), list)
  <2>1. WholeFor(m, N, Append(gv, SoFar(c))) /\ Begins(s, t) /\ Len(s) = Offset(c2) /\ Multiple(w, Len(s))
    BY <1>1, <1>2, <1>3, ChunksMeet
  <2>2. Sampling(sh[k], k, s, Len(s), list)
    BY <1>1, <2>1 DEF SampleAt
  <2>3. k \in DOMAIN KeyBytes
    <3>1. N \in Nat /\ N <= Len(KeyBytes)
      BY DEF Known
    <3> QED
      BY <3>1, KeyAssumption
  <2>4. Sampling(sh[k], k, t, Len(s), list)
    BY <1>1, <2>1, <2>2, <2>3, SamplingGrows
  <2> QED
    BY <2>1, <2>4
<1> QED
  BY <1>1, <1>3 DEF SampleAt

(* The call returns: what was hashed is all there is. *)
LEMMA SampleReturns ==
  ASSUME NEW N, NEW gv, NEW c, IsCall(c), NEW fin, \A k \in 1 .. N : k \in fin, LastChunk(c),
         NEW list, NEW sh, SampleAt(N, gv, c, fin, sh, list)
  PROVE  SampleBetween(N, Append(gv, c.in), sh, list)
  BY LastSoFar DEF SampleAt, SampleBetween

(* A function of the threads. *)
PerThread(f, N) == f = [j \in 1 .. N |-> f[j]]

(* Thread k has done its chunk and hashes the samples in it. *)
SampleStep(step, c, mem, base) ==
  \A y \in HashState : \A x \in Nat :
    step[y][x] = IF From(x) >= Offset(c) /\ From(x) < Offset(c) + Len(Chunk(c))
                 THEN process[Sha256][y][SubSeq(mem, ((base + From(x)) - Offset(c)) + 1, ((base + From(x)) - Offset(c)) + SAMPLE_SIZE)]
                 ELSE y
SampleEnding(N, gv, c, mem, done_, fin, iv, k, base, step, sh, sh2, fin2, list) ==
  /\ Known("sample", N) /\ CallState(N, gv, c, mem, done_) /\ CbcDone("sample", N, c, fin, done_)
  /\ CbcAt("sample", N, gv, c, fin, iv, mem, done_) /\ k \in 1 .. N /\ done_[k] >= Len(Chunk(c)) /\ k \notin fin
  /\ fin2 = fin \union {k} /\ base = StrideFor("sample", c) * (k - 1) /\ SampleStep(step, c, mem, base)
  /\ list \in Seq(Nat) /\ Ascending(list) /\ SampleAt(N, gv, c, fin, sh, list)
  /\ PerThread(sh, N) /\ sh2 = [sh EXCEPT ![k] = Along(step, sh[k], list)]

(* A thread ends: it has hashed the slices up to the end of its chunk. *)
LEMMA SampleEnds ==
  ASSUME NEW N, NEW gv, NEW c, NEW mem, NEW done_, NEW fin, NEW iv, NEW k, NEW base, NEW step, NEW sh, NEW sh2, NEW fin2,
         NEW list, SampleEnding(N, gv, c, mem, done_, fin, iv, k, base, step, sh, sh2, fin2, list)
  PROVE  SampleAt(N, gv, c, fin2, sh2, list)
<1>1. /\ Known("sample", N) /\ CallState(N, gv, c, mem, done_) /\ CbcDone("sample", N, c, fin, done_)
      /\ CbcAt("sample", N, gv, c, fin, iv, mem, done_) /\ k \in 1 .. N /\ done_[k] >= Len(Chunk(c)) /\ k \notin fin
      /\ fin2 = fin \union {k} /\ base = StrideFor("sample", c) * (k - 1) /\ SampleStep(step, c, mem, base)
      /\ list \in Seq(Nat) /\ Ascending(list) /\ SampleAt(N, gv, c, fin, sh, list)
      /\ PerThread(sh, N) /\ sh2 = [sh EXCEPT ![k] = Along(step, sh[k], list)]
  BY DEF SampleEnding
<1>2. PICK m, w : m = "sample" /\ w = 64
  OBVIOUS
<1>3. m \in CbcModes /\ w = CipherBlock(m) /\ w \in BlockSizes
  BY <1>2, SampleMode
<1>4. N \in Nat /\ k \in DOMAIN KeyBytes
  <2>1. N \in Nat /\ N <= Len(KeyBytes)
    BY <1>1 DEF Known
  <2> QED
    BY <1>1, <2>1, KeyAssumption
<1>5. IsCall(c) /\ done_ \in [1 .. N -> Nat]
  BY <1>1 DEF CallState
<1>6. PICK o, d, ch : o = Offset(c) /\ d = done_[k] /\ ch = Chunk(c)
  OBVIOUS
<1>7. Multiple(w, d) /\ d \in Nat /\ d <= BLOCK_SIZE /\ Len(ch) <= d /\ d < Len(ch) + w /\ BLOCK_SIZE \in Nat
  <2>1. Multiple(w, d) /\ d \in Nat /\ d <= BLOCK_SIZE /\ d < Len(ch) + w
    <3>1. CbcDone(m, N, c, fin, done_) /\ k \in 1 .. N
      BY <1>1, <1>2
    <3> QED
      BY <1>3, <1>5, <1>6, <3>1, CbcSteps
  <2>2. BLOCK_SIZE \in Nat
    BY ChunkAssumption
  <2>3. Len(ch) <= d
    <3>1. PICK n, l : n = done_[k] /\ l = Len(Chunk(c)) /\ n >= l
      BY <1>1
    <3>2. n \in Nat /\ l \in Nat
      BY <1>1, <1>5, <3>1, ChunkSizes
    <3> QED
      BY <1>6, <3>1, <3>2
  <2> QED
    BY <2>1, <2>2, <2>3
<1>8. base \in Nat /\ mem \in Seq(Byte) /\ base + d <= Len(mem)
  <2>1. PICK stride, M, n : stride = StrideFor(m, c) /\ M = BLOCK_SIZE /\ n = N * M
    OBVIOUS
  <2>2. stride \in Nat /\ stride <= M /\ M \in Nat
    BY <1>5, <2>1, ChunkSizes
  <2>3. Total(n, N, M) /\ BeginsAt(base, stride, k)
    BY <1>1, <1>2, <2>1 DEF Total, BeginsAt
  <2>4. base \in Nat /\ n \in Nat /\ base + M <= n
    BY <1>1, <1>4, <2>2, <2>3, PartInside
  <2>5. mem \in Seq(Byte) /\ Len(mem) = n
    BY <1>1, <2>1 DEF CallState, Bytes
  <2>6. base + d <= n
    BY <1>7, <2>1, <2>2, <2>4
  <2> QED
    BY <2>4, <2>5, <2>6
<1>9. ASSUME WholeFor(m, N, Append(gv, SoFar(c))), NEW s, s = Joined(Append(gv, SoFar(c)))
      PROVE  Sampling(Along(step, sh[k], list), k, s, Len(s), list)
  <2>1. PICK B : B = StreamFor(m, k, s)
    OBVIOUS
  <2>2. ChunkOf(ch, s, w, o)
    BY <1>1, <1>3, <1>6, <1>9, CallStream
  <2>3. s \in Seq(Byte) /\ Len(s) = o + Len(ch) /\ o \in Nat /\ Len(ch) \in Nat
    BY <2>2 DEF ChunkOf, Multiple
  <2>4. \A p \in 1 .. d : mem[base + p] = StreamByte(B, w, o + p)
    BY <1>1, <1>2, <1>3, <1>6, <1>9, <2>1 DEF CbcAt, CbcKey
  <2>5. Written_(mem, base, d, B, w, o)
    BY <1>7, <1>8, <2>4 DEF Written_
  <2>6. PICK cph : cph = CipherText(k, s)
    OBVIOUS
  <2>7. Covers(cph, Len(s)) /\ Covers(cph, o)
    <3>1. o <= Len(s) /\ Len(s) \in Nat
      BY <2>3
    <3> QED
      BY <1>4, <2>3, <2>6, <3>1, TextCovers
  <2>8. HashStep(step, cph, o, Len(s))
    <3>1. ASSUME NEW x \in Nat, From(x) >= o, From(x) < o + Len(ch)
          PROVE  SubSeq(mem, ((base + From(x)) - o) + 1, ((base + From(x)) - o) + SAMPLE_SIZE) = Slice(cph, x)
      <4>1. ChunkOf(ch, s, 64, o) /\ B = StreamFor("sample", k, s) /\ Multiple(64, d) /\ d < Len(ch) + 64 /\ Written_(mem, base, d, B, 64, o)
        BY <1>2, <1>7, <2>1, <2>2, <2>5
      <4> QED
        BY <1>4, <1>7, <2>6, <3>1, <4>1, SliceRead
    <3> QED
      BY <1>1, <1>6, <2>3, <3>1 DEF HashStep, SampleStep
  <2>9. Sampling(sh[k], k, s, o, list)
    BY <1>1, <1>2, <1>6, <1>9 DEF SampleAt
  <2>10. PICK z, b : z = SlicesIn(cph, 0, o, list) /\ b = Len(s) /\ b \in Nat /\ o <= b
    BY <2>3
  <2>11. Hashed(sh[k], z)
    BY <2>6, <2>9, <2>10 DEF Sampling
  <2>12. z \in Seq(Byte)
    BY <1>1, <2>7, <2>10, SlicesAre
  <2>13. Hashed(Along(step, sh[k], list), z \o SlicesIn(cph, o, b, list))
    BY <1>1, <2>3, <2>7, <2>8, <2>10, <2>11, <2>12, SampledHashed
  <2>14. SlicesIn(cph, 0, b, list) = z \o SlicesIn(cph, o, b, list)
    BY <1>1, <2>3, <2>7, <2>10, SlicesSplit
  <2> QED
    BY <2>6, <2>10, <2>13, <2>14 DEF Sampling
<1>10. sh2[k] = Along(step, sh[k], list) /\ \A j \in 1 .. N : j # k => sh2[j] = sh[j]
  <2>1. PICK v : v = Along(step, sh[k], list)
    OBVIOUS
  <2>2. sh2 = [sh EXCEPT ![k] = v] /\ k \in 1 .. N
    BY <1>1, <2>1
  <2>3. PICK f : f = [j \in 1 .. N |-> sh[j]] /\ sh = f
    BY <1>1 DEF PerThread
  <2>4. sh2 = [f EXCEPT ![k] = v] /\ \A j \in 1 .. N : f[j] = sh[j]
    BY ONLY <2>2, <2>3
  <2>5. sh2[k] = v /\ \A j \in 1 .. N : j # k => sh2[j] = f[j]
    BY ONLY <2>2, <2>3, <2>4
  <2> QED
    BY <2>1, <2>4, <2>5
<1>11. ASSUME WholeFor(m, N, Append(gv, SoFar(c))), NEW s, s = Joined(Append(gv, SoFar(c))), NEW j \in 1 .. N
       PROVE  \E b : b = (IF j \in fin2 THEN Len(s) ELSE Offset(c)) /\ Sampling(sh2[j], j, s, b, list)
  <2>1. CASE j = k
    BY <1>1, <1>9, <1>10, <1>11, <2>1
  <2>2. CASE j # k
    BY <1>1, <1>2, <1>10, <1>11, <2>2 DEF SampleAt
  <2> QED
    BY <2>1, <2>2
<1> QED
  BY <1>2, <1>11 DEF SampleAt

(* The digests of the samples of what has been given. *)
SampleDone(N, gv, dg, list) ==
  WholeFor("sample", N, gv) =>
    \A k \in 1 .. N : dg[k] = hash(Sha256, SlicesIn(CipherText(k, Joined(gv)), 0, Len(Joined(gv)), list))

(* They are the hashes of the slices when every slice has been hashed. *)
LEMMA SampleDigests ==
  ASSUME NEW N, Known("sample", N), NEW gv \in Seq(Seq(Byte)), NEW list \in Seq(Nat), NEW sh, SampleBetween(N, gv, sh, list),
         NEW dg, dg = [k \in 1 .. N |-> done(Sha256, sh[k])]
  PROVE  SampleDone(N, gv, dg, list)
<1>1. PICK s : s = Joined(gv) /\ s \in Seq(Byte)
  BY JoinedIs
<1>2. ASSUME WholeFor("sample", N, gv), NEW k \in 1 .. N
      PROVE  dg[k] = hash(Sha256, SlicesIn(CipherText(k, s), 0, Len(s), list))
  <2>1. k \in DOMAIN KeyBytes
    <3>1. N \in Nat /\ N <= Len(KeyBytes)
      BY DEF Known
    <3> QED
      BY <3>1, KeyAssumption
  <2>2. PICK cph, b : cph = CipherText(k, s) /\ b = Len(s) /\ b \in Nat
    BY <1>1
  <2>3. Covers(cph, b)
    BY <1>1, <2>1, <2>2, TextCovers
  <2>4. PICK z : z = SlicesIn(cph, 0, b, list) /\ z \in Seq(Byte)
    BY <2>3, SlicesAre
  <2>5. Hashed(sh[k], z)
    BY <1>1, <1>2, <2>2, <2>4 DEF SampleBetween, Sampling
  <2>6. done(Sha256, sh[k]) = hash(Sha256, z)
    BY <2>4, <2>5, HashedIs
  <2> QED
    BY <2>2, <2>4, <2>6
<1> QED
  BY <1>1, <1>2 DEF SampleDone

-----------------------------------------------------------------------------
(* The invariant of the samples. *)
SampleCall == call # NoCall => SampleAt(num_keys, given, call, finished, sha, sample_idx)
SampleQuiet == call = NoCall => SampleBetween(num_keys, given, sha, sample_idx)
SampleEnd == digests # <<>> => SampleDone(num_keys, given, digests, sample_idx)
SampleInv ==
  /\ sample_idx \in Seq(Nat)
  /\ mode # "sample" => digests = <<>>
  /\ digests # <<>> => call = NoCall
  /\ mode = "sample" => PerThread(sha, num_keys)
  /\ mode = "sample" /\ Ascending(sample_idx) => SampleCall /\ SampleQuiet /\ SampleEnd

(* Initially. *)
LEMMA SampleInit == CipherInit => SampleInv
<1>1. <<>> \in Seq(Nat)
  OBVIOUS
<1> QED
  BY <1>1 DEF CipherInit, SampleInv

(* The set-up. *)
LEMMA SampleUse ==
  ASSUME CipherInv, SampleInv, NEW m \in Modes, NEW n \in DOMAIN KeyBytes, NEW samples \in Samples \union {<<>>}, Use(m, n, samples)
  PROVE  SampleInv'
<1>1. /\ mode' = m /\ num_keys' = n /\ sample_idx' = samples /\ mode = "none"
      /\ UNCHANGED <<given, call, finished, digests>>
      /\ m = "sample" => sha' = [k \in 1 .. n |-> init(Sha256)]
  BY DEF Use
<1>2. samples \in Seq(Nat)
  <2>1. CASE samples \in Samples
    BY <2>1, CallAssumption
  <2>2. CASE samples = <<>>
    BY <2>2
  <2> QED
    BY <2>1, <2>2
<1>3. digests = <<>> /\ given = <<>> /\ call = NoCall
  BY <1>1 DEF SampleInv, CipherInv, CallerOk, Enciphering, CbcModes
<1>4. ASSUME m = "sample"
      PROVE  PerThread(sha', n) /\ SampleBetween(n, <<>>, sha', samples)
  <2>1. PICK sh : sh = [k \in 1 .. n |-> init(Sha256)] /\ sha' = sh
    BY <1>1, <1>4
  <2>2. \A k \in 1 .. n : sh[k] = init(Sha256)
    BY <2>1
  <2>3. PerThread(sh, n)
    BY <2>1 DEF PerThread
  <2> QED
    BY <1>2, <2>1, <2>2, <2>3, SampleFirst
<1> QED
  BY <1>1, <1>2, <1>3, <1>4 DEF SampleInv, SampleCall, SampleQuiet, SampleEnd

(* A call: what was hashed before lies before its first chunk. *)
LEMMA SampleCalls ==
  ASSUME CipherInv, CipherInv', SampleInv, NEW in, Call(in)
  PROVE  SampleInv'
<1>1. /\ mode \notin {"none", "host"} /\ call = NoCall /\ digests = <<>>
      /\ UNCHANGED <<mode, num_keys, sample_idx, sha, given, digests>>
      /\ mode = "sample" => call' = [in |-> in, i |-> 0, start |-> Len(Joined(given))] /\ finished' = {}
  BY DEF Call
<1>2. ASSUME mode = "sample", Ascending(sample_idx)
      PROVE  call' # NoCall /\ SampleAt(num_keys, given, call', {}, sha, sample_idx)
  <2>1. PICK c : c = call' /\ c = [in |-> in, i |-> 0, start |-> Len(Joined(given))]
    BY <1>1, <1>2
  <2>2. c # NoCall
    <3>1. "in" \in DOMAIN c
      BY <2>1
    <3>2. DOMAIN NoCall = {}
      BY DEF NoCall
    <3> QED
      BY <3>1, <3>2
  <2>3. CallState(num_keys, given, c, out', at')
    BY <1>1, <2>1, <2>2 DEF CipherInv, CallOk, Good, NoCall
  <2>4. c.i = 0
    BY <2>1
  <2>5. Known("sample", num_keys) /\ SampleBetween(num_keys, given, sha, sample_idx) /\ sample_idx \in Seq(Nat)
    BY <1>1, <1>2 DEF CipherInv, CallerOk, Enciphering, CbcModes, SampleInv, SampleQuiet
  <2>6. SampleAt(num_keys, given, c, {}, sha, sample_idx)
    BY <2>3, <2>4, <2>5, SampleStarts
  <2> QED
    BY <2>1, <2>2, <2>6
<1> QED
  BY <1>1, <1>2 DEF SampleInv, SampleCall, SampleQuiet, SampleEnd, NoCall

(* Steps that leave the samples alone. *)
LEMMA SampleSame ==
  ASSUME SampleInv, UNCHANGED <<mode, num_keys, sample_idx, sha, given, call, finished, digests>>
  PROVE  SampleInv'
  BY DEF SampleInv, SampleCall, SampleQuiet, SampleEnd

(* A thread ends. *)
LEMMA SampleThread ==
  ASSUME CipherInv, SampleInv, NEW k \in KeyNumbers, ThreadEnds(k)
  PROVE  SampleInv'
<1>1. /\ call # NoCall /\ at[k] >= Len(Chunk(call)) /\ k \notin finished /\ finished' = finished \union {k}
      /\ UNCHANGED <<mode, num_keys, sample_idx, given, call, digests>>
      /\ mode = "sample" => sha' = [sha EXCEPT ![k] = Sampled(k)]
  BY DEF ThreadEnds
<1>2. /\ mode \in Enciphering /\ Known(mode, num_keys)
      /\ call \in CallRecords /\ Good(mode, num_keys, given, call, finished, ivec, out, at)
  BY <1>1, InCall
<1>3. digests = <<>>
  BY <1>1 DEF SampleInv
<1>4. k \in 1 .. num_keys
  BY DEF KeyNumbers
<1>5. ASSUME mode = "sample"
      PROVE  PerThread(sha', num_keys)
  <2>1. PICK f, N, v : f = [j \in 1 .. N |-> sha[j]] /\ sha = f /\ N = num_keys /\ v = Sampled(k)
    BY <1>5 DEF SampleInv, PerThread
  <2>2. sha' = [f EXCEPT ![k] = v]
    BY <1>1, <1>5, <2>1
  <2>3. PICK g : g = [f EXCEPT ![k] = v]
    OBVIOUS
  <2>4. g = [j \in 1 .. N |-> g[j]]
    BY ONLY <2>1, <2>3
  <2> QED
    BY <2>1, <2>2, <2>3, <2>4 DEF PerThread
<1>6. ASSUME mode = "sample", Ascending(sample_idx)
      PROVE  SampleAt(num_keys, given, call, finished', sha', sample_idx)
  <2>1. PICK step :
          /\ Sampled(k) = Along(step, sha[k], sample_idx)
          /\ step = [state \in HashState |-> [sample \in Nat |->
                       IF InChunk(sample)
                       THEN LET from == Stride(call) * (k - 1) + sample * SAMPLE_SIZE - Offset(call)
                            IN process[Sha256][state][SubSeq(out, from + 1, from + SAMPLE_SIZE)]
                       ELSE state]]
    BY DEF Sampled
  <2>2. PICK base : base = StrideFor("sample", call) * (k - 1) /\ base = Stride(call) * (k - 1)
    BY <1>6 DEF Stride, StrideFor
  <2>3. SampleStep(step, call, out, base)
    <3>1. PICK o : o = Offset(call) /\ o \in Int /\ base \in Int
      <4>1. k \in Int /\ BLOCK_SIZE \in Int /\ call.i \in Int /\ call.start \in Int
        <5>1. BLOCK_SIZE \in Int
          BY ChunkAssumption
        <5> QED
          BY <1>2, <1>4, <5>1 DEF CallRecords
      <4> QED
        BY <2>2, <4>1 DEF Offset, StrideFor
    <3>2. ASSUME NEW x \in Nat
          PROVE  /\ InChunk(x) <=> From(x) >= Offset(call) /\ From(x) < Offset(call) + Len(Chunk(call))
                 /\ Stride(call) * (k - 1) + x * SAMPLE_SIZE - Offset(call) = (base + From(x)) - Offset(call)
      <4>1. PICK f \in Nat : f = From(x) /\ f = x * SAMPLE_SIZE
        BY FromIs DEF From
      <4>2. base + (f - o) = (base + f) - o
        BY ONLY <3>1, f \in Nat
      <4>3. Stride(call) * (k - 1) + x * SAMPLE_SIZE - Offset(call) = base + (f - o)
        BY <2>2, <3>1, <4>1
      <4> QED
        BY <3>1, <4>1, <4>2, <4>3 DEF InChunk
    <3>3. ASSUME NEW y \in HashState, NEW x \in Nat
          PROVE  step[y][x] = IF InChunk(x)
                              THEN LET from == Stride(call) * (k - 1) + x * SAMPLE_SIZE - Offset(call)
                                   IN process[Sha256][y][SubSeq(out, from + 1, from + SAMPLE_SIZE)]
                              ELSE y
      BY <2>1
    <3> QED
      BY <3>2, <3>3 DEF SampleStep
  <2>4. /\ Known("sample", num_keys) /\ CallState(num_keys, given, call, out, at)
        /\ CbcDone("sample", num_keys, call, finished, at) /\ CbcAt("sample", num_keys, given, call, finished, ivec, out, at)
    BY <1>2, <1>6, SampleMode DEF Good
  <2>5. SampleAt(num_keys, given, call, finished, sha, sample_idx) /\ sample_idx \in Seq(Nat) /\ PerThread(sha, num_keys)
    BY <1>1, <1>6 DEF SampleInv, SampleCall
  <2>6. sha' = [sha EXCEPT ![k] = Along(step, sha[k], sample_idx)]
    BY <1>1, <1>6, <2>1
  <2>7. SampleEnding(num_keys, given, call, out, at, finished, ivec, k, base, step, sha, sha', finished', sample_idx)
    BY <1>1, <1>4, <1>6, <2>2, <2>4, <2>5, <2>6, <2>3 DEF SampleEnding
  <2> QED
    BY <2>7, SampleEnds
<1> QED
  BY <1>1, <1>3, <1>5, <1>6 DEF SampleInv, SampleCall, SampleQuiet, SampleEnd

(* The next chunk, or the call returns. *)
LEMMA SampleChunk ==
  ASSUME CipherInv, CipherInv', SampleInv, NextChunk
  PROVE  SampleInv'
<1>1. /\ call # NoCall /\ finished = KeyNumbers /\ finished' = {}
      /\ UNCHANGED <<mode, num_keys, sample_idx, sha, digests>>
      /\ LastChunk(call) => call' = NoCall /\ given' = Append(given, call.in)
      /\ ~LastChunk(call) => call' = [call EXCEPT !.i = @ + 1] /\ given' = given
  BY DEF NextChunk
<1>2. /\ mode \in Enciphering /\ Known(mode, num_keys)
      /\ call \in CallRecords /\ CallState(num_keys, given, call, out, at)
  BY <1>1, InCall DEF Good
<1>3. digests = <<>>
  BY <1>1 DEF SampleInv
<1>4. ASSUME mode = "sample", Ascending(sample_idx)
      PROVE  SampleAt(num_keys, given, call, finished, sha, sample_idx) /\ sample_idx \in Seq(Nat) /\ Known("sample", num_keys)
             /\ \A k \in 1 .. num_keys : k \in finished
  BY <1>1, <1>2, <1>4 DEF SampleInv, SampleCall, KeyNumbers
<1>5. CASE LastChunk(call)
  <2>1. ASSUME mode = "sample", Ascending(sample_idx)
        PROVE  SampleBetween(num_keys, given', sha, sample_idx)
    <3>1. IsCall(call)
      BY <1>2 DEF CallState
    <3>2. SampleBetween(num_keys, Append(given, call.in), sha, sample_idx)
      BY <1>4, <1>5, <2>1, <3>1, SampleReturns
    <3> QED
      BY <1>1, <1>5, <3>2
  <2> QED
    BY <1>1, <1>3, <1>5, <2>1 DEF SampleInv, SampleCall, SampleQuiet, SampleEnd, NoCall
<1>6. CASE ~LastChunk(call)
  <2>1. PICK c : c = call' /\ c = [call EXCEPT !.i = @ + 1]
    BY <1>1, <1>6
  <2>2. c \in CallRecords /\ c.in = call.in /\ c.start = call.start /\ c.i = call.i + 1
    BY <1>2, <2>1 DEF CallRecords
  <2>3. c # NoCall
    BY <2>2, CallIsSome
  <2>4. IsCall(c)
    <3>1. CallState(num_keys', given', c, out', at')
      BY <2>1, <2>3 DEF CipherInv, CallOk, Good, NoCall
    <3> QED
      BY <3>1 DEF CallState
  <2>5. ASSUME mode = "sample", Ascending(sample_idx)
        PROVE  SampleAt(num_keys, given, c, {}, sha, sample_idx)
    BY <1>2, <1>4, <1>6, <2>2, <2>4, <2>5, SampleAdvances
  <2> QED
    BY <1>1, <1>3, <1>6, <2>1, <2>3, <2>5 DEF SampleInv, SampleCall, SampleQuiet, SampleEnd, NoCall
<1> QED
  BY <1>5, <1>6

(* The digests. *)
LEMMA SampleFinal ==
  ASSUME CipherInv, SampleInv, EndShaState
  PROVE  SampleInv'
<1>1. /\ mode = "sample" /\ call = NoCall /\ digests' = [k \in 1 .. num_keys |-> done(Sha256, sha[k])]
      /\ UNCHANGED <<mode, num_keys, sample_idx, sha, given, call, finished>>
  BY DEF EndShaState, KeyNumbers
<1>2. ASSUME Ascending(sample_idx)
      PROVE  SampleDone(num_keys, given, digests', sample_idx)
  <2>1. PICK dg : dg = digests' /\ dg = [k \in 1 .. num_keys |-> done(Sha256, sha[k])]
    BY <1>1
  <2>2. Known("sample", num_keys) /\ given \in Seq(Seq(Byte))
    BY <1>1 DEF CipherInv, CallerOk, Enciphering, CbcModes
  <2>3. SampleBetween(num_keys, given, sha, sample_idx) /\ sample_idx \in Seq(Nat)
    BY <1>1, <1>2 DEF SampleInv, SampleQuiet
  <2> QED
    BY <2>1, <2>2, <2>3, SampleDigests
<1> QED
  BY <1>1, <1>2 DEF SampleInv, SampleCall, SampleQuiet, SampleEnd, NoCall

(* The host's encryption and decryption has no samples. *)
LEMMA SampleTrip ==
  ASSUME SampleInv, NEW k, NEW bits, NEW in, RoundTrip(k, bits, in)
  PROVE  SampleInv'
<1>1. mode = "none" /\ mode' = "host" /\ UNCHANGED <<sample_idx, call, digests>>
  BY DEF RoundTrip
<1> QED
  BY <1>1 DEF SampleInv

(* Every step keeps the invariant. *)
LEMMA SampleSteps == CipherInv /\ CipherInv' /\ SampleInv /\ [Cipher]_cipherVars => SampleInv'
<1> SUFFICES ASSUME CipherInv, CipherInv', SampleInv, [Cipher]_cipherVars
             PROVE  SampleInv'
  OBVIOUS
<1>1. CASE \E m \in Modes, n \in DOMAIN KeyBytes, samples \in Samples \union {<<>>} : Use(m, n, samples)
  BY <1>1, SampleUse
<1>2. CASE \E in \in Inputs(calls + 1) : Call(in)
  BY <1>2, SampleCalls
<1>3. CASE \E k \in KeyNumbers : ThreadBlock(k) \/ ThreadEnds(k)
  <2>1. ASSUME NEW k, ThreadBlock(k)
        PROVE  SampleInv'
    BY <2>1, SampleSame DEF ThreadBlock
  <2> QED
    BY <1>3, <2>1, SampleThread
<1>4. CASE NextChunk
  BY <1>4, SampleChunk
<1>5. CASE EndShaState
  BY <1>5, SampleFinal
<1>6. CASE \E k \in DOMAIN KeyBytes, bits \in {128, 192, 256}, in \in Trips : RoundTrip(k, bits, in)
  BY <1>6, SampleTrip
<1>7. CASE UNCHANGED cipherVars
  BY <1>7, SampleSame DEF cipherVars
<1> QED
  BY <1>1, <1>2, <1>3, <1>4, <1>5, <1>6, <1>7 DEF Cipher

(***************************************************************************)
(* The inductive invariant of chacha_cbc_encrypt_many_sample with an       *)
(* ascending sample list: a key's SHA-256 state has taken in exactly the   *)
(* sampled slices of its one-shot ciphertext up to the start of the chunk, *)
(* or up to its end once the thread has ended.                             *)
(***************************************************************************)
THEOREM SampleInvariance == CipherSpec => []SampleInv
  BY CipherInvariance, SampleInit, SampleSteps, PTL DEF CipherSpec

(* What it says of the property. *)
LEMMA SamplesFollow == CipherInv /\ SampleInv => SamplesMatch
<1> SUFFICES ASSUME CipherInv, SampleInv, digests # <<>>, Whole(given), Ascending(sample_idx), NEW k \in KeyNumbers
             PROVE  digests[k] = hash(Sha256, Slices(k))
  BY DEF SamplesMatch
<1>1. mode = "sample" /\ k \in 1 .. num_keys /\ sample_idx \in Seq(Nat)
  BY DEF SampleInv, KeyNumbers
<1>2. WholeFor("sample", num_keys, given)
  BY <1>1 DEF Whole, WholeFor, Alone, AloneFor
<1>3. PICK s, cph, b : s = Joined(given) /\ cph = CipherText(k, s) /\ b = Len(s)
  OBVIOUS
<1>4. digests[k] = hash(Sha256, SlicesIn(cph, 0, b, sample_idx))
  BY <1>1, <1>2, <1>3 DEF SampleInv, SampleEnd, SampleDone
<1>5. cph = Joined(Tail(StreamOf(k, s)))
  BY <1>1, <1>3, StreamOfIs DEF CipherText
<1>6. PICK step : step = [z \in Seq(Nat) |-> [sample \in Nat |->
                            IF sample * SAMPLE_SIZE < b
                            THEN z \o SubSeq(cph, sample * SAMPLE_SIZE + 1, sample * SAMPLE_SIZE + SAMPLE_SIZE)
                            ELSE z]]
  OBVIOUS
<1>7. Slices(k) = Along(step, <<>>, sample_idx)
  BY <1>3, <1>5, <1>6 DEF Slices
<1>8. step = SliceStep(cph, 0, b)
  <2>1. \A x \in Nat : From(x) >= 0
    BY FromIs
  <2> QED
    BY <1>6, <2>1 DEF SliceStep, Slice, From
<1> QED
  BY <1>4, <1>7, <1>8 DEF SlicesIn

(***************************************************************************)
(* However the input was cut into calls and chunks and whatever the order  *)
(* of the threads, the digest chacha_end_sha_state returns for a key is    *)
(* the SHA-256 of the sampled slices of its one-shot ciphertext.           *)
(***************************************************************************)
THEOREM SamplesAreHashed == CipherSpec => []SamplesMatch
  BY CipherInvariance, SampleInvariance, SamplesFollow, PTL

-----------------------------------------------------------------------------
(* AES: what its decryption undoes.  The exclusive or of bytes, bit by bit. *)
BitOf(a, e) == (a \div e) % 2

(* The bits of a nibble's exclusive or ... *)
LEMMA NibbleBitsIs ==
  ASSUME NEW a \in 0 .. 15, NEW b \in 0 .. 15
  PROVE  /\ XorNibble(a, b) \in 0 .. 15
         /\ \A e \in {1, 2, 4, 8} : BitOf(XorNibble(a, b), e) = (BitOf(a, e) + BitOf(b, e)) % 2
<1>1. 2 ^ 0 = 1 /\ 2 ^ 1 = 2 /\ 2 ^ 2 = 4 /\ 2 ^ 3 = 8
  OBVIOUS
<1>2. PICK t : t = NibbleBits(a, b)
  OBVIOUS
<1>3. /\ t[1] = (a \div 2 ^ 0 + b \div 2 ^ 0) % 2 /\ t[2] = (a \div 2 ^ 1 + b \div 2 ^ 1) % 2
      /\ t[3] = (a \div 2 ^ 2 + b \div 2 ^ 2) % 2 /\ t[4] = (a \div 2 ^ 3 + b \div 2 ^ 3) % 2
  BY <1>2 DEF NibbleBits
<1>4. PICK p, q, u, v : /\ p = (a \div 1 + b \div 1) % 2 /\ q = (a \div 2 + b \div 2) % 2
                        /\ u = (a \div 4 + b \div 4) % 2 /\ v = (a \div 8 + b \div 8) % 2
  OBVIOUS
<1>5. t[1] = p /\ t[2] = q /\ t[3] = u /\ t[4] = v
  BY <1>1, <1>3, <1>4
<1>6. p \in 0 .. 1 /\ q \in 0 .. 1 /\ u \in 0 .. 1 /\ v \in 0 .. 1
  BY <1>4
<1>7. PICK x : x = p + 2 * q + 4 * u + 8 * v
  OBVIOUS
<1>8. XorNibble(a, b) = x
  BY <1>2, <1>5, <1>7, NibbleXorIs DEF BitSum
<1>9. x \in 0 .. 15 /\ (x \div 1) % 2 = p /\ (x \div 2) % 2 = q /\ (x \div 4) % 2 = u /\ (x \div 8) % 2 = v
  BY <1>6, <1>7
<1>10. /\ p = (((a \div 1) % 2) + ((b \div 1) % 2)) % 2 /\ q = (((a \div 2) % 2) + ((b \div 2) % 2)) % 2
       /\ u = (((a \div 4) % 2) + ((b \div 4) % 2)) % 2 /\ v = (((a \div 8) % 2) + ((b \div 8) % 2)) % 2
  BY <1>4
<1> QED
  BY <1>8, <1>9, <1>10 DEF BitOf

(* ... and a nibble by its bits. *)
LEMMA NibbleByBits ==
  ASSUME NEW a \in 0 .. 15, NEW b \in 0 .. 15, \A e \in {1, 2, 4, 8} : BitOf(a, e) = BitOf(b, e)
  PROVE  a = b
<1>1. /\ (a \div 1) % 2 = (b \div 1) % 2 /\ (a \div 2) % 2 = (b \div 2) % 2
      /\ (a \div 4) % 2 = (b \div 4) % 2 /\ (a \div 8) % 2 = (b \div 8) % 2
  BY DEF BitOf
<1>2. \A c \in 0 .. 15 : c = ((c \div 1) % 2) + 2 * ((c \div 2) % 2) + 4 * ((c \div 4) % 2) + 8 * ((c \div 8) % 2)
  OBVIOUS
<1> QED
  BY <1>1, <1>2

(* A bit of it. *)
LEMMA NibbleBit ==
  ASSUME NEW e \in {1, 2, 4, 8}, NEW x \in 0 .. 15, NEW y \in 0 .. 15
  PROVE  BitOf(XorNibble(x, y), e) = (BitOf(x, e) + BitOf(y, e)) % 2 /\ BitOf(x, e) \in 0 .. 1 /\ BitOf(y, e) \in 0 .. 1
<1>1. BitOf(x, e) \in 0 .. 1 /\ BitOf(y, e) \in 0 .. 1
  BY DEF BitOf
<1> QED
  BY <1>1, NibbleBitsIs

(* The exclusive or of nibbles is a group's operation, ... *)
LEMMA NibbleGroup ==
  ASSUME NEW a \in 0 .. 15, NEW b \in 0 .. 15
  PROVE  /\ XorNibble(a, b) \in 0 .. 15
         /\ XorNibble(a, b) = XorNibble(b, a)
         /\ XorNibble(a, a) = 0
<1>1. \A x, y \in 0 .. 15 : XorNibble(x, y) \in 0 .. 15
  BY NibbleBitsIs
<1>2. \A e \in {1, 2, 4, 8}, x \in 0 .. 15, y \in 0 .. 15 :
        BitOf(XorNibble(x, y), e) = (BitOf(x, e) + BitOf(y, e)) % 2 /\ BitOf(x, e) \in 0 .. 1 /\ BitOf(y, e) \in 0 .. 1
  BY NibbleBit
<1>3. XorNibble(a, b) = XorNibble(b, a)
  <2>1. ASSUME NEW e \in {1, 2, 4, 8}
        PROVE  BitOf(XorNibble(a, b), e) = BitOf(XorNibble(b, a), e)
    <3>1. PICK i \in 0 .. 1, j \in 0 .. 1 : i = BitOf(a, e) /\ j = BitOf(b, e)
      BY <1>2
    <3>2. BitOf(XorNibble(a, b), e) = (i + j) % 2 /\ BitOf(XorNibble(b, a), e) = (j + i) % 2
      BY <1>2, <3>1
    <3> QED
      BY <3>2
  <2> QED
    BY <1>1, <2>1, NibbleByBits
<1>4. XorNibble(a, a) = 0
  <2>1. ASSUME NEW e \in {1, 2, 4, 8}
        PROVE  BitOf(XorNibble(a, a), e) = 0
    <3>1. PICK i \in 0 .. 1 : i = BitOf(a, e)
      BY <1>2
    <3>2. BitOf(XorNibble(a, a), e) = (i + i) % 2
      BY <1>2, <3>1
    <3> QED
      BY <3>2
  <2>2. 0 \in 0 .. 15 /\ \A e \in {1, 2, 4, 8} : BitOf(0, e) = 0
    BY DEF BitOf
  <2> QED
    BY <1>1, <2>1, <2>2, NibbleByBits
<1> QED
  BY <1>1, <1>3, <1>4

(* ... which may be regrouped. *)
Regroups(a, b, c) == XorNibble(XorNibble(a, b), c) = XorNibble(a, XorNibble(b, c))
LEMMA NibbleRegroups ==
  ASSUME NEW a \in 0 .. 15, NEW b \in 0 .. 15, NEW c \in 0 .. 15
  PROVE  Regroups(a, b, c)
<1>1. \A x, y \in 0 .. 15 : XorNibble(x, y) \in 0 .. 15
  BY NibbleBitsIs
<1>2. \A e \in {1, 2, 4, 8}, x \in 0 .. 15, y \in 0 .. 15 :
        BitOf(XorNibble(x, y), e) = (BitOf(x, e) + BitOf(y, e)) % 2 /\ BitOf(x, e) \in 0 .. 1 /\ BitOf(y, e) \in 0 .. 1
  BY NibbleBit
<1>3. XorNibble(XorNibble(a, b), c) = XorNibble(a, XorNibble(b, c))
  <2>1. PICK p \in 0 .. 15, q \in 0 .. 15, x \in 0 .. 15, y \in 0 .. 15 :
          p = XorNibble(a, b) /\ q = XorNibble(b, c) /\ x = XorNibble(p, c) /\ y = XorNibble(a, q)
    BY <1>1
  <2>2. ASSUME NEW e \in {1, 2, 4, 8}
        PROVE  BitOf(x, e) = BitOf(y, e)
    <3>1. PICK i \in 0 .. 1, j \in 0 .. 1, k \in 0 .. 1 : i = BitOf(a, e) /\ j = BitOf(b, e) /\ k = BitOf(c, e)
      BY <1>2
    <3>2. BitOf(XorNibble(a, b), e) = (i + j) % 2 /\ BitOf(XorNibble(b, c), e) = (j + k) % 2
      BY <1>2, <3>1
    <3>3. PICK l, m : l = (i + j) % 2 /\ m = (j + k) % 2
      OBVIOUS
    <3>4. BitOf(p, e) = l /\ BitOf(q, e) = m
      BY ONLY <2>1, <3>2, <3>3
    <3>5. BitOf(XorNibble(p, c), e) = (BitOf(p, e) + BitOf(c, e)) % 2 /\ BitOf(XorNibble(a, q), e) = (BitOf(a, e) + BitOf(q, e)) % 2
      BY <1>2
    <3>6. BitOf(x, e) = (l + k) % 2 /\ BitOf(y, e) = (i + m) % 2
      BY ONLY <2>1, <3>1, <3>4, <3>5
    <3>7. BitOf(x, e) = (((i + j) % 2) + k) % 2 /\ BitOf(y, e) = (i + ((j + k) % 2)) % 2
      BY ONLY <3>3, <3>6
    <3> QED
      BY ONLY <3>7, i \in 0 .. 1, j \in 0 .. 1, k \in 0 .. 1
  <2>3. x = y
    BY <2>2, NibbleByBits
  <2> QED
    BY <2>1, <2>3
<1> QED
  BY <1>3 DEF Regroups

(* ... and so is that of bytes. *)
LEMMA ByteNibbles ==
  ASSUME NEW a \in Byte, NEW b \in Byte
  PROVE  XorByte(a, b) \div 16 = XorNibble(a \div 16, b \div 16) /\ XorByte(a, b) % 16 = XorNibble(a % 16, b % 16)
<1>1. a \div 16 \in 0 .. 15 /\ a % 16 \in 0 .. 15 /\ b \div 16 \in 0 .. 15 /\ b % 16 \in 0 .. 15
  BY ByteParts
<1>2. PICK u \in 0 .. 15, v \in 0 .. 15, x \in 0 .. 15, y \in 0 .. 15 :
        u = a \div 16 /\ v = a % 16 /\ x = b \div 16 /\ y = b % 16
  BY <1>1
<1>3. XorNibble(u, x) \in 0 .. 15 /\ XorNibble(v, y) \in 0 .. 15
  BY NibbleGroup
<1>4. PICK p \in 0 .. 15, q \in 0 .. 15 : p = XorNibble(a \div 16, b \div 16) /\ q = XorNibble(a % 16, b % 16)
  BY <1>2, <1>3
<1>5. XorByte(a, b) = 16 * p + q
  BY <1>4, XorByteParts
<1>6. (16 * p + q) \div 16 = p /\ (16 * p + q) % 16 = q
  OBVIOUS
<1> QED
  BY <1>4, <1>5, <1>6

(* The exclusive or of bytes is one, too. *)
LEMMA ByteGroup ==
  ASSUME NEW a \in Byte, NEW b \in Byte, NEW c \in Byte
  PROVE  /\ XorByte(a, b) \in Byte
         /\ XorByte(a, b) = XorByte(b, a)
         /\ XorByte(XorByte(a, b), c) = XorByte(a, XorByte(b, c))
         /\ XorByte(a, a) = 0
<1>1. \A x, y \in Byte : XorByte(x, y) \in Byte
  BY XorByteIs
<1>2. \A x \in Byte : x \div 16 \in 0 .. 15 /\ x % 16 \in 0 .. 15 /\ x = 16 * (x \div 16) + (x % 16)
  BY ByteParts
<1>3. \A x, y \in Byte : x \div 16 = y \div 16 /\ x % 16 = y % 16 => x = y
  BY <1>2
<1>4. \A x, y \in Byte : XorByte(x, y) \div 16 = XorNibble(x \div 16, y \div 16) /\ XorByte(x, y) % 16 = XorNibble(x % 16, y % 16)
  BY ByteNibbles
<1>5. XorByte(a, b) = XorByte(b, a)
  <2>1. /\ XorNibble(a \div 16, b \div 16) = XorNibble(b \div 16, a \div 16)
        /\ XorNibble(a % 16, b % 16) = XorNibble(b % 16, a % 16)
    BY <1>2, NibbleGroup
  <2> QED
    BY <1>1, <1>3, <1>4, <2>1
<1>6. XorByte(XorByte(a, b), c) = XorByte(a, XorByte(b, c))
  <2>1. PICK p \in Byte, q \in Byte, x \in Byte, y \in Byte :
          p = XorByte(a, b) /\ q = XorByte(b, c) /\ x = XorByte(p, c) /\ y = XorByte(a, q)
    BY <1>1
  <2>2. /\ x \div 16 = XorNibble(XorNibble(a \div 16, b \div 16), c \div 16)
        /\ y \div 16 = XorNibble(a \div 16, XorNibble(b \div 16, c \div 16))
    BY <1>4, <2>1
  <2>3. /\ x % 16 = XorNibble(XorNibble(a % 16, b % 16), c % 16)
        /\ y % 16 = XorNibble(a % 16, XorNibble(b % 16, c % 16))
    BY <1>4, <2>1
  <2>4. XorNibble(XorNibble(a \div 16, b \div 16), c \div 16) = XorNibble(a \div 16, XorNibble(b \div 16, c \div 16))
    <3>1. PICK d \in 0 .. 15, e \in 0 .. 15, f \in 0 .. 15 : d = a \div 16 /\ e = b \div 16 /\ f = c \div 16
      BY <1>2
    <3>2. Regroups(d, e, f)
      BY <3>1, NibbleRegroups
    <3> QED
      BY <3>1, <3>2 DEF Regroups
  <2>5. XorNibble(XorNibble(a % 16, b % 16), c % 16) = XorNibble(a % 16, XorNibble(b % 16, c % 16))
    <3>1. PICK d \in 0 .. 15, e \in 0 .. 15, f \in 0 .. 15 : d = a % 16 /\ e = b % 16 /\ f = c % 16
      BY <1>2
    <3>2. Regroups(d, e, f)
      BY <3>1, NibbleRegroups
    <3> QED
      BY <3>1, <3>2 DEF Regroups
  <2>6. x \div 16 = y \div 16 /\ x % 16 = y % 16
    BY <2>2, <2>3, <2>4, <2>5
  <2> QED
    BY <1>3, <2>1, <2>6
<1>7. XorByte(a, a) = 0
  <2>1. XorNibble(a \div 16, a \div 16) = 0 /\ XorNibble(a % 16, a % 16) = 0
    BY <1>2, NibbleGroup
  <2>2. XorByte(a, a) \in Byte /\ XorByte(a, a) \div 16 = 0 /\ XorByte(a, a) % 16 = 0
    BY <1>1, <1>4, <2>1
  <2> QED
    BY <1>2, <2>2
<1> QED
  BY <1>1, <1>5, <1>6, <1>7

(* Adding twice takes away again; sums may be summed crosswise. *)
LEMMA ByteCancel ==
  ASSUME NEW a \in Byte, NEW b \in Byte
  PROVE  XorByte(XorByte(a, b), b) = a /\ XorByte(a, 0) = a
<1>1. 0 \in Byte
  BY DEF Byte
<1>2. XorByte(a, 0) = a
  BY <1>1, ByteGroup, XorByteIs
<1>3. XorByte(XorByte(a, b), b) = XorByte(a, XorByte(b, b)) /\ XorByte(b, b) = 0
  BY ByteGroup
<1> QED
  BY <1>2, <1>3

LEMMA ByteCross ==
  ASSUME NEW a \in Byte, NEW b \in Byte, NEW c \in Byte, NEW d \in Byte
  PROVE  XorByte(XorByte(a, b), XorByte(c, d)) = XorByte(XorByte(a, c), XorByte(b, d))
<1>1. PICK x \in Byte, y \in Byte, z \in Byte, u \in Byte :
        x = XorByte(a, b) /\ y = XorByte(c, d) /\ z = XorByte(a, c) /\ u = XorByte(b, d)
  BY XorByteIs
<1>2. XorByte(x, y) = XorByte(a, XorByte(b, y))
  BY <1>1, ByteGroup
<1>3. PICK v \in Byte, w \in Byte : v = XorByte(b, c) /\ w = XorByte(c, b)
  BY XorByteIs
<1>4. XorByte(b, y) = XorByte(v, d) /\ v = w /\ XorByte(w, d) = XorByte(c, u)
  BY <1>1, <1>3, ByteGroup
<1>5. XorByte(z, u) = XorByte(a, XorByte(c, u))
  BY <1>1, ByteGroup
<1> QED
  BY <1>1, <1>2, <1>4, <1>5

-----------------------------------------------------------------------------
(* Strings of bytes. *)

LEMMA StringsEqual ==
  ASSUME NEW n \in Nat, NEW x \in Bytes(n), NEW y \in Bytes(n), \A i \in 1 .. n : x[i] = y[i]
  PROVE  x = y
<1>1. x \in Seq(Byte) /\ y \in Seq(Byte) /\ Len(x) = n /\ Len(y) = n
  BY DEF Bytes
<1> QED
  BY <1>1, SeqEqual

(* The exclusive or of two strings, byte by byte, ... *)
LEMMA StringXor ==
  ASSUME NEW n \in Nat, NEW x \in Bytes(n), NEW y \in Bytes(n)
  PROVE  XorBytes[x][y] \in Bytes(n) /\ \A i \in 1 .. n : XorBytes[x][y][i] = XorByte(x[i], y[i])
<1>1. x \in Seq(Byte) /\ y \in Seq(Byte) /\ Len(x) = n /\ Len(y) = n
  BY DEF Bytes
<1> QED
  BY <1>1, XorBytesIs

(* ... cancels ... *)
LEMMA StringCancel ==
  ASSUME NEW n \in Nat, NEW x \in Bytes(n), NEW y \in Bytes(n)
  PROVE  XorBytes[XorBytes[x][y]][y] = x
<1>1. PICK z \in Bytes(n) : z = XorBytes[x][y] /\ \A i \in 1 .. n : z[i] = XorByte(x[i], y[i])
  BY StringXor
<1>2. PICK u \in Bytes(n) : u = XorBytes[z][y] /\ \A i \in 1 .. n : u[i] = XorByte(z[i], y[i])
  BY StringXor
<1>3. ASSUME NEW i \in 1 .. n
      PROVE  u[i] = x[i]
  <2>1. x[i] \in Byte /\ y[i] \in Byte
    BY BytesHave
  <2> QED
    BY <1>1, <1>2, <2>1, ByteCancel
<1> QED
  BY <1>1, <1>2, <1>3, StringsEqual

(* ... and may be taken crosswise. *)
LEMMA StringCross ==
  ASSUME NEW n \in Nat, NEW x \in Bytes(n), NEW y \in Bytes(n), NEW u \in Bytes(n), NEW v \in Bytes(n)
  PROVE  XorBytes[XorBytes[x][y]][XorBytes[u][v]] = XorBytes[XorBytes[x][u]][XorBytes[y][v]]
<1>1. PICK a \in Bytes(n) : a = XorBytes[x][y] /\ \A i \in 1 .. n : a[i] = XorByte(x[i], y[i])
  BY StringXor
<1>2. PICK b \in Bytes(n) : b = XorBytes[u][v] /\ \A i \in 1 .. n : b[i] = XorByte(u[i], v[i])
  BY StringXor
<1>3. PICK c \in Bytes(n) : c = XorBytes[x][u] /\ \A i \in 1 .. n : c[i] = XorByte(x[i], u[i])
  BY StringXor
<1>4. PICK d \in Bytes(n) : d = XorBytes[y][v] /\ \A i \in 1 .. n : d[i] = XorByte(y[i], v[i])
  BY StringXor
<1>5. PICK p \in Bytes(n) : p = XorBytes[a][b] /\ \A i \in 1 .. n : p[i] = XorByte(a[i], b[i])
  BY StringXor
<1>6. PICK q \in Bytes(n) : q = XorBytes[c][d] /\ \A i \in 1 .. n : q[i] = XorByte(c[i], d[i])
  BY StringXor
<1>7. ASSUME NEW i \in 1 .. n
      PROVE  p[i] = q[i]
  <2>1. x[i] \in Byte /\ y[i] \in Byte /\ u[i] \in Byte /\ v[i] \in Byte
    BY BytesHave
  <2>2. XorByte(XorByte(x[i], y[i]), XorByte(u[i], v[i])) = XorByte(XorByte(x[i], u[i]), XorByte(y[i], v[i]))
    BY <2>1, ByteCross
  <2> QED
    BY <1>1, <1>2, <1>3, <1>4, <1>5, <1>6, <2>2
<1>8. p = q
  BY <1>7, StringsEqual
<1> QED
  BY <1>1, <1>2, <1>3, <1>4, <1>5, <1>6, <1>8

-----------------------------------------------------------------------------
(* GF(2^8), in which AES mixes: bytes as octets of bits, ... *)

(* Eight bits, the lowest first, and the byte they make. *)
IsOctet(t) == /\ t[1] \in 0 .. 1 /\ t[2] \in 0 .. 1 /\ t[3] \in 0 .. 1 /\ t[4] \in 0 .. 1
              /\ t[5] \in 0 .. 1 /\ t[6] \in 0 .. 1 /\ t[7] \in 0 .. 1 /\ t[8] \in 0 .. 1
Lower(t) == t[1] + 2 * t[2] + 4 * t[3] + 8 * t[4]
Upper(t) == t[5] + 2 * t[6] + 4 * t[7] + 8 * t[8]
Worth(t) == 16 * Upper(t) + Lower(t)
SumOf(t, u) == <<(t[1] + u[1]) % 2, (t[2] + u[2]) % 2, (t[3] + u[3]) % 2, (t[4] + u[4]) % 2,
                 (t[5] + u[5]) % 2, (t[6] + u[6]) % 2, (t[7] + u[7]) % 2, (t[8] + u[8]) % 2>>
Uplifted(t) == <<t[8], (t[1] + t[8]) % 2, t[2], (t[3] + t[8]) % 2, (t[4] + t[8]) % 2, t[5], t[6], t[7]>>
Alike(t, u) == /\ t[1] = u[1] /\ t[2] = u[2] /\ t[3] = u[3] /\ t[4] = u[4]
               /\ t[5] = u[5] /\ t[6] = u[6] /\ t[7] = u[7] /\ t[8] = u[8]

LEMMA WorthIs ==
  ASSUME NEW t, IsOctet(t)
  PROVE  /\ Upper(t) \in 0 .. 15 /\ Lower(t) \in 0 .. 15 /\ Worth(t) \in Byte
         /\ Worth(t) \div 16 = Upper(t) /\ Worth(t) % 16 = Lower(t)
<1>1. Upper(t) \in 0 .. 15 /\ Lower(t) \in 0 .. 15
  BY DEF IsOctet, Upper, Lower
<1>2. \A u, l \in 0 .. 15 : 16 * u + l \in 0 .. 255 /\ (16 * u + l) \div 16 = u /\ (16 * u + l) % 16 = l
  OBVIOUS
<1> QED
  BY <1>1, <1>2 DEF Worth, Byte

(* The bits of a nibble. *)
LEMMA NibbleHas ==
  ASSUME NEW a \in 0 .. 15
  PROVE  \E p, q, r, s \in 0 .. 1 : a = p + 2 * q + 4 * r + 8 * s
<1>1. /\ a % 2 \in 0 .. 1 /\ (a \div 2) % 2 \in 0 .. 1 /\ (a \div 4) % 2 \in 0 .. 1 /\ (a \div 8) % 2 \in 0 .. 1
      /\ a = (a % 2) + 2 * ((a \div 2) % 2) + 4 * ((a \div 4) % 2) + 8 * ((a \div 8) % 2)
  OBVIOUS
<1> QED
  BY <1>1

LEMMA ByteHas ==
  ASSUME NEW a \in Byte
  PROVE  \E t : IsOctet(t) /\ a = Worth(t)
<1>1. PICK u \in 0 .. 15, l \in 0 .. 15 : a = 16 * u + l
  BY ByteParts
<1>2. PICK p \in 0 .. 1, q \in 0 .. 1, r \in 0 .. 1, s \in 0 .. 1 : l = p + 2 * q + 4 * r + 8 * s
  BY NibbleHas
<1>3. PICK c \in 0 .. 1, d \in 0 .. 1, e \in 0 .. 1, f \in 0 .. 1 : u = c + 2 * d + 4 * e + 8 * f
  BY NibbleHas
<1>4. PICK t : t = <<p, q, r, s, c, d, e, f>>
  OBVIOUS
<1>5. t[1] = p /\ t[2] = q /\ t[3] = r /\ t[4] = s /\ t[5] = c /\ t[6] = d /\ t[7] = e /\ t[8] = f
  BY <1>4
<1> QED
  BY <1>1, <1>2, <1>3, <1>5 DEF IsOctet, Worth, Upper, Lower

LEMMA WorthTells ==
  ASSUME NEW t, NEW u, IsOctet(t), IsOctet(u), Worth(t) = Worth(u)
  PROVE  Alike(t, u)
<1>1. Upper(t) = Upper(u) /\ Lower(t) = Lower(u)
  BY WorthIs
<1>2. \A a, b, c, d, e, f, g, h \in 0 .. 1 :
        a + 2 * b + 4 * c + 8 * d = e + 2 * f + 4 * g + 8 * h => a = e /\ b = f /\ c = g /\ d = h
  OBVIOUS
<1> QED
  BY <1>1, <1>2 DEF IsOctet, Upper, Lower, Alike

LEMMA WorthOfAlike ==
  ASSUME NEW t, NEW u, Alike(t, u)
  PROVE  Worth(t) = Worth(u)
  BY DEF Alike, Worth, Upper, Lower

(* Exclusive or adds bits, ... *)
LEMMA NibblesAdd ==
  ASSUME NEW a \in 0 .. 1, NEW b \in 0 .. 1, NEW c \in 0 .. 1, NEW d \in 0 .. 1,
         NEW e \in 0 .. 1, NEW f \in 0 .. 1, NEW g \in 0 .. 1, NEW h \in 0 .. 1
  PROVE  XorNibble(a + 2 * b + 4 * c + 8 * d, e + 2 * f + 4 * g + 8 * h)
           = ((a + e) % 2) + 2 * ((b + f) % 2) + 4 * ((c + g) % 2) + 8 * ((d + h) % 2)
<1>1. PICK x \in 0 .. 15, y \in 0 .. 15 : x = a + 2 * b + 4 * c + 8 * d /\ y = e + 2 * f + 4 * g + 8 * h
  OBVIOUS
<1>2. 2 ^ 0 = 1 /\ 2 ^ 1 = 2 /\ 2 ^ 2 = 4 /\ 2 ^ 3 = 8
  OBVIOUS
<1>3. PICK t : t = NibbleBits(x, y)
  OBVIOUS
<1>4. /\ t[1] = (x \div 2 ^ 0 + y \div 2 ^ 0) % 2 /\ t[2] = (x \div 2 ^ 1 + y \div 2 ^ 1) % 2
      /\ t[3] = (x \div 2 ^ 2 + y \div 2 ^ 2) % 2 /\ t[4] = (x \div 2 ^ 3 + y \div 2 ^ 3) % 2
  BY <1>3 DEF NibbleBits
<1>5. /\ t[1] = (x \div 1 + y \div 1) % 2 /\ t[2] = (x \div 2 + y \div 2) % 2
      /\ t[3] = (x \div 4 + y \div 4) % 2 /\ t[4] = (x \div 8 + y \div 8) % 2
  BY <1>2, <1>4
<1>6. x \div 8 = d /\ y \div 8 = h /\ x \div 4 = c + 2 * d /\ y \div 4 = g + 2 * h
  BY <1>1
<1>7. x \div 2 = b + 2 * c + 4 * d /\ y \div 2 = f + 2 * g + 4 * h
  BY <1>1
<1>8. t[3] = (c + g) % 2 /\ t[4] = (d + h) % 2
  BY <1>5, <1>6
<1>9. t[2] = (b + f) % 2
  BY <1>5, <1>7
<1>10. t[1] = (a + e) % 2
  BY <1>1, <1>5
<1> QED
  BY <1>1, <1>3, <1>8, <1>9, <1>10, NibbleXorIs DEF BitSum

LEMMA OctetXor ==
  ASSUME NEW t, NEW u, IsOctet(t), IsOctet(u)
  PROVE  IsOctet(SumOf(t, u)) /\ XorByte(Worth(t), Worth(u)) = Worth(SumOf(t, u))
<1>1. PICK s : s = SumOf(t, u)
  OBVIOUS
<1>2. /\ s[1] = (t[1] + u[1]) % 2 /\ s[2] = (t[2] + u[2]) % 2 /\ s[3] = (t[3] + u[3]) % 2 /\ s[4] = (t[4] + u[4]) % 2
      /\ s[5] = (t[5] + u[5]) % 2 /\ s[6] = (t[6] + u[6]) % 2 /\ s[7] = (t[7] + u[7]) % 2 /\ s[8] = (t[8] + u[8]) % 2
  BY <1>1 DEF SumOf
<1>3. IsOctet(s)
  BY <1>2 DEF IsOctet
<1>4. XorNibble(Lower(t), Lower(u)) = Lower(s)
  BY <1>2, NibblesAdd DEF IsOctet, Lower
<1>5. XorNibble(Upper(t), Upper(u)) = Upper(s)
  BY <1>2, NibblesAdd DEF IsOctet, Upper
<1>6. PICK x \in Byte, y \in Byte : x = Worth(t) /\ y = Worth(u)
  BY WorthIs
<1>7. XorByte(x, y) = 16 * XorNibble(x \div 16, y \div 16) + XorNibble(x % 16, y % 16)
  BY XorByteParts
<1>8. x \div 16 = Upper(t) /\ x % 16 = Lower(t) /\ y \div 16 = Upper(u) /\ y % 16 = Lower(u)
  BY <1>6, WorthIs
<1> QED
  BY <1>1, <1>3, <1>4, <1>5, <1>6, <1>7, <1>8 DEF Worth

(* ... and doubling moves them up, and adds the highest to four. *)
LEMMA OctetTwice ==
  ASSUME NEW t, IsOctet(t)
  PROVE  IsOctet(Uplifted(t)) /\ Twice(Worth(t)) = Worth(Uplifted(t))
<1>1. PICK d : d = Uplifted(t)
  OBVIOUS
<1>2. /\ d[1] = t[8] /\ d[2] = (t[1] + t[8]) % 2 /\ d[3] = t[2] /\ d[4] = (t[3] + t[8]) % 2
      /\ d[5] = (t[4] + t[8]) % 2 /\ d[6] = t[5] /\ d[7] = t[6] /\ d[8] = t[7]
  BY <1>1 DEF Uplifted
<1>3. IsOctet(d)
  BY <1>2 DEF IsOctet
<1>4. PICK x \in Byte : x = Worth(t)
  BY WorthIs
<1>5. x = t[1] + 2 * t[2] + 4 * t[3] + 8 * t[4] + 16 * t[5] + 32 * t[6] + 64 * t[7] + 128 * t[8]
  BY <1>4 DEF IsOctet, Worth, Upper, Lower
<1>6. CASE t[8] = 0
  <2>1. d[1] = 0 /\ d[2] = t[1] /\ d[4] = t[3] /\ d[5] = t[4]
    BY <1>2, <1>6 DEF IsOctet
  <2>2. Worth(d) = 2 * t[1] + 4 * t[2] + 8 * t[3] + 16 * t[4] + 32 * t[5] + 64 * t[6] + 128 * t[7]
    BY <1>2, <1>6, <2>1 DEF IsOctet, Worth, Upper, Lower
  <2>3. x < 128 /\ Worth(d) = 2 * x
    BY <1>5, <1>6, <2>2 DEF IsOctet
  <2> QED
    BY <1>1, <1>3, <1>4, <2>3 DEF Twice
<1>7. CASE t[8] = 1
  <2>1. PICK u : u = <<0, t[1], t[2], t[3], t[4], t[5], t[6], t[7]>>
    OBVIOUS
  <2>2. /\ u[1] = 0 /\ u[2] = t[1] /\ u[3] = t[2] /\ u[4] = t[3]
        /\ u[5] = t[4] /\ u[6] = t[5] /\ u[7] = t[6] /\ u[8] = t[7]
    BY <2>1
  <2>3. IsOctet(u)
    BY <2>2 DEF IsOctet
  <2>4. Worth(u) = 2 * t[1] + 4 * t[2] + 8 * t[3] + 16 * t[4] + 32 * t[5] + 64 * t[6] + 128 * t[7]
    BY <2>2 DEF IsOctet, Worth, Upper, Lower
  <2>5. ~(x < 128) /\ Worth(u) = 2 * x - 256
    <3>1. PICK i \in 0 .. 1, j \in 0 .. 1, k \in 0 .. 1, l \in 0 .. 1, m \in 0 .. 1, n \in 0 .. 1, o \in 0 .. 1 :
            i = t[1] /\ j = t[2] /\ k = t[3] /\ l = t[4] /\ m = t[5] /\ n = t[6] /\ o = t[7]
      BY DEF IsOctet
    <3>2. x = i + 2 * j + 4 * k + 8 * l + 16 * m + 32 * n + 64 * o + 128
      BY <1>5, <1>7, <3>1
    <3>3. Worth(u) = 2 * i + 4 * j + 8 * k + 16 * l + 32 * m + 64 * n + 128 * o
      BY <2>4, <3>1
    <3> QED
      BY <3>2, <3>3
  <2>6. PICK v : v = <<1, 1, 0, 1, 1, 0, 0, 0>>
    OBVIOUS
  <2>7. v[1] = 1 /\ v[2] = 1 /\ v[3] = 0 /\ v[4] = 1 /\ v[5] = 1 /\ v[6] = 0 /\ v[7] = 0 /\ v[8] = 0
    BY <2>6
  <2>8. IsOctet(v) /\ Worth(v) = 27
    BY <2>7 DEF IsOctet, Worth, Upper, Lower
  <2>9. XorByte(Worth(u), Worth(v)) = Worth(SumOf(u, v))
    BY <2>3, <2>8, OctetXor
  <2>10. PICK s : s = SumOf(u, v)
    OBVIOUS
  <2>11. /\ s[1] = (u[1] + v[1]) % 2 /\ s[2] = (u[2] + v[2]) % 2 /\ s[3] = (u[3] + v[3]) % 2 /\ s[4] = (u[4] + v[4]) % 2
         /\ s[5] = (u[5] + v[5]) % 2 /\ s[6] = (u[6] + v[6]) % 2 /\ s[7] = (u[7] + v[7]) % 2 /\ s[8] = (u[8] + v[8]) % 2
    BY <2>10 DEF SumOf
  <2>12. Alike(s, d)
    BY <1>2, <1>7, <2>2, <2>7, <2>11 DEF IsOctet, Alike
  <2>13. Worth(s) = Worth(d)
    BY <2>12, WorthOfAlike
  <2>14. XorByte(2 * x - 256, 27) = Worth(d)
    BY <2>5, <2>8, <2>9, <2>10, <2>13
  <2> QED
    BY <1>1, <1>3, <1>4, <2>5, <2>14 DEF Twice
<1> QED
  BY <1>6, <1>7 DEF IsOctet

(* Doubling is linear. *)
LEMMA TwiceAdds ==
  ASSUME NEW a \in Byte, NEW b \in Byte
  PROVE  Twice(XorByte(a, b)) = XorByte(Twice(a), Twice(b))
<1>1. PICK t : IsOctet(t) /\ a = Worth(t)
  BY ByteHas
<1>2. PICK u : IsOctet(u) /\ b = Worth(u)
  BY ByteHas
<1>3. PICK s : s = SumOf(t, u) /\ IsOctet(s) /\ XorByte(a, b) = Worth(s)
  BY <1>1, <1>2, OctetXor
<1>4. PICK p, q, r : p = Uplifted(t) /\ q = Uplifted(u) /\ r = Uplifted(s)
  OBVIOUS
<1>5. IsOctet(p) /\ IsOctet(q) /\ Twice(a) = Worth(p) /\ Twice(b) = Worth(q) /\ Twice(XorByte(a, b)) = Worth(r)
  BY <1>1, <1>2, <1>3, <1>4, OctetTwice
<1>6. PICK o : o = SumOf(p, q) /\ XorByte(Twice(a), Twice(b)) = Worth(o)
  BY <1>5, OctetXor
<1>7. Alike(o, r)
  <2>1. /\ p[1] = t[8] /\ p[2] = (t[1] + t[8]) % 2 /\ p[3] = t[2] /\ p[4] = (t[3] + t[8]) % 2
        /\ p[5] = (t[4] + t[8]) % 2 /\ p[6] = t[5] /\ p[7] = t[6] /\ p[8] = t[7]
    BY <1>4 DEF Uplifted
  <2>2. /\ q[1] = u[8] /\ q[2] = (u[1] + u[8]) % 2 /\ q[3] = u[2] /\ q[4] = (u[3] + u[8]) % 2
        /\ q[5] = (u[4] + u[8]) % 2 /\ q[6] = u[5] /\ q[7] = u[6] /\ q[8] = u[7]
    BY <1>4 DEF Uplifted
  <2>3. /\ r[1] = s[8] /\ r[2] = (s[1] + s[8]) % 2 /\ r[3] = s[2] /\ r[4] = (s[3] + s[8]) % 2
        /\ r[5] = (s[4] + s[8]) % 2 /\ r[6] = s[5] /\ r[7] = s[6] /\ r[8] = s[7]
    BY <1>4 DEF Uplifted
  <2>4. /\ s[1] = (t[1] + u[1]) % 2 /\ s[2] = (t[2] + u[2]) % 2 /\ s[3] = (t[3] + u[3]) % 2 /\ s[4] = (t[4] + u[4]) % 2
        /\ s[5] = (t[5] + u[5]) % 2 /\ s[6] = (t[6] + u[6]) % 2 /\ s[7] = (t[7] + u[7]) % 2 /\ s[8] = (t[8] + u[8]) % 2
    BY <1>3 DEF SumOf
  <2>5. /\ o[1] = (p[1] + q[1]) % 2 /\ o[2] = (p[2] + q[2]) % 2 /\ o[3] = (p[3] + q[3]) % 2 /\ o[4] = (p[4] + q[4]) % 2
        /\ o[5] = (p[5] + q[5]) % 2 /\ o[6] = (p[6] + q[6]) % 2 /\ o[7] = (p[7] + q[7]) % 2 /\ o[8] = (p[8] + q[8]) % 2
    BY <1>6 DEF SumOf
  <2>6. \A i, j, k, l \in 0 .. 1 : (((i + j) % 2) + ((k + l) % 2)) % 2 = (((i + k) % 2) + ((j + l) % 2)) % 2
    OBVIOUS
  <2>7. o[1] = r[1] /\ o[3] = r[3] /\ o[6] = r[6] /\ o[7] = r[7] /\ o[8] = r[8]
    BY ONLY <2>1, <2>2, <2>3, <2>4, <2>5
  <2>8. o[2] = r[2] /\ o[4] = r[4] /\ o[5] = r[5]
    BY <1>1, <1>2, <2>1, <2>2, <2>3, <2>4, <2>5, <2>6 DEF IsOctet
  <2> QED
    BY <2>7, <2>8 DEF Alike
<1> QED
  BY <1>5, <1>6, <1>7, WorthOfAlike

(* The values of Times(a, c) after each of the bits of c. *)
Ladder(w, a, c) ==
  /\ w[0] = 0
  /\ \A k \in 0 .. 8 : w[k] \in Byte
  /\ \A k \in 1 .. 8 : w[k] = IF (c \div 2 ^ (8 - k)) % 2 = 1 THEN XorByte(Twice(w[k - 1]), a) ELSE Twice(w[k - 1])

LEMMA TimesChain ==
  ASSUME NEW a \in Byte, NEW c
  PROVE  \E w : Ladder(w, a, c) /\ w[8] = Times(a, c)
<1> DEFINE step == [s \in Nat |-> [i \in Nat |-> IF (c \div 2 ^ i) % 2 = 1 THEN XorByte(Twice(s), a) ELSE Twice(s)]]
<1>1. PICK f : f = <<7, 6, 5, 4, 3, 2, 1, 0>>
  OBVIOUS
<1>2. f \in Seq(Nat) /\ Len(f) = 8 /\ \A k \in 1 .. 8 : f[k] = 8 - k
  BY <1>1
<1>3. Times(a, c) = Along(step, 0, f)
  BY <1>1 DEF Times
<1>4. ASSUME NEW s \in Byte, NEW i \in Nat
      PROVE  step[s][i] = IF (c \div 2 ^ i) % 2 = 1 THEN XorByte(Twice(s), a) ELSE Twice(s)
  <2>1. s \in Nat
    BY DEF Byte
  <2> QED
    BY <2>1
<1> HIDE DEF step
<1>5. PICK w : Follows(w, step, 0, f, Len(f)) /\ Along(step, 0, f) = w[Len(f)]
  <2>1. PICK g : g = step
    OBVIOUS
  <2>2. f \in Seq(Nat)
    BY <1>2
  <2>3. PICK w : Follows(w, g, 0, f, Len(f)) /\ Along(g, 0, f) = w[Len(f)]
    BY <2>2, AlongHas
  <2> QED
    BY <2>1, <2>3
<1>6. w[0] = 0 /\ w[8] = Times(a, c) /\ \A k \in 1 .. 8 : w[k] = step[w[k - 1]][8 - k]
  BY <1>2, <1>3, <1>5 DEF Follows
<1> DEFINE T == {k \in 0 .. 8 : w[k] \in Byte}
<1>7. 0 \in T
  BY <1>6 DEF Byte
<1>8. ASSUME NEW k \in 1 .. 8, w[k - 1] \in Byte
      PROVE  /\ w[k] = IF (c \div 2 ^ (8 - k)) % 2 = 1 THEN XorByte(Twice(w[k - 1]), a) ELSE Twice(w[k - 1])
             /\ w[k] \in Byte
  <2>1. PICK s \in Byte, i \in Nat, x \in Byte : s = w[k - 1] /\ i = 8 - k /\ x = Twice(s)
    BY <1>8, TwiceIs
  <2>2. w[k] = step[s][i]
    BY <1>6, <2>1
  <2>3. w[k] = IF (c \div 2 ^ i) % 2 = 1 THEN XorByte(x, a) ELSE x
    BY <1>4, <2>1, <2>2
  <2>4. XorByte(x, a) \in Byte
    BY XorByteIs
  <2> QED
    BY <2>1, <2>3, <2>4
<1>9. \A k \in 1 .. 8 : k - 1 \in T => k \in T
  BY <1>8
<1> HIDE DEF T
<1>10. 0 .. 8 \subseteq T
  BY <1>7, <1>9, InductionTo
<1>11. \A k \in 0 .. 8 : w[k] \in Byte
  BY <1>10 DEF T
<1>12. \A k \in 1 .. 8 : w[k - 1] \in Byte
  BY <1>11
<1> QED
  BY <1>6, <1>8, <1>11, <1>12 DEF Ladder

(* Doubling and multiplication by a constant are linear. *)
LEMMA TimesAdds ==
  ASSUME NEW a \in Byte, NEW b \in Byte, NEW c
  PROVE  Times(XorByte(a, b), c) = XorByte(Times(a, c), Times(b, c))
<1>1. PICK e \in Byte : e = XorByte(a, b)
  BY XorByteIs
<1>2. PICK u : Ladder(u, a, c) /\ u[8] = Times(a, c)
  BY TimesChain
<1>3. PICK v : Ladder(v, b, c) /\ v[8] = Times(b, c)
  BY TimesChain
<1>4. PICK w : Ladder(w, e, c) /\ w[8] = Times(e, c)
  BY TimesChain
<1> DEFINE T == {k \in 0 .. 8 : w[k] = XorByte(u[k], v[k])}
<1>5. 0 \in T
  <2>1. 0 \in Byte
    BY DEF Byte
  <2>2. XorByte(0, 0) = 0
    BY <2>1, XorByteIs
  <2> QED
    BY <1>2, <1>3, <1>4, <2>2 DEF Ladder
<1>6. \A k \in 1 .. 8 : k - 1 \in T => k \in T
  <2> SUFFICES ASSUME NEW k \in 1 .. 8, w[k - 1] = XorByte(u[k - 1], v[k - 1])
               PROVE  w[k] = XorByte(u[k], v[k])
    OBVIOUS
  <2>1. k \in 0 .. 8 /\ k - 1 \in 0 .. 8
    OBVIOUS
  <2>2. PICK p \in Byte, q \in Byte, r \in Byte : p = u[k - 1] /\ q = v[k - 1] /\ r = w[k - 1] /\ r = XorByte(p, q)
    BY <1>2, <1>3, <1>4, <2>1 DEF Ladder
  <2>3. PICK p2 \in Byte, q2 \in Byte, r2 \in Byte : p2 = Twice(p) /\ q2 = Twice(q) /\ r2 = Twice(r)
    BY TwiceIs
  <2>4. r2 = XorByte(p2, q2)
    BY <2>2, <2>3, TwiceAdds
  <2>5. PICK bit : bit = (c \div 2 ^ (8 - k)) % 2
    OBVIOUS
  <2>6. u[k] = IF bit = 1 THEN XorByte(p2, a) ELSE p2
    BY <1>2, <2>2, <2>3, <2>5 DEF Ladder
  <2>7. v[k] = IF bit = 1 THEN XorByte(q2, b) ELSE q2
    BY <1>3, <2>2, <2>3, <2>5 DEF Ladder
  <2>8. w[k] = IF bit = 1 THEN XorByte(r2, e) ELSE r2
    <3>1. w[k - 1] = r
      BY <2>2
    <3> QED
      BY <1>4, <2>3, <2>5, <3>1 DEF Ladder
  <2>9. XorByte(r2, e) = XorByte(XorByte(p2, a), XorByte(q2, b))
    BY <1>1, <2>4, ByteCross
  <2> QED
    BY <2>4, <2>6, <2>7, <2>8, <2>9
<1> HIDE DEF T
<1>7. 0 .. 8 \subseteq T
  BY <1>5, <1>6, InductionTo
<1>8. w[8] = XorByte(u[8], v[8])
  BY <1>7 DEF T
<1> QED
  BY <1>1, <1>2, <1>3, <1>4, <1>8

(* One is neutral. *)
LEMMA OddByte ==
  ASSUME NEW v \in 0 .. 127
  PROVE  Twice(v) = 2 * v /\ XorByte(2 * v, 1) = 2 * v + 1
<1>1. Twice(v) = 2 * v
  BY DEF Twice
<1>2. PICK x \in Byte : x = 2 * v
  BY DEF Byte
<1>3. PICK t : IsOctet(t) /\ x = Worth(t)
  BY ByteHas
<1>4. t[1] = 0
  <2>1. x = t[1] + 2 * (t[2] + 2 * t[3] + 4 * t[4] + 8 * Upper(t))
    BY <1>3, WorthIs DEF IsOctet, Worth, Lower
  <2>2. Upper(t) \in 0 .. 15
    BY <1>3, WorthIs
  <2> QED
    BY <1>2, <1>3, <2>1, <2>2 DEF IsOctet
<1>5. PICK u : u = <<1, 0, 0, 0, 0, 0, 0, 0>>
  OBVIOUS
<1>6. u[1] = 1 /\ u[2] = 0 /\ u[3] = 0 /\ u[4] = 0 /\ u[5] = 0 /\ u[6] = 0 /\ u[7] = 0 /\ u[8] = 0
  BY <1>5
<1>7. IsOctet(u) /\ Worth(u) = 1
  BY <1>6 DEF IsOctet, Worth, Upper, Lower
<1>8. PICK s : s = SumOf(t, u) /\ XorByte(x, 1) = Worth(s)
  BY <1>3, <1>7, OctetXor
<1>9. PICK r : r = <<1, t[2], t[3], t[4], t[5], t[6], t[7], t[8]>>
  OBVIOUS
<1>10. r[1] = 1 /\ r[2] = t[2] /\ r[3] = t[3] /\ r[4] = t[4] /\ r[5] = t[5] /\ r[6] = t[6] /\ r[7] = t[7] /\ r[8] = t[8]
  BY <1>9
<1>11. Alike(s, r)
  <2>1. /\ s[1] = (t[1] + u[1]) % 2 /\ s[2] = (t[2] + u[2]) % 2 /\ s[3] = (t[3] + u[3]) % 2 /\ s[4] = (t[4] + u[4]) % 2
        /\ s[5] = (t[5] + u[5]) % 2 /\ s[6] = (t[6] + u[6]) % 2 /\ s[7] = (t[7] + u[7]) % 2 /\ s[8] = (t[8] + u[8]) % 2
    BY <1>8 DEF SumOf
  <2> QED
    BY <1>3, <1>4, <1>6, <1>10, <2>1 DEF IsOctet, Alike
<1>12. Worth(r) = x + 1
  <2>1. Upper(r) = Upper(t)
    BY <1>10 DEF Upper
  <2>2. Lower(r) = Lower(t) + 1
    BY <1>3, <1>4, <1>10 DEF IsOctet, Lower
  <2>3. Upper(t) \in 0 .. 15 /\ Lower(t) \in 0 .. 15
    BY <1>3, WorthIs
  <2> QED
    BY <1>3, <2>1, <2>2, <2>3 DEF Worth
<1> QED
  BY <1>1, <1>2, <1>8, <1>11, <1>12, WorthOfAlike

LEMMA TimesOne ==
  ASSUME NEW b \in Byte
  PROVE  Times(1, b) = b
<1>1. 1 \in Byte
  BY DEF Byte
<1>2. PICK w : Ladder(w, 1, b) /\ w[8] = Times(1, b)
  BY <1>1, TimesChain
<1>3. PICK d : d = [k \in 0 .. 8 |-> b \div 2 ^ (8 - k)]
  OBVIOUS
<1>4. \A k \in 0 .. 8 : d[k] = b \div 2 ^ (8 - k)
  BY <1>3
<1>5. d[0] = 0 /\ d[8] = b /\ (\A k \in 1 .. 8 : d[k] \in Byte /\ d[k - 1] = d[k] \div 2)
  <2>1. /\ 2 ^ 0 = 1 /\ 2 ^ 1 = 2 /\ 2 ^ 2 = 4 /\ 2 ^ 3 = 8 /\ 2 ^ 4 = 16
        /\ 2 ^ 5 = 32 /\ 2 ^ 6 = 64 /\ 2 ^ 7 = 128 /\ 2 ^ 8 = 256
    OBVIOUS
  <2>2. /\ d[0] = b \div 256 /\ d[1] = b \div 128 /\ d[2] = b \div 64 /\ d[3] = b \div 32 /\ d[4] = b \div 16
        /\ d[5] = b \div 8 /\ d[6] = b \div 4 /\ d[7] = b \div 2 /\ d[8] = b \div 1
    BY <1>4, <2>1
  <2>3. /\ b \div 256 = 0 /\ b \div 1 = b /\ b \div 256 = (b \div 128) \div 2 /\ b \div 128 = (b \div 64) \div 2
        /\ b \div 64 = (b \div 32) \div 2 /\ b \div 32 = (b \div 16) \div 2 /\ b \div 16 = (b \div 8) \div 2
        /\ b \div 8 = (b \div 4) \div 2 /\ b \div 4 = (b \div 2) \div 2 /\ b \div 2 = (b \div 1) \div 2
    BY DEF Byte
  <2>4. /\ d[0] = d[1] \div 2 /\ d[1] = d[2] \div 2 /\ d[2] = d[3] \div 2 /\ d[3] = d[4] \div 2
        /\ d[4] = d[5] \div 2 /\ d[5] = d[6] \div 2 /\ d[6] = d[7] \div 2 /\ d[7] = d[8] \div 2
        /\ d[0] = 0 /\ d[8] = b
    BY ONLY <2>2, <2>3
  <2>5. \A k \in 1 .. 8 : k = 1 \/ k = 2 \/ k = 3 \/ k = 4 \/ k = 5 \/ k = 6 \/ k = 7 \/ k = 8
    OBVIOUS
  <2>6. \A k \in 1 .. 8 : d[k - 1] = d[k] \div 2
    BY ONLY <2>4, <2>5
  <2>7. /\ b \div 128 \in Byte /\ b \div 64 \in Byte /\ b \div 32 \in Byte /\ b \div 16 \in Byte
        /\ b \div 8 \in Byte /\ b \div 4 \in Byte /\ b \div 2 \in Byte /\ b \div 1 \in Byte
    BY DEF Byte
  <2>8. \A k \in 1 .. 8 : d[k] \in Byte
    BY ONLY <2>2, <2>5, <2>7
  <2> QED
    BY <2>4, <2>6, <2>8
<1> DEFINE T == {k \in 0 .. 8 : w[k] = d[k]}
<1>6. 0 \in T
  BY <1>2, <1>5 DEF Ladder
<1>7. \A k \in 1 .. 8 : k - 1 \in T => k \in T
  <2> SUFFICES ASSUME NEW k \in 1 .. 8, w[k - 1] = d[k - 1]
               PROVE  w[k] = d[k]
    OBVIOUS
  <2>1. PICK q \in Byte, v \in 0 .. 127 : q = d[k] /\ v = d[k - 1] /\ v = q \div 2
    <3>1. PICK q \in Byte : q = d[k] /\ d[k - 1] = q \div 2
      BY <1>5
    <3>2. q \div 2 \in 0 .. 127
      BY DEF Byte
    <3> QED
      BY <3>1, <3>2
  <2>2. w[k] = IF q % 2 = 1 THEN XorByte(Twice(v), 1) ELSE Twice(v)
    <3>1. k \in 0 .. 8
      OBVIOUS
    <3>2. q = b \div 2 ^ (8 - k)
      BY <1>4, <2>1, <3>1
    <3> QED
      BY <1>2, <2>1, <3>2 DEF Ladder
  <2>3. Twice(v) = 2 * v /\ XorByte(2 * v, 1) = 2 * v + 1
    BY OddByte
  <2>4. w[k] = IF q % 2 = 1 THEN 2 * v + 1 ELSE 2 * v
    BY <2>2, <2>3
  <2>5. q = IF q % 2 = 1 THEN 2 * v + 1 ELSE 2 * v
    BY <2>1 DEF Byte
  <2> QED
    BY <2>1, <2>4, <2>5
<1> HIDE DEF T
<1>8. 0 .. 8 \subseteq T
  BY <1>6, <1>7, InductionTo
<1>9. w[8] = d[8]
  BY <1>8 DEF T
<1> QED
  BY <1>2, <1>5, <1>9

(* Functions of bytes that respect sums and doubling: each multiplies by   *)
(* its value at one.                                                       *)
IsLinear(f) ==
  \A x \in Byte : /\ f[x] \in Byte
                  /\ f[Twice(x)] = Twice(f[x])
                  /\ \A y \in Byte : f[XorByte(x, y)] = XorByte(f[x], f[y])

LEMMA LinearIs ==
  ASSUME NEW f, IsLinear(f), NEW x \in Byte
  PROVE  f[x] = Times(f[1], x)
<1>1. PICK z : z = 1
  OBVIOUS
<1>2. z \in Byte
  BY <1>1 DEF Byte
<1>3. PICK m \in Byte : m = f[z]
  BY <1>2 DEF IsLinear
<1>4. PICK u : Ladder(u, z, x) /\ u[8] = x
  BY <1>1, <1>2, TimesChain, TimesOne
<1>5. PICK v : Ladder(v, m, x) /\ v[8] = Times(m, x)
  BY TimesChain
<1> DEFINE T == {k \in 0 .. 8 : f[u[k]] = v[k]}
<1>6. 0 \in T
  <2>1. PICK o : o = 0
    OBVIOUS
  <2>2. o \in Byte
    BY <2>1 DEF Byte
  <2>3. XorByte(o, o) = o
    BY <2>1, <2>2, XorByteIs
  <2>4. f[o] \in Byte /\ f[o] = XorByte(f[o], f[o])
    BY <2>2, <2>3 DEF IsLinear
  <2>5. f[o] = 0
    BY <2>4, ByteGroup
  <2> QED
    BY <1>4, <1>5, <2>1, <2>5 DEF Ladder
<1>7. \A k \in 1 .. 8 : k - 1 \in T => k \in T
  <2> SUFFICES ASSUME NEW k \in 1 .. 8, f[u[k - 1]] = v[k - 1]
               PROVE  f[u[k]] = v[k]
    OBVIOUS
  <2>1. k \in 0 .. 8 /\ k - 1 \in 0 .. 8
    OBVIOUS
  <2>2. PICK p \in Byte, q \in Byte, r \in Byte, s \in Byte : p = u[k - 1] /\ q = v[k - 1] /\ r = Twice(p) /\ s = Twice(q)
    BY <1>4, <1>5, <2>1, TwiceIs DEF Ladder
  <2>3. PICK bit : bit = (x \div 2 ^ (8 - k)) % 2
    OBVIOUS
  <2>4. u[k] = (IF bit = 1 THEN XorByte(r, z) ELSE r) /\ v[k] = (IF bit = 1 THEN XorByte(s, m) ELSE s)
    BY <1>4, <1>5, <2>2, <2>3 DEF Ladder
  <2>5. f[p] = q
    BY <2>2
  <2>6. f[r] = s
    BY <2>2, <2>5 DEF IsLinear
  <2>7. f[XorByte(r, z)] = XorByte(s, m)
    BY <1>2, <1>3, <2>6 DEF IsLinear
  <2> QED
    BY <2>4, <2>6, <2>7
<1> HIDE DEF T
<1>8. 0 .. 8 \subseteq T
  BY <1>6, <1>7, InductionTo
<1>9. f[u[8]] = v[8]
  BY <1>8 DEF T
<1> QED
  BY <1>1, <1>3, <1>4, <1>5, <1>9

(* To multiply is linear, ... *)
LEMMA TimesDoubles ==
  ASSUME NEW a \in Byte, NEW c
  PROVE  Times(Twice(a), c) = Twice(Times(a, c))
<1>1. PICK e \in Byte : e = Twice(a)
  BY TwiceIs
<1>2. PICK u : Ladder(u, a, c) /\ u[8] = Times(a, c)
  BY TimesChain
<1>3. PICK v : Ladder(v, e, c) /\ v[8] = Times(e, c)
  BY TimesChain
<1> DEFINE T == {k \in 0 .. 8 : v[k] = Twice(u[k])}
<1>4. 0 \in T
  <2>1. Twice(0) = 0
    BY DEF Twice
  <2> QED
    BY <1>2, <1>3, <2>1 DEF Ladder
<1>5. \A k \in 1 .. 8 : k - 1 \in T => k \in T
  <2> SUFFICES ASSUME NEW k \in 1 .. 8, v[k - 1] = Twice(u[k - 1])
               PROVE  v[k] = Twice(u[k])
    OBVIOUS
  <2>1. k \in 0 .. 8 /\ k - 1 \in 0 .. 8
    OBVIOUS
  <2>2. PICK p \in Byte, r \in Byte, s \in Byte : p = u[k - 1] /\ r = Twice(p) /\ s = Twice(r)
    BY <1>2, <2>1, TwiceIs DEF Ladder
  <2>3. PICK bit : bit = (c \div 2 ^ (8 - k)) % 2
    OBVIOUS
  <2>4. v[k - 1] = r
    BY <2>2
  <2>5. u[k] = (IF bit = 1 THEN XorByte(r, a) ELSE r) /\ v[k] = (IF bit = 1 THEN XorByte(s, e) ELSE s)
    BY <1>2, <1>3, <2>2, <2>3, <2>4 DEF Ladder
  <2>6. Twice(XorByte(r, a)) = XorByte(s, e)
    BY <1>1, <2>2, TwiceAdds
  <2> QED
    BY <2>2, <2>5, <2>6
<1> HIDE DEF T
<1>6. 0 .. 8 \subseteq T
  BY <1>4, <1>5, InductionTo
<1>7. v[8] = Twice(u[8])
  BY <1>6 DEF T
<1> QED
  BY <1>1, <1>2, <1>3, <1>7

By(c) == [x \in Byte |-> Times(x, c)]

LEMMA ByIsLinear ==
  ASSUME NEW c
  PROVE  IsLinear(By(c))
<1>1. \A x \in Byte : By(c)[x] = Times(x, c)
  BY DEF By
<1>2. ASSUME NEW x \in Byte
      PROVE  By(c)[x] \in Byte /\ By(c)[Twice(x)] = Twice(By(c)[x])
  BY <1>1, TimesIs, TwiceIs, TimesDoubles
<1>3. ASSUME NEW x \in Byte, NEW y \in Byte
      PROVE  By(c)[XorByte(x, y)] = XorByte(By(c)[x], By(c)[y])
  <2>1. XorByte(x, y) \in Byte
    BY XorByteIs
  <2> QED
    BY <1>1, <2>1, TimesAdds
<1> QED
  BY <1>2, <1>3 DEF IsLinear

(* ... so that products commute, associate and distribute.                 *)
LEMMA TimesCommutes ==
  ASSUME NEW a \in Byte, NEW b \in Byte
  PROVE  Times(a, b) = Times(b, a)
<1>1. 1 \in Byte
  BY DEF Byte
<1>2. By(b)[a] = Times(a, b) /\ By(b)[1] = Times(1, b)
  BY <1>1 DEF By
<1>3. By(b)[a] = Times(By(b)[1], a)
  BY ByIsLinear, LinearIs
<1> QED
  BY <1>2, <1>3, TimesOne

Associates(a, b, c) == Times(Times(a, b), c) = Times(a, Times(b, c))
LEMMA TimesAssociates ==
  ASSUME NEW a \in Byte, NEW b \in Byte, NEW c \in Byte
  PROVE  Associates(a, b, c)
<1>1. 1 \in Byte
  BY DEF Byte
<1>2. PICK f : f = [x \in Byte |-> Times(Times(x, b), c)]
  OBVIOUS
<1>3. \A x \in Byte : f[x] = Times(Times(x, b), c)
  BY <1>2
<1>4. ASSUME NEW x \in Byte
      PROVE  f[x] \in Byte /\ f[Twice(x)] = Twice(f[x])
  <2>1. PICK p \in Byte, q \in Byte : p = Times(x, b) /\ q = Twice(x)
    BY TimesIs, TwiceIs
  <2>2. PICK r \in Byte : r = Twice(p)
    BY TwiceIs
  <2>3. Times(q, b) = r
    BY <2>1, <2>2, TimesDoubles
  <2>4. Times(r, c) = Twice(Times(p, c))
    BY <2>2, TimesDoubles
  <2> QED
    BY <1>3, <2>1, <2>3, <2>4, TimesIs
<1>5. ASSUME NEW x \in Byte, NEW y \in Byte
      PROVE  f[XorByte(x, y)] = XorByte(f[x], f[y])
  <2>1. PICK p \in Byte, q \in Byte, s \in Byte : p = Times(x, b) /\ q = Times(y, b) /\ s = XorByte(x, y)
    BY TimesIs, XorByteIs
  <2>2. Times(s, b) = XorByte(p, q)
    BY <2>1, TimesAdds
  <2>3. Times(XorByte(p, q), c) = XorByte(Times(p, c), Times(q, c))
    BY TimesAdds
  <2> QED
    BY <1>3, <2>1, <2>2, <2>3
<1>6. IsLinear(f)
  BY <1>4, <1>5 DEF IsLinear
<1>7. f[a] = Times(f[1], a)
  BY <1>6, LinearIs
<1>8. PICK d \in Byte : d = Times(b, c)
  BY TimesIs
<1>9. f[1] = d
  BY <1>1, <1>3, <1>8, TimesOne
<1>10. Times(d, a) = Times(a, d)
  BY TimesCommutes
<1> QED
  BY <1>3, <1>7, <1>8, <1>9, <1>10 DEF Associates

LEMMA TimesDistributes ==
  ASSUME NEW a \in Byte, NEW b \in Byte, NEW c \in Byte
  PROVE  Times(a, XorByte(b, c)) = XorByte(Times(a, b), Times(a, c))
<1>1. PICK s \in Byte : s = XorByte(b, c)
  BY XorByteIs
<1>2. Times(s, a) = XorByte(Times(b, a), Times(c, a))
  BY <1>1, TimesAdds
<1>3. Times(s, a) = Times(a, s) /\ Times(b, a) = Times(a, b) /\ Times(c, a) = Times(a, c)
  BY TimesCommutes
<1> QED
  BY <1>1, <1>2, <1>3

(* To double is to multiply by two. *)
LEMMA TwiceTimes ==
  ASSUME NEW a \in Byte
  PROVE  Twice(a) = Times(2, a)
<1>1. 1 \in Byte /\ Twice(1) = 2
  BY DEF Byte, Twice
<1>2. Times(Twice(1), a) = Twice(Times(1, a))
  BY <1>1, TimesDoubles
<1> QED
  BY <1>1, <1>2, TimesOne

-----------------------------------------------------------------------------
(* The columns, undone.                                                    *)

(* The rows of an undone column, and a word turned right. *)
LEMMA UncolumnIs ==
  ASSUME NEW b \in Byte
  PROVE  /\ Uncolumn(b) \in Bytes(4)
         /\ Uncolumn(b)[1] = Times(b, 14) /\ Uncolumn(b)[2] = Times(b, 9)
         /\ Uncolumn(b)[3] = Times(b, 13) /\ Uncolumn(b)[4] = Times(b, 11)
<1>1. PICK p \in Byte, q \in Byte, r \in Byte, t \in Byte :
        p = Times(b, 14) /\ q = Times(b, 9) /\ r = Times(b, 13) /\ t = Times(b, 11)
  BY TimesIs
<1>2. Uncolumn(b) = Quad(p, q, r, t)
  BY <1>1 DEF Uncolumn, Quad
<1>3. Quad(p, q, r, t)[1] = p /\ Quad(p, q, r, t)[2] = q /\ Quad(p, q, r, t)[3] = r /\ Quad(p, q, r, t)[4] = t
  BY DEF Quad
<1>4. Quad(p, q, r, t) \in Bytes(4)
  BY QuadIs
<1> QED
  BY <1>1, <1>2, <1>3, <1>4

LEMMA RightIs ==
  ASSUME NEW w \in Bytes(4)
  PROVE  /\ Right(w) \in Bytes(4)
         /\ Right(w)[1] = w[4] /\ Right(w)[2] = w[1] /\ Right(w)[3] = w[2] /\ Right(w)[4] = w[3]
<1>1. PICK p \in Byte, q \in Byte, r \in Byte, t \in Byte : p = w[1] /\ q = w[2] /\ r = w[3] /\ t = w[4]
  BY QuadHas
<1>2. Right(w) = Quad(t, p, q, r)
  BY <1>1 DEF Right, Quad
<1>3. Quad(t, p, q, r)[1] = t /\ Quad(t, p, q, r)[2] = p /\ Quad(t, p, q, r)[3] = q /\ Quad(t, p, q, r)[4] = r
  BY DEF Quad
<1>4. Quad(t, p, q, r) \in Bytes(4)
  BY QuadIs
<1> QED
  BY <1>1, <1>2, <1>3, <1>4

(* Words. *)
LEMMA WordsEqual ==
  ASSUME NEW x \in Bytes(4), NEW y \in Bytes(4), x[1] = y[1], x[2] = y[2], x[3] = y[3], x[4] = y[4]
  PROVE  x = y
<1>1. \A i \in 1 .. 4 : x[i] = y[i]
  OBVIOUS
<1>2. 4 \in Nat
  OBVIOUS
<1> QED
  BY <1>1, <1>2, StringsEqual

LEMMA WordXor ==
  ASSUME NEW x \in Bytes(4), NEW y \in Bytes(4)
  PROVE  /\ XorBytes[x][y] \in Bytes(4)
         /\ XorBytes[x][y][1] = XorByte(x[1], y[1]) /\ XorBytes[x][y][2] = XorByte(x[2], y[2])
         /\ XorBytes[x][y][3] = XorByte(x[3], y[3]) /\ XorBytes[x][y][4] = XorByte(x[4], y[4])
<1>1. 4 \in Nat /\ 1 \in 1 .. 4 /\ 2 \in 1 .. 4 /\ 3 \in 1 .. 4 /\ 4 \in 1 .. 4
  OBVIOUS
<1>2. XorBytes[x][y] \in Bytes(4) /\ \A i \in 1 .. 4 : XorBytes[x][y][i] = XorByte(x[i], y[i])
  BY <1>1, StringXor
<1> QED
  BY <1>1, <1>2

LEMMA WordCancel ==
  ASSUME NEW x \in Bytes(4), NEW y \in Bytes(4)
  PROVE  XorBytes[XorBytes[x][y]][y] = x
<1>1. 4 \in Nat
  OBVIOUS
<1> QED
  BY <1>1, StringCancel

LEMMA WordCross ==
  ASSUME NEW x \in Bytes(4), NEW y \in Bytes(4), NEW u \in Bytes(4), NEW v \in Bytes(4)
  PROVE  XorBytes[XorBytes[x][y]][XorBytes[u][v]] = XorBytes[XorBytes[x][u]][XorBytes[y][v]]
<1>1. 4 \in Nat
  OBVIOUS
<1> QED
  BY <1>1, StringCross

LEMMA WordSum ==
  ASSUME NEW x \in Bytes(4), NEW y \in Bytes(4), NEW s \in Bytes(4),
         s[1] = XorByte(x[1], y[1]), s[2] = XorByte(x[2], y[2]), s[3] = XorByte(x[3], y[3]), s[4] = XorByte(x[4], y[4])
  PROVE  XorBytes[x][y] = s
  BY WordXor, WordsEqual

(* Both are linear. *)
LEMMA UncolumnAdds ==
  ASSUME NEW a \in Byte, NEW b \in Byte
  PROVE  Uncolumn(XorByte(a, b)) = XorBytes[Uncolumn(a)][Uncolumn(b)]
<1>1. PICK c \in Byte : c = XorByte(a, b)
  BY XorByteIs
<1>2. PICK x \in Bytes(4), y \in Bytes(4), z \in Bytes(4) : x = Uncolumn(a) /\ y = Uncolumn(b) /\ z = Uncolumn(c)
  BY UncolumnIs
<1>3. PICK u \in Bytes(4) :
        /\ u = XorBytes[x][y]
        /\ u[1] = XorByte(x[1], y[1]) /\ u[2] = XorByte(x[2], y[2])
        /\ u[3] = XorByte(x[3], y[3]) /\ u[4] = XorByte(x[4], y[4])
  BY WordXor
<1>4. /\ z[1] = XorByte(x[1], y[1]) /\ z[2] = XorByte(x[2], y[2])
      /\ z[3] = XorByte(x[3], y[3]) /\ z[4] = XorByte(x[4], y[4])
  <2>1. \A e : Times(c, e) = XorByte(Times(a, e), Times(b, e))
    BY <1>1, TimesAdds
  <2> QED
    BY <1>2, <2>1, UncolumnIs
<1>5. z = u
  BY <1>3, <1>4, WordsEqual
<1> QED
  BY <1>1, <1>2, <1>3, <1>5

LEMMA RightAdds ==
  ASSUME NEW x \in Bytes(4), NEW y \in Bytes(4)
  PROVE  Right(XorBytes[x][y]) = XorBytes[Right(x)][Right(y)]
<1>1. PICK z \in Bytes(4) :
        /\ z = XorBytes[x][y]
        /\ z[1] = XorByte(x[1], y[1]) /\ z[2] = XorByte(x[2], y[2])
        /\ z[3] = XorByte(x[3], y[3]) /\ z[4] = XorByte(x[4], y[4])
  BY WordXor
<1>2. PICK u \in Bytes(4), v \in Bytes(4) : u = Right(x) /\ v = Right(y)
  BY RightIs
<1>3. PICK s \in Bytes(4) :
        /\ s = XorBytes[u][v]
        /\ s[1] = XorByte(u[1], v[1]) /\ s[2] = XorByte(u[2], v[2])
        /\ s[3] = XorByte(u[3], v[3]) /\ s[4] = XorByte(u[4], v[4])
  BY WordXor
<1>4. PICK t \in Bytes(4) : t = Right(z) /\ t[1] = z[4] /\ t[2] = z[1] /\ t[3] = z[2] /\ t[4] = z[3]
  BY RightIs
<1>5. /\ u[1] = x[4] /\ u[2] = x[1] /\ u[3] = x[2] /\ u[4] = x[3]
      /\ v[1] = y[4] /\ v[2] = y[1] /\ v[3] = y[2] /\ v[4] = y[3]
  BY <1>2, RightIs
<1>6. s = t
  BY <1>1, <1>3, <1>4, <1>5, WordsEqual
<1> QED
  BY <1>1, <1>2, <1>3, <1>4, <1>6

(* The four columns of a word undone, and their sum: the inverse of        *)
(* MixColumn.                                                              *)
Part1(w) == Uncolumn(w[1])
Part2(w) == Right(Uncolumn(w[2]))
Part3(w) == Right(Right(Uncolumn(w[3])))
Part4(w) == Right(Right(Right(Uncolumn(w[4]))))
Uncolumns(w) == XorBytes[XorBytes[Uncolumn(w[1])][Right(Uncolumn(w[2]))]]
                        [XorBytes[Right(Right(Uncolumn(w[3])))][Right(Right(Right(Uncolumn(w[4]))))]]

LEMMA PartsAre ==
  ASSUME NEW w \in Bytes(4)
  PROVE  /\ Part1(w) \in Bytes(4) /\ Part2(w) \in Bytes(4) /\ Part3(w) \in Bytes(4) /\ Part4(w) \in Bytes(4)
         /\ Uncolumns(w) = XorBytes[XorBytes[Part1(w)][Part2(w)]][XorBytes[Part3(w)][Part4(w)]]
         /\ Uncolumns(w) \in Bytes(4)
<1>1. Part1(w) \in Bytes(4) /\ Part2(w) \in Bytes(4) /\ Part3(w) \in Bytes(4) /\ Part4(w) \in Bytes(4)
  BY QuadHas, UncolumnIs, RightIs DEF Part1, Part2, Part3, Part4
<1>2. Uncolumns(w) = XorBytes[XorBytes[Part1(w)][Part2(w)]][XorBytes[Part3(w)][Part4(w)]]
  BY DEF Uncolumns, Part1, Part2, Part3, Part4
<1>3. PICK a \in Bytes(4), b \in Bytes(4) : a = XorBytes[Part1(w)][Part2(w)] /\ b = XorBytes[Part3(w)][Part4(w)]
  BY <1>1, WordXor
<1>4. XorBytes[a][b] \in Bytes(4)
  BY WordXor
<1> QED
  BY <1>1, <1>2, <1>3, <1>4

LEMMA PartsAdd ==
  ASSUME NEW x \in Bytes(4), NEW y \in Bytes(4), NEW z \in Bytes(4), z = XorBytes[x][y]
  PROVE  /\ Part1(z) = XorBytes[Part1(x)][Part1(y)] /\ Part2(z) = XorBytes[Part2(x)][Part2(y)]
         /\ Part3(z) = XorBytes[Part3(x)][Part3(y)] /\ Part4(z) = XorBytes[Part4(x)][Part4(y)]
<1>1. ASSUME NEW a \in Byte, NEW b \in Byte, NEW c \in Byte, c = XorByte(a, b)
      PROVE  /\ Uncolumn(c) = XorBytes[Uncolumn(a)][Uncolumn(b)]
             /\ Right(Uncolumn(c)) = XorBytes[Right(Uncolumn(a))][Right(Uncolumn(b))]
             /\ Right(Right(Uncolumn(c))) = XorBytes[Right(Right(Uncolumn(a)))][Right(Right(Uncolumn(b)))]
             /\ Right(Right(Right(Uncolumn(c)))) = XorBytes[Right(Right(Right(Uncolumn(a))))][Right(Right(Right(Uncolumn(b))))]
  <2>1. PICK u \in Bytes(4), v \in Bytes(4) : u = Uncolumn(a) /\ v = Uncolumn(b)
    BY UncolumnIs
  <2>2. Uncolumn(c) = XorBytes[u][v]
    BY <1>1, <2>1, UncolumnAdds
  <2>3. PICK u1 \in Bytes(4), v1 \in Bytes(4) : u1 = Right(u) /\ v1 = Right(v)
    BY RightIs
  <2>4. Right(Uncolumn(c)) = XorBytes[u1][v1]
    BY <2>2, <2>3, RightAdds
  <2>5. PICK u2 \in Bytes(4), v2 \in Bytes(4) : u2 = Right(u1) /\ v2 = Right(v1)
    BY RightIs
  <2>6. Right(Right(Uncolumn(c))) = XorBytes[u2][v2]
    BY <2>4, <2>5, RightAdds
  <2>7. Right(Right(Right(Uncolumn(c)))) = XorBytes[Right(u2)][Right(v2)]
    BY <2>6, RightAdds
  <2> QED
    BY <2>1, <2>2, <2>3, <2>4, <2>5, <2>6, <2>7
<1>2. /\ z[1] = XorByte(x[1], y[1]) /\ z[2] = XorByte(x[2], y[2])
      /\ z[3] = XorByte(x[3], y[3]) /\ z[4] = XorByte(x[4], y[4])
  BY WordXor
<1>3. /\ x[1] \in Byte /\ x[2] \in Byte /\ x[3] \in Byte /\ x[4] \in Byte
      /\ y[1] \in Byte /\ y[2] \in Byte /\ y[3] \in Byte /\ y[4] \in Byte
      /\ z[1] \in Byte /\ z[2] \in Byte /\ z[3] \in Byte /\ z[4] \in Byte
  BY QuadHas
<1> QED
  BY <1>1, <1>2, <1>3 DEF Part1, Part2, Part3, Part4

(* The same of eight words. *)
Crossed(p, q, r, t) == XorBytes[XorBytes[p][q]][XorBytes[r][t]] = XorBytes[XorBytes[p][r]][XorBytes[q][t]]

LEMMA CrossedAre ==
  ASSUME NEW p \in Bytes(4), NEW q \in Bytes(4), NEW r \in Bytes(4), NEW t \in Bytes(4)
  PROVE  Crossed(p, q, r, t)
  BY WordCross DEF Crossed

(* Undoing the columns is linear, ... *)
LEMMA UncolumnsAdd ==
  ASSUME NEW x \in Bytes(4), NEW y \in Bytes(4)
  PROVE  Uncolumns(XorBytes[x][y]) = XorBytes[Uncolumns(x)][Uncolumns(y)]
<1>1. PICK z \in Bytes(4) : z = XorBytes[x][y]
  BY WordXor
<1>2. PICK x1 \in Bytes(4), x2 \in Bytes(4), x3 \in Bytes(4), x4 \in Bytes(4) :
        x1 = Part1(x) /\ x2 = Part2(x) /\ x3 = Part3(x) /\ x4 = Part4(x)
  BY PartsAre
<1>3. PICK y1 \in Bytes(4), y2 \in Bytes(4), y3 \in Bytes(4), y4 \in Bytes(4) :
        y1 = Part1(y) /\ y2 = Part2(y) /\ y3 = Part3(y) /\ y4 = Part4(y)
  BY PartsAre
<1>4. Uncolumns(z) = XorBytes[XorBytes[XorBytes[x1][y1]][XorBytes[x2][y2]]][XorBytes[XorBytes[x3][y3]][XorBytes[x4][y4]]]
  <2>1. /\ Part1(z) = XorBytes[x1][y1] /\ Part2(z) = XorBytes[x2][y2]
        /\ Part3(z) = XorBytes[x3][y3] /\ Part4(z) = XorBytes[x4][y4]
    BY <1>1, <1>2, <1>3, PartsAdd
  <2>2. Uncolumns(z) = XorBytes[XorBytes[Part1(z)][Part2(z)]][XorBytes[Part3(z)][Part4(z)]]
    BY PartsAre
  <2> QED
    BY <2>1, <2>2
<1>5. PICK p \in Bytes(4), q \in Bytes(4), r \in Bytes(4), t \in Bytes(4) :
        p = XorBytes[x1][x2] /\ q = XorBytes[y1][y2] /\ r = XorBytes[x3][x4] /\ t = XorBytes[y3][y4]
  BY WordXor
<1>6. XorBytes[XorBytes[x1][y1]][XorBytes[x2][y2]] = XorBytes[p][q]
  <2>1. Crossed(x1, y1, x2, y2)
    BY <1>2, <1>3, CrossedAre
  <2> QED
    BY <1>5, <2>1 DEF Crossed
<1>7. XorBytes[XorBytes[x3][y3]][XorBytes[x4][y4]] = XorBytes[r][t]
  <2>1. Crossed(x3, y3, x4, y4)
    BY <1>2, <1>3, CrossedAre
  <2> QED
    BY <1>5, <2>1 DEF Crossed
<1>8. XorBytes[XorBytes[p][q]][XorBytes[r][t]] = XorBytes[XorBytes[p][r]][XorBytes[q][t]]
  <2>1. Crossed(p, q, r, t)
    BY CrossedAre
  <2> QED
    BY <2>1 DEF Crossed
<1>9. XorBytes[p][r] = Uncolumns(x) /\ XorBytes[q][t] = Uncolumns(y)
  BY <1>2, <1>3, <1>5, PartsAre
<1> QED
  BY <1>1, <1>4, <1>6, <1>7, <1>8, <1>9

(* ... and undoes what a round mixes.                                      *)
Mix(a, b, c, d) == XorBytes[XorBytes[Column(a)][Right(Column(b))]]
                           [XorBytes[Right(Right(Column(c)))][Right(Right(Right(Column(d))))]]

LEMMA ColumnIs ==
  ASSUME NEW b \in Byte
  PROVE  Column(b) \in Bytes(4)
<1>1. PICK x \in Byte, y \in Byte : x = Twice(b) /\ y = Thrice(b)
  BY TwiceIs
<1>2. Column(b) = Quad(x, b, b, y)
  BY <1>1 DEF Column, Quad
<1> QED
  BY <1>2, QuadIs

(* The exclusive or of two bytes as a sum, to compute with. *)
BitPlace(a, b, e) == e * (((a \div e) + (b \div e)) % 2)
SumOfBits(a, b) == BitPlace(a, b, 1) + BitPlace(a, b, 2) + BitPlace(a, b, 4) + BitPlace(a, b, 8)
                   + BitPlace(a, b, 16) + BitPlace(a, b, 32) + BitPlace(a, b, 64) + BitPlace(a, b, 128)

LEMMA XorComputes ==
  ASSUME NEW a \in Byte, NEW b \in Byte
  PROVE  XorByte(a, b) = SumOfBits(a, b)
<1>1. PICK t : IsOctet(t) /\ a = Worth(t)
  BY ByteHas
<1>2. PICK u : IsOctet(u) /\ b = Worth(u)
  BY ByteHas
<1>3. PICK s : s = SumOf(t, u) /\ IsOctet(s) /\ XorByte(a, b) = Worth(s)
  BY <1>1, <1>2, OctetXor
<1>4. ASSUME NEW x \in Byte, NEW o, IsOctet(o), x = Worth(o)
      PROVE  /\ (x \div 1) % 2 = o[1] /\ (x \div 2) % 2 = o[2] /\ (x \div 4) % 2 = o[3] /\ (x \div 8) % 2 = o[4]
             /\ (x \div 16) % 2 = o[5] /\ (x \div 32) % 2 = o[6] /\ (x \div 64) % 2 = o[7] /\ (x \div 128) % 2 = o[8]
  <2>1. PICK c \in 0 .. 1, d \in 0 .. 1, e \in 0 .. 1, f \in 0 .. 1, g \in 0 .. 1, h \in 0 .. 1, i \in 0 .. 1, j \in 0 .. 1 :
          /\ c = o[1] /\ d = o[2] /\ e = o[3] /\ f = o[4] /\ g = o[5] /\ h = o[6] /\ i = o[7] /\ j = o[8]
    BY <1>4 DEF IsOctet
  <2>2. x = c + 2 * d + 4 * e + 8 * f + 16 * g + 32 * h + 64 * i + 128 * j
    <3>1. x = 16 * (g + 2 * h + 4 * i + 8 * j) + (c + 2 * d + 4 * e + 8 * f)
      BY <1>4, <2>1 DEF Worth, Upper, Lower
    <3> QED
      BY <3>1
  <2>3. x \div 1 = x /\ x \div 2 = d + 2 * e + 4 * f + 8 * g + 16 * h + 32 * i + 64 * j
    BY <2>2
  <2>4. x \div 4 = e + 2 * f + 4 * g + 8 * h + 16 * i + 32 * j /\ x \div 8 = f + 2 * g + 4 * h + 8 * i + 16 * j
    BY <2>2
  <2>5. x \div 16 = g + 2 * h + 4 * i + 8 * j /\ x \div 32 = h + 2 * i + 4 * j /\ x \div 64 = i + 2 * j /\ x \div 128 = j
    BY <2>2
  <2>6. x % 2 = c /\ (x \div 2) % 2 = d
    BY <2>2, <2>3
  <2>7. (x \div 4) % 2 = e /\ (x \div 8) % 2 = f
    BY <2>4
  <2>8. (x \div 16) % 2 = g /\ (x \div 32) % 2 = h /\ (x \div 64) % 2 = i /\ (x \div 128) % 2 = j
    BY <2>5
  <2> QED
    BY <2>1, <2>3, <2>6, <2>7, <2>8
<1>5. \A m, n \in Nat : (m + n) % 2 = ((m % 2) + (n % 2)) % 2
  OBVIOUS
<1>6. ASSUME NEW e \in {1, 2, 4, 8, 16, 32, 64, 128}, NEW i \in 0 .. 1, NEW j \in 0 .. 1, (a \div e) % 2 = i, (b \div e) % 2 = j
      PROVE  BitPlace(a, b, e) = e * ((i + j) % 2)
  <2>1. PICK m \in Nat, n \in Nat : m = a \div e /\ n = b \div e
    BY DEF Byte
  <2>2. (m + n) % 2 = (i + j) % 2
    BY ONLY <1>5, <1>6, <2>1, m \in Nat, n \in Nat
  <2> QED
    BY <2>1, <2>2 DEF BitPlace
<1>7. /\ s[1] = (t[1] + u[1]) % 2 /\ s[2] = (t[2] + u[2]) % 2 /\ s[3] = (t[3] + u[3]) % 2 /\ s[4] = (t[4] + u[4]) % 2
      /\ s[5] = (t[5] + u[5]) % 2 /\ s[6] = (t[6] + u[6]) % 2 /\ s[7] = (t[7] + u[7]) % 2 /\ s[8] = (t[8] + u[8]) % 2
  BY <1>3 DEF SumOf
<1>8. BitPlace(a, b, 1) = 1 * s[1] /\ BitPlace(a, b, 2) = 2 * s[2] /\ BitPlace(a, b, 4) = 4 * s[3] /\ BitPlace(a, b, 8) = 8 * s[4]
  BY <1>1, <1>2, <1>4, <1>6, <1>7 DEF IsOctet
<1>9. BitPlace(a, b, 16) = 16 * s[5] /\ BitPlace(a, b, 32) = 32 * s[6] /\ BitPlace(a, b, 64) = 64 * s[7] /\ BitPlace(a, b, 128) = 128 * s[8]
  BY <1>1, <1>2, <1>4, <1>6, <1>7 DEF IsOctet
<1>10. Worth(s) = 1 * s[1] + 2 * s[2] + 4 * s[3] + 8 * s[4] + 16 * s[5] + 32 * s[6] + 64 * s[7] + 128 * s[8]
  BY <1>3 DEF IsOctet, Worth, Upper, Lower
<1> QED
  BY <1>3, <1>8, <1>9, <1>10 DEF SumOfBits

(* A row of a column undone. *)
RowOf(b, c, d, e, f) ==
  XorByte(XorByte(Times(Twice(b), c), Times(b, d)), XorByte(Times(b, e), Times(Thrice(b), f)))

LEMMA RowIs ==
  ASSUME NEW b \in Byte, NEW c \in Byte, NEW d \in Byte, NEW e \in Byte, NEW f \in Byte
  PROVE  RowOf(b, c, d, e, f) = Times(XorByte(XorByte(Twice(c), d), XorByte(e, Thrice(f))), b)
<1>1. PICK c2 \in Byte, f2 \in Byte, f3 \in Byte : c2 = Twice(c) /\ f2 = Twice(f) /\ f3 = Thrice(f)
  BY TwiceIs
<1>2. Times(Twice(b), c) = Times(c2, b) /\ Times(Twice(b), f) = Times(f2, b)
  <2>1. Times(Twice(b), c) = Twice(Times(b, c)) /\ Times(Twice(b), f) = Twice(Times(b, f))
    BY TimesDoubles
  <2>2. Times(b, c) = Times(c, b) /\ Times(b, f) = Times(f, b)
    BY TimesCommutes
  <2>3. Twice(Times(c, b)) = Times(c2, b) /\ Twice(Times(f, b)) = Times(f2, b)
    BY <1>1, TimesDoubles
  <2> QED
    BY <2>1, <2>2, <2>3
<1>3. Times(Thrice(b), f) = Times(f3, b)
  <2>1. PICK p \in Byte : p = Twice(b)
    BY TwiceIs
  <2>2. Times(XorByte(p, b), f) = XorByte(Times(p, f), Times(b, f))
    BY <2>1, TimesAdds
  <2>3. Times(p, f) = Times(f2, b) /\ Times(b, f) = Times(f, b)
    BY <1>2, <2>1, TimesCommutes
  <2>4. f3 = XorByte(f2, f)
    BY <1>1 DEF Thrice
  <2>5. Times(f3, b) = XorByte(Times(f2, b), Times(f, b))
    BY <1>1, <2>4, TimesAdds
  <2> QED
    BY <2>1, <2>2, <2>3, <2>5 DEF Thrice
<1>4. Times(b, d) = Times(d, b) /\ Times(b, e) = Times(e, b)
  BY TimesCommutes
<1>5. PICK x \in Byte, y \in Byte : x = XorByte(c2, d) /\ y = XorByte(e, f3)
  BY XorByteIs
<1>6. Times(x, b) = XorByte(Times(c2, b), Times(d, b)) /\ Times(y, b) = XorByte(Times(e, b), Times(f3, b))
  BY <1>1, <1>5, TimesAdds
<1>7. Times(XorByte(x, y), b) = XorByte(Times(x, b), Times(y, b))
  BY TimesAdds
<1> QED
  BY <1>1, <1>2, <1>3, <1>4, <1>5, <1>6, <1>7 DEF RowOf

(* The four rows of the product of the matrices. *)
LEMMA RowsAre ==
  ASSUME NEW b \in Byte
  PROVE  /\ RowOf(b, 14, 11, 13, 9) = b /\ RowOf(b, 9, 14, 11, 13) = 0
         /\ RowOf(b, 13, 9, 14, 11) = 0 /\ RowOf(b, 11, 13, 9, 14) = 0
<1>1. \A x, y \in Byte : XorByte(x, y) = SumOfBits(x, y)
  BY XorComputes
<1>2. /\ 28 \in Byte /\ 18 \in Byte /\ 26 \in Byte /\ 22 \in Byte /\ 9 \in Byte /\ 11 \in Byte /\ 13 \in Byte /\ 14 \in Byte
      /\ 27 \in Byte /\ 23 \in Byte /\ 29 \in Byte /\ 19 \in Byte /\ 7 \in Byte /\ 0 \in Byte /\ 1 \in Byte
  BY DEF Byte
<1>3. /\ SumOfBits(18, 9) = 27 /\ SumOfBits(26, 13) = 23 /\ SumOfBits(22, 11) = 29 /\ SumOfBits(28, 14) = 18
  BY DEF SumOfBits, BitPlace
<1>4. /\ SumOfBits(28, 11) = 23 /\ SumOfBits(13, 27) = 22 /\ SumOfBits(23, 22) = 1
      /\ SumOfBits(18, 14) = 28 /\ SumOfBits(11, 23) = 28 /\ SumOfBits(28, 28) = 0
  BY DEF SumOfBits, BitPlace
<1>5. /\ SumOfBits(26, 9) = 19 /\ SumOfBits(14, 29) = 19 /\ SumOfBits(19, 19) = 0
      /\ SumOfBits(22, 13) = 27 /\ SumOfBits(9, 18) = 27 /\ SumOfBits(27, 27) = 0
  BY DEF SumOfBits, BitPlace
<1>6. /\ Twice(14) = 28 /\ Twice(9) = 18 /\ Twice(13) = 26 /\ Twice(11) = 22
      /\ Thrice(9) = 27 /\ Thrice(13) = 23 /\ Thrice(11) = 29 /\ Thrice(14) = 18
  <2>1. Twice(14) = 28 /\ Twice(9) = 18 /\ Twice(13) = 26 /\ Twice(11) = 22
    BY DEF Twice
  <2>2. XorByte(18, 9) = 27 /\ XorByte(26, 13) = 23 /\ XorByte(22, 11) = 29 /\ XorByte(28, 14) = 18
    BY <1>1, <1>2, <1>3
  <2> QED
    BY <2>1, <2>2 DEF Thrice
<1>7. /\ XorByte(28, 11) = 23 /\ XorByte(13, 27) = 22 /\ XorByte(23, 22) = 1
      /\ XorByte(18, 14) = 28 /\ XorByte(11, 23) = 28 /\ XorByte(28, 28) = 0
  BY <1>1, <1>2, <1>4
<1>8. /\ XorByte(26, 9) = 19 /\ XorByte(14, 29) = 19 /\ XorByte(19, 19) = 0
      /\ XorByte(22, 13) = 27 /\ XorByte(9, 18) = 27 /\ XorByte(27, 27) = 0
  BY <1>1, <1>2, <1>5
<1>9. RowOf(b, 14, 11, 13, 9) = Times(1, b)
  <2>1. PICK c \in Byte, d \in Byte, e \in Byte, f \in Byte : c = 14 /\ d = 11 /\ e = 13 /\ f = 9
    BY <1>2
  <2>2. c \in Byte /\ d \in Byte /\ e \in Byte /\ f \in Byte
    BY <2>1
  <2>3. RowOf(b, c, d, e, f) = Times(XorByte(XorByte(Twice(c), d), XorByte(e, Thrice(f))), b)
    BY <2>2, RowIs
  <2>4. XorByte(XorByte(Twice(c), d), XorByte(e, Thrice(f))) = 1
    BY ONLY <1>6, <1>7, <2>1
  <2> QED
    BY ONLY <2>1, <2>3, <2>4
<1>10. RowOf(b, 9, 14, 11, 13) = Times(0, b)
  <2>1. PICK c \in Byte, d \in Byte, e \in Byte, f \in Byte : c = 9 /\ d = 14 /\ e = 11 /\ f = 13
    BY <1>2
  <2>2. c \in Byte /\ d \in Byte /\ e \in Byte /\ f \in Byte
    BY <2>1
  <2>3. RowOf(b, c, d, e, f) = Times(XorByte(XorByte(Twice(c), d), XorByte(e, Thrice(f))), b)
    BY <2>2, RowIs
  <2>4. XorByte(XorByte(Twice(c), d), XorByte(e, Thrice(f))) = 0
    BY ONLY <1>6, <1>7, <2>1
  <2> QED
    BY ONLY <2>1, <2>3, <2>4
<1>11. RowOf(b, 13, 9, 14, 11) = Times(0, b)
  <2>1. PICK c \in Byte, d \in Byte, e \in Byte, f \in Byte : c = 13 /\ d = 9 /\ e = 14 /\ f = 11
    BY <1>2
  <2>2. c \in Byte /\ d \in Byte /\ e \in Byte /\ f \in Byte
    BY <2>1
  <2>3. RowOf(b, c, d, e, f) = Times(XorByte(XorByte(Twice(c), d), XorByte(e, Thrice(f))), b)
    BY <2>2, RowIs
  <2>4. XorByte(XorByte(Twice(c), d), XorByte(e, Thrice(f))) = 0
    BY ONLY <1>6, <1>8, <2>1
  <2> QED
    BY ONLY <2>1, <2>3, <2>4
<1>12. RowOf(b, 11, 13, 9, 14) = Times(0, b)
  <2>1. PICK c \in Byte, d \in Byte, e \in Byte, f \in Byte : c = 11 /\ d = 13 /\ e = 9 /\ f = 14
    BY <1>2
  <2>2. c \in Byte /\ d \in Byte /\ e \in Byte /\ f \in Byte
    BY <2>1
  <2>3. RowOf(b, c, d, e, f) = Times(XorByte(XorByte(Twice(c), d), XorByte(e, Thrice(f))), b)
    BY <2>2, RowIs
  <2>4. XorByte(XorByte(Twice(c), d), XorByte(e, Thrice(f))) = 0
    BY ONLY <1>6, <1>8, <2>1
  <2> QED
    BY ONLY <2>1, <2>3, <2>4
<1>13. Times(0, b) = 0
  <2>1. PICK z : z = 0
    OBVIOUS
  <2>2. z \in Byte /\ XorByte(z, z) = z
    BY <1>2, <2>1, XorByteIs
  <2>3. Times(z, b) = XorByte(Times(z, b), Times(z, b)) /\ Times(z, b) \in Byte
    BY <2>2, TimesAdds, TimesIs
  <2> QED
    BY <2>1, <2>3, ByteGroup
<1> QED
  BY <1>9, <1>10, <1>11, <1>12, <1>13, TimesOne

(* The rows of a word undone. *)
LEMMA UncolumnsRows ==
  ASSUME NEW w \in Bytes(4)
  PROVE  /\ Uncolumns(w)[1] = XorByte(XorByte(Times(w[1], 14), Times(w[2], 11)), XorByte(Times(w[3], 13), Times(w[4], 9)))
         /\ Uncolumns(w)[2] = XorByte(XorByte(Times(w[1], 9), Times(w[2], 14)), XorByte(Times(w[3], 11), Times(w[4], 13)))
         /\ Uncolumns(w)[3] = XorByte(XorByte(Times(w[1], 13), Times(w[2], 9)), XorByte(Times(w[3], 14), Times(w[4], 11)))
         /\ Uncolumns(w)[4] = XorByte(XorByte(Times(w[1], 11), Times(w[2], 13)), XorByte(Times(w[3], 9), Times(w[4], 14)))
<1>1. w[1] \in Byte /\ w[2] \in Byte /\ w[3] \in Byte /\ w[4] \in Byte
  BY QuadHas
<1>2. PICK a \in Bytes(4), b \in Bytes(4), c \in Bytes(4), d \in Bytes(4) :
        a = Uncolumn(w[1]) /\ b = Uncolumn(w[2]) /\ c = Uncolumn(w[3]) /\ d = Uncolumn(w[4])
  BY <1>1, UncolumnIs
<1>3. /\ a[1] = Times(w[1], 14) /\ a[2] = Times(w[1], 9) /\ a[3] = Times(w[1], 13) /\ a[4] = Times(w[1], 11)
      /\ b[1] = Times(w[2], 14) /\ b[2] = Times(w[2], 9) /\ b[3] = Times(w[2], 13) /\ b[4] = Times(w[2], 11)
      /\ c[1] = Times(w[3], 14) /\ c[2] = Times(w[3], 9) /\ c[3] = Times(w[3], 13) /\ c[4] = Times(w[3], 11)
      /\ d[1] = Times(w[4], 14) /\ d[2] = Times(w[4], 9) /\ d[3] = Times(w[4], 13) /\ d[4] = Times(w[4], 11)
  BY <1>1, <1>2, UncolumnIs
<1>4. PICK p \in Bytes(4) : p = Right(b) /\ p[1] = b[4] /\ p[2] = b[1] /\ p[3] = b[2] /\ p[4] = b[3]
  BY RightIs
<1>5. PICK q \in Bytes(4) : q = Right(c) /\ q[1] = c[4] /\ q[2] = c[1] /\ q[3] = c[2] /\ q[4] = c[3]
  BY RightIs
<1>6. PICK r \in Bytes(4) : r = Right(q) /\ r[1] = q[4] /\ r[2] = q[1] /\ r[3] = q[2] /\ r[4] = q[3]
  BY RightIs
<1>7. PICK s \in Bytes(4) : s = Right(d) /\ s[1] = d[4] /\ s[2] = d[1] /\ s[3] = d[2] /\ s[4] = d[3]
  BY RightIs
<1>8. PICK t \in Bytes(4) : t = Right(s) /\ t[1] = s[4] /\ t[2] = s[1] /\ t[3] = s[2] /\ t[4] = s[3]
  BY RightIs
<1>9. PICK u \in Bytes(4) : u = Right(t) /\ u[1] = t[4] /\ u[2] = t[1] /\ u[3] = t[2] /\ u[4] = t[3]
  BY RightIs
<1>10. PICK x \in Bytes(4) : /\ x = XorBytes[a][p]
                             /\ x[1] = XorByte(a[1], p[1]) /\ x[2] = XorByte(a[2], p[2])
                             /\ x[3] = XorByte(a[3], p[3]) /\ x[4] = XorByte(a[4], p[4])
  BY WordXor
<1>11. PICK y \in Bytes(4) : /\ y = XorBytes[r][u]
                             /\ y[1] = XorByte(r[1], u[1]) /\ y[2] = XorByte(r[2], u[2])
                             /\ y[3] = XorByte(r[3], u[3]) /\ y[4] = XorByte(r[4], u[4])
  BY WordXor
<1>12. PICK z \in Bytes(4) : /\ z = XorBytes[x][y]
                             /\ z[1] = XorByte(x[1], y[1]) /\ z[2] = XorByte(x[2], y[2])
                             /\ z[3] = XorByte(x[3], y[3]) /\ z[4] = XorByte(x[4], y[4])
  BY WordXor
<1>13. Uncolumns(w) = z
  BY <1>2, <1>4, <1>5, <1>6, <1>7, <1>8, <1>9, <1>10, <1>11, <1>12 DEF Uncolumns
<1>14. /\ p[1] = b[4] /\ p[2] = b[1] /\ p[3] = b[2] /\ p[4] = b[3]
       /\ r[1] = c[3] /\ r[2] = c[4] /\ r[3] = c[1] /\ r[4] = c[2]
       /\ u[1] = d[2] /\ u[2] = d[3] /\ u[3] = d[4] /\ u[4] = d[1]
  BY <1>4, <1>5, <1>6, <1>7, <1>8, <1>9
<1>15. /\ z[1] = XorByte(XorByte(a[1], b[4]), XorByte(c[3], d[2])) /\ z[2] = XorByte(XorByte(a[2], b[1]), XorByte(c[4], d[3]))
       /\ z[3] = XorByte(XorByte(a[3], b[2]), XorByte(c[1], d[4])) /\ z[4] = XorByte(XorByte(a[4], b[3]), XorByte(c[2], d[1]))
  BY <1>10, <1>11, <1>12, <1>14
<1> QED
  BY <1>3, <1>13, <1>15

(* The sum of four, turned. *)
LEMMA ByteTurns ==
  ASSUME NEW a \in Byte, NEW b \in Byte, NEW c \in Byte, NEW d \in Byte
  PROVE  XorByte(XorByte(d, a), XorByte(b, c)) = XorByte(XorByte(a, b), XorByte(c, d))
<1>1. XorByte(d, a) = XorByte(a, d)
  BY ByteGroup
<1>2. XorByte(XorByte(a, d), XorByte(b, c)) = XorByte(XorByte(a, b), XorByte(d, c))
  BY ByteCross
<1>3. XorByte(d, c) = XorByte(c, d)
  BY ByteGroup
<1> QED
  BY <1>1, <1>2, <1>3

(* A word turned before it is undone is turned after. *)
LEMMA UncolumnsTurns ==
  ASSUME NEW w \in Bytes(4)
  PROVE  Uncolumns(Right(w)) = Right(Uncolumns(w))
<1>1. PICK a \in Byte, b \in Byte, c \in Byte, d \in Byte : a = w[1] /\ b = w[2] /\ c = w[3] /\ d = w[4]
  BY QuadHas
<1>2. PICK y \in Bytes(4) : y = Right(w) /\ y[1] = d /\ y[2] = a /\ y[3] = b /\ y[4] = c
  BY <1>1, RightIs
<1>3. PICK u \in Bytes(4) : /\ u = Uncolumns(w)
        /\ u[1] = XorByte(XorByte(Times(a, 14), Times(b, 11)), XorByte(Times(c, 13), Times(d, 9)))
        /\ u[2] = XorByte(XorByte(Times(a, 9), Times(b, 14)), XorByte(Times(c, 11), Times(d, 13)))
        /\ u[3] = XorByte(XorByte(Times(a, 13), Times(b, 9)), XorByte(Times(c, 14), Times(d, 11)))
        /\ u[4] = XorByte(XorByte(Times(a, 11), Times(b, 13)), XorByte(Times(c, 9), Times(d, 14)))
  BY <1>1, UncolumnsRows, PartsAre
<1>4. PICK v \in Bytes(4) : /\ v = Uncolumns(y)
        /\ v[1] = XorByte(XorByte(Times(d, 14), Times(a, 11)), XorByte(Times(b, 13), Times(c, 9)))
        /\ v[2] = XorByte(XorByte(Times(d, 9), Times(a, 14)), XorByte(Times(b, 11), Times(c, 13)))
        /\ v[3] = XorByte(XorByte(Times(d, 13), Times(a, 9)), XorByte(Times(b, 14), Times(c, 11)))
        /\ v[4] = XorByte(XorByte(Times(d, 11), Times(a, 13)), XorByte(Times(b, 9), Times(c, 14)))
  BY <1>2, UncolumnsRows, PartsAre
<1>5. \A p \in Byte, k \in {9, 11, 13, 14} : Times(p, k) \in Byte
  BY TimesIs
<1>6. v[1] = u[4] /\ v[2] = u[1]
  BY <1>3, <1>4, <1>5, ByteTurns
<1>7. v[3] = u[2] /\ v[4] = u[3]
  BY <1>3, <1>4, <1>5, ByteTurns
<1>8. PICK x \in Bytes(4) : x = Right(u) /\ x[1] = u[4] /\ x[2] = u[1] /\ x[3] = u[2] /\ x[4] = u[3]
  BY RightIs
<1>9. v = x
  BY <1>6, <1>7, <1>8, WordsEqual
<1> QED
  BY <1>2, <1>3, <1>4, <1>8, <1>9

(* The column of a byte, at each place, undone. *)
LEMMA ColumnsUndone ==
  ASSUME NEW b \in Byte, NEW z, z = 0
  PROVE  /\ Uncolumns(Column(b)) = Quad(b, z, z, z) /\ Uncolumns(Right(Column(b))) = Quad(z, b, z, z)
         /\ Uncolumns(Right(Right(Column(b)))) = Quad(z, z, b, z)
         /\ Uncolumns(Right(Right(Right(Column(b))))) = Quad(z, z, z, b)
<1>1. PICK w \in Bytes(4) : w = Column(b)
  BY ColumnIs
<1>2. w[1] = Twice(b) /\ w[2] = b /\ w[3] = b /\ w[4] = Thrice(b)
  BY <1>1 DEF Column
<1>3. PICK u \in Bytes(4) : u = Uncolumns(w)
  BY PartsAre
<1>4. /\ u[1] = RowOf(b, 14, 11, 13, 9) /\ u[2] = RowOf(b, 9, 14, 11, 13)
      /\ u[3] = RowOf(b, 13, 9, 14, 11) /\ u[4] = RowOf(b, 11, 13, 9, 14)
  BY <1>2, <1>3, UncolumnsRows DEF RowOf
<1>5. z \in Byte
  BY DEF Byte
<1>6. PICK m \in Bytes(4), n \in Bytes(4), o \in Bytes(4), p \in Bytes(4) :
        m = Quad(b, z, z, z) /\ n = Quad(z, b, z, z) /\ o = Quad(z, z, b, z) /\ p = Quad(z, z, z, b)
  BY <1>5, QuadIs
<1>7. /\ m[1] = b /\ m[2] = z /\ m[3] = z /\ m[4] = z /\ n[1] = z /\ n[2] = b /\ n[3] = z /\ n[4] = z
      /\ o[1] = z /\ o[2] = z /\ o[3] = b /\ o[4] = z /\ p[1] = z /\ p[2] = z /\ p[3] = z /\ p[4] = b
  BY <1>6 DEF Quad
<1>8. Uncolumns(w) = m
  BY <1>3, <1>4, <1>7, RowsAre, WordsEqual
<1>9. Right(m) = n /\ Right(n) = o /\ Right(o) = p
  BY <1>7, RightIs, WordsEqual
<1>10. PICK x \in Bytes(4), y \in Bytes(4) : x = Right(w) /\ y = Right(x)
  BY RightIs
<1>11. Uncolumns(x) = n /\ Uncolumns(y) = o /\ Uncolumns(Right(y)) = p
  BY <1>8, <1>9, <1>10, UncolumnsTurns
<1> QED
  BY <1>1, <1>6, <1>8, <1>10, <1>11

LEMMA MixUndone ==
  ASSUME NEW a \in Byte, NEW b \in Byte, NEW c \in Byte, NEW d \in Byte
  PROVE  Mix(a, b, c, d) \in Bytes(4) /\ Uncolumns(Mix(a, b, c, d)) = Quad(a, b, c, d)
<1>1. PICK p \in Bytes(4), q \in Bytes(4), r \in Bytes(4), t \in Bytes(4) :
        p = Column(a) /\ q = Right(Column(b)) /\ r = Right(Right(Column(c))) /\ t = Right(Right(Right(Column(d))))
  BY ColumnIs, RightIs
<1>2. PICK u \in Bytes(4), v \in Bytes(4) : u = XorBytes[p][q] /\ v = XorBytes[r][t]
  BY WordXor
<1>3. Mix(a, b, c, d) = XorBytes[u][v]
  BY <1>1, <1>2 DEF Mix
<1>4. XorBytes[u][v] \in Bytes(4)
  BY WordXor
<1>5. Uncolumns(XorBytes[u][v]) = XorBytes[XorBytes[Uncolumns(p)][Uncolumns(q)]][XorBytes[Uncolumns(r)][Uncolumns(t)]]
  BY <1>2, UncolumnsAdd
<1>6. PICK z : z = 0
  OBVIOUS
<1>7. z \in Byte
  BY <1>6 DEF Byte
<1>8. PICK x \in Bytes(4), y \in Bytes(4), m \in Bytes(4), n \in Bytes(4) :
        x = Quad(a, z, z, z) /\ y = Quad(z, b, z, z) /\ m = Quad(z, z, c, z) /\ n = Quad(z, z, z, d)
  BY <1>7, QuadIs
<1>9. Uncolumns(p) = x /\ Uncolumns(q) = y /\ Uncolumns(r) = m /\ Uncolumns(t) = n
  BY <1>1, <1>6, <1>8, ColumnsUndone
<1>10. \A e \in Byte : XorByte(z, e) = e /\ XorByte(e, z) = e
  BY <1>6, <1>7, XorByteIs, ByteCancel
<1>11. PICK g \in Bytes(4), h \in Bytes(4), i \in Bytes(4) :
         g = Quad(a, b, z, z) /\ h = Quad(z, z, c, d) /\ i = Quad(a, b, c, d)
  BY <1>7, QuadIs
<1>12. /\ x[1] = a /\ x[2] = z /\ x[3] = z /\ x[4] = z /\ y[1] = z /\ y[2] = b /\ y[3] = z /\ y[4] = z
       /\ m[1] = z /\ m[2] = z /\ m[3] = c /\ m[4] = z /\ n[1] = z /\ n[2] = z /\ n[3] = z /\ n[4] = d
       /\ g[1] = a /\ g[2] = b /\ g[3] = z /\ g[4] = z /\ h[1] = z /\ h[2] = z /\ h[3] = c /\ h[4] = d
       /\ i[1] = a /\ i[2] = b /\ i[3] = c /\ i[4] = d
  BY <1>8, <1>11 DEF Quad
<1>13. XorBytes[x][y] = g
  BY <1>7, <1>10, <1>12, WordSum
<1>14. XorBytes[m][n] = h
  BY <1>7, <1>10, <1>12, WordSum
<1>15. XorBytes[g][h] = i
  BY <1>7, <1>10, <1>12, WordSum
<1> QED
  BY <1>3, <1>4, <1>5, <1>9, <1>11, <1>13, <1>14, <1>15

-----------------------------------------------------------------------------
(* The tables, entry by entry. *)

(* A table as a function. *)
LEMMA TableMade ==
  ASSUME NEW n \in Nat, NEW f, f = [i \in 1 .. n |-> f[i]]
  PROVE  f \o <<>> = f
<1>1. PICK T : T = {f[i] : i \in 1 .. n}
  OBVIOUS
<1>2. \A i \in 1 .. n : f[i] \in T
  BY <1>1
<1> QED
  BY <1>2, Tupled

LEMMA AllRightIs ==
  ASSUME NEW t, NEW b \in Byte
  PROVE  AllRight(t)[b + 1] = Right(t[b + 1])
<1> DEFINE f == [i \in 1 .. 256 |-> Right(t[i])]
<1>1. AllRight(t) = f \o <<>>
  BY DEF AllRight
<1>2. 256 \in Nat /\ f = [i \in 1 .. 256 |-> f[i]]
  OBVIOUS
<1>3. \A i \in 1 .. 256 : f[i] = Right(t[i])
  OBVIOUS
<1> HIDE DEF f
<1>4. f \o <<>> = f
  BY <1>2, TableMade, ZenonT(30)
<1>5. b + 1 \in 1 .. 256
  BY DEF Byte
<1> QED
  BY <1>1, <1>3, <1>4, <1>5

-----------------------------------------------------------------------------
(* The S-box is a permutation.                                             *)

(* Squares. *)
Square(a) == Times(a, a)

LEMMA SquareAdds ==
  ASSUME NEW a \in Byte, NEW b \in Byte
  PROVE  Square(XorByte(a, b)) = XorByte(Square(a), Square(b))
<1>1. PICK s \in Byte, p \in Byte, q \in Byte, m \in Byte : s = XorByte(a, b) /\ p = Times(a, a) /\ q = Times(b, b) /\ m = Times(a, b)
  BY XorByteIs, TimesIs
<1>2. Times(s, s) = XorByte(Times(a, s), Times(b, s))
  BY <1>1, TimesAdds
<1>3. Times(a, s) = XorByte(p, m)
  BY <1>1, TimesDistributes
<1>4. Times(b, s) = XorByte(q, m)
  <2>1. Times(b, s) = XorByte(Times(b, a), Times(b, b))
    BY <1>1, TimesDistributes
  <2>2. Times(b, a) = m
    BY <1>1, TimesCommutes
  <2>3. XorByte(m, q) = XorByte(q, m)
    BY ByteGroup
  <2> QED
    BY <1>1, <2>1, <2>2, <2>3
<1>5. XorByte(XorByte(p, m), XorByte(q, m)) = XorByte(XorByte(p, q), XorByte(m, m))
  BY ByteCross
<1>6. XorByte(m, m) = 0 /\ XorByte(p, q) \in Byte
  BY ByteGroup
<1>7. XorByte(XorByte(p, q), 0) = XorByte(p, q)
  BY <1>6, ByteCancel
<1> QED
  BY <1>1, <1>2, <1>3, <1>4, <1>5, <1>6, <1>7 DEF Square

(* Products taken crosswise. *)
LEMMA TimesCross ==
  ASSUME NEW a \in Byte, NEW b \in Byte, NEW c \in Byte, NEW d \in Byte
  PROVE  Times(Times(a, b), Times(c, d)) = Times(Times(a, c), Times(b, d))
<1>1. PICK x \in Byte, y \in Byte, z \in Byte, u \in Byte :
        x = Times(a, b) /\ y = Times(c, d) /\ z = Times(a, c) /\ u = Times(b, d)
  BY TimesIs
<1>2. PICK v \in Byte, w \in Byte : v = Times(b, c) /\ w = Times(c, b)
  BY TimesIs
<1>3. Times(x, y) = Times(a, Times(b, y))
  <2>1. Associates(a, b, y)
    BY TimesAssociates
  <2> QED
    BY <1>1, <2>1 DEF Associates
<1>4. Times(b, y) = Times(v, d)
  <2>1. Associates(b, c, d)
    BY TimesAssociates
  <2> QED
    BY <1>1, <1>2, <2>1 DEF Associates
<1>5. v = w
  BY <1>2, TimesCommutes
<1>6. Times(w, d) = Times(c, u)
  <2>1. Associates(c, b, d)
    BY TimesAssociates
  <2> QED
    BY <1>1, <1>2, <2>1 DEF Associates
<1>7. Times(z, u) = Times(a, Times(c, u))
  <2>1. Associates(a, c, u)
    BY TimesAssociates
  <2> QED
    BY <1>1, <2>1 DEF Associates
<1> QED
  BY <1>1, <1>3, <1>4, <1>5, <1>6, <1>7

LEMMA SquareTimesSquare ==
  ASSUME NEW a \in Byte, NEW b \in Byte
  PROVE  Square(Times(a, b)) = Times(Square(a), Square(b))
  BY TimesCross DEF Square

(* Functions that respect sums and products. *)
Respects(f) ==
  \A x, y \in Byte : /\ f[x] \in Byte
                     /\ f[XorByte(x, y)] = XorByte(f[x], f[y])
                     /\ f[Times(x, y)] = Times(f[x], f[y])

LEMMA RespectsTwice ==
  ASSUME NEW f, Respects(f)
  PROVE  \E g : Respects(g) /\ \A x \in Byte : g[x] = f[f[x]]
<1>1. PICK g : g = [x \in Byte |-> f[f[x]]]
  OBVIOUS
<1>2. \A x \in Byte : g[x] = f[f[x]]
  BY <1>1
<1>3. ASSUME NEW x \in Byte, NEW y \in Byte
      PROVE  /\ g[x] \in Byte
             /\ g[XorByte(x, y)] = XorByte(g[x], g[y])
             /\ g[Times(x, y)] = Times(g[x], g[y])
  <2>1. PICK p \in Byte, q \in Byte, s \in Byte, t \in Byte : p = f[x] /\ q = f[y] /\ s = XorByte(x, y) /\ t = Times(x, y)
    BY XorByteIs, TimesIs DEF Respects
  <2>2. f[s] = XorByte(p, q) /\ f[t] = Times(p, q)
    BY <2>1 DEF Respects
  <2>3. f[XorByte(p, q)] = XorByte(f[p], f[q]) /\ f[Times(p, q)] = Times(f[p], f[q]) /\ f[p] \in Byte
    BY DEF Respects
  <2> QED
    BY <1>2, <2>1, <2>2, <2>3
<1> QED
  BY <1>2, <1>3 DEF Respects

(* The squares of the bytes that two leads to. *)
LEMMA SquaresOfTwo ==
  /\ Square(2) = 4 /\ Square(4) = 16 /\ Square(16) = 27 /\ Square(27) = 94
  /\ Square(94) = 228 /\ Square(228) = 77 /\ Square(77) = 250 /\ Square(250) = 2
<1>1. \A x, y \in Byte : XorByte(x, y) = SumOfBits(x, y)
  BY XorComputes
<1>2. \A x \in 0 .. 255 : x \in Byte
  BY DEF Byte
<1>3. \A x \in Byte : Square(Twice(x)) = Twice(Twice(Square(x)))
  <2> SUFFICES ASSUME NEW x \in Byte
               PROVE  Square(Twice(x)) = Twice(Twice(Square(x)))
    OBVIOUS
  <2>1. PICK p \in Byte, q \in Byte : p = Twice(x) /\ q = Times(x, x)
    BY TwiceIs, TimesIs
  <2>2. Times(p, p) = Twice(Times(x, p)) /\ Times(x, p) = Times(p, x) /\ Times(p, x) = Twice(q)
    BY <2>1, TimesDoubles, TimesCommutes
  <2> QED
    BY <2>1, <2>2 DEF Square
<1>4. Square(1) = 1
  BY <1>2, TimesOne DEF Square
<1>5. /\ Twice(1) = 2 /\ Twice(2) = 4 /\ Twice(4) = 8 /\ Twice(8) = 16 /\ Twice(16) = 32 /\ Twice(32) = 64 /\ Twice(64) = 128
      /\ Twice(27) = 54 /\ Twice(54) = 108 /\ Twice(108) = 216
  BY DEF Twice
<1>6. Twice(128) = 27 /\ Twice(216) = 171 /\ Twice(171) = 77 /\ Twice(77) = 154
  <2>1. SumOfBits(0, 27) = 27 /\ SumOfBits(176, 27) = 171 /\ SumOfBits(86, 27) = 77
    BY DEF SumOfBits, BitPlace
  <2>2. XorByte(0, 27) = 27 /\ XorByte(176, 27) = 171 /\ XorByte(86, 27) = 77
    BY <1>1, <1>2, <2>1
  <2>3. Twice(128) = XorByte(0, 27) /\ Twice(216) = XorByte(176, 27) /\ Twice(171) = XorByte(86, 27) /\ Twice(77) = 154
    BY DEF Twice
  <2> QED
    BY <2>2, <2>3
<1>7. Square(2) = 4 /\ Square(4) = 16 /\ Square(8) = 64 /\ Square(16) = 27
  <2>1. /\ Square(Twice(1)) = Twice(Twice(Square(1))) /\ Square(Twice(2)) = Twice(Twice(Square(2)))
        /\ Square(Twice(4)) = Twice(Twice(Square(4))) /\ Square(Twice(8)) = Twice(Twice(Square(8)))
    BY <1>2, <1>3
  <2> QED
    BY ONLY <1>4, <1>5, <1>6, <2>1
<1>8. Square(32) = 108 /\ Square(64) = 171 /\ Square(128) = 154
  <2>1. /\ Square(Twice(16)) = Twice(Twice(Square(16))) /\ Square(Twice(32)) = Twice(Twice(Square(32)))
        /\ Square(Twice(64)) = Twice(Twice(Square(64)))
    BY <1>2, <1>3
  <2> QED
    BY ONLY <1>5, <1>6, <1>7, <2>1
<1>9. \A x, y \in Byte : Square(SumOfBits(x, y)) = SumOfBits(Square(x), Square(y))
  <2> SUFFICES ASSUME NEW x \in Byte, NEW y \in Byte
               PROVE  Square(SumOfBits(x, y)) = SumOfBits(Square(x), Square(y))
    OBVIOUS
  <2>1. Square(x) \in Byte /\ Square(y) \in Byte
    BY TimesIs DEF Square
  <2> QED
    BY <1>1, <2>1, SquareAdds
<1>10. Square(27) = 94
  <2>1. /\ SumOfBits(16, 8) = 24
        /\ SumOfBits(24, 2) = 26
        /\ SumOfBits(26, 1) = 27
    BY DEF SumOfBits, BitPlace
  <2>2. /\ SumOfBits(27, 64) = 91
        /\ SumOfBits(91, 4) = 95
        /\ SumOfBits(95, 1) = 94
    BY DEF SumOfBits, BitPlace
  <2>3. /\ Square(SumOfBits(16, 8)) = SumOfBits(Square(16), Square(8))
        /\ Square(SumOfBits(24, 2)) = SumOfBits(Square(24), Square(2))
        /\ Square(SumOfBits(26, 1)) = SumOfBits(Square(26), Square(1))
    BY <1>2, <1>9
  <2> QED
    BY ONLY <1>4, <1>7, <1>8, <2>1, <2>2, <2>3
<1>11. Square(94) = 228
  <2>1. /\ SumOfBits(64, 16) = 80
        /\ SumOfBits(80, 8) = 88
        /\ SumOfBits(88, 4) = 92
        /\ SumOfBits(92, 2) = 94
    BY DEF SumOfBits, BitPlace
  <2>2. /\ SumOfBits(171, 27) = 176
        /\ SumOfBits(176, 64) = 240
        /\ SumOfBits(240, 16) = 224
        /\ SumOfBits(224, 4) = 228
    BY DEF SumOfBits, BitPlace
  <2>3. /\ Square(SumOfBits(64, 16)) = SumOfBits(Square(64), Square(16))
        /\ Square(SumOfBits(80, 8)) = SumOfBits(Square(80), Square(8))
        /\ Square(SumOfBits(88, 4)) = SumOfBits(Square(88), Square(4))
        /\ Square(SumOfBits(92, 2)) = SumOfBits(Square(92), Square(2))
    BY <1>2, <1>9
  <2> QED
    BY ONLY <1>4, <1>7, <1>8, <2>1, <2>2, <2>3
<1>12. Square(228) = 77
  <2>1. /\ SumOfBits(128, 64) = 192
        /\ SumOfBits(192, 32) = 224
        /\ SumOfBits(224, 4) = 228
    BY DEF SumOfBits, BitPlace
  <2>2. /\ SumOfBits(154, 171) = 49
        /\ SumOfBits(49, 108) = 93
        /\ SumOfBits(93, 16) = 77
    BY DEF SumOfBits, BitPlace
  <2>3. /\ Square(SumOfBits(128, 64)) = SumOfBits(Square(128), Square(64))
        /\ Square(SumOfBits(192, 32)) = SumOfBits(Square(192), Square(32))
        /\ Square(SumOfBits(224, 4)) = SumOfBits(Square(224), Square(4))
    BY <1>2, <1>9
  <2> QED
    BY ONLY <1>4, <1>7, <1>8, <2>1, <2>2, <2>3
<1>13. Square(77) = 250
  <2>1. /\ SumOfBits(64, 8) = 72
        /\ SumOfBits(72, 4) = 76
        /\ SumOfBits(76, 1) = 77
    BY DEF SumOfBits, BitPlace
  <2>2. /\ SumOfBits(171, 64) = 235
        /\ SumOfBits(235, 16) = 251
        /\ SumOfBits(251, 1) = 250
    BY DEF SumOfBits, BitPlace
  <2>3. /\ Square(SumOfBits(64, 8)) = SumOfBits(Square(64), Square(8))
        /\ Square(SumOfBits(72, 4)) = SumOfBits(Square(72), Square(4))
        /\ Square(SumOfBits(76, 1)) = SumOfBits(Square(76), Square(1))
    BY <1>2, <1>9
  <2> QED
    BY ONLY <1>4, <1>7, <1>8, <2>1, <2>2, <2>3
<1>14. Square(250) = 2
  <2>1. /\ SumOfBits(128, 64) = 192
        /\ SumOfBits(192, 32) = 224
        /\ SumOfBits(224, 16) = 240
        /\ SumOfBits(240, 8) = 248
        /\ SumOfBits(248, 2) = 250
    BY DEF SumOfBits, BitPlace
  <2>2. /\ SumOfBits(154, 171) = 49
        /\ SumOfBits(49, 108) = 93
        /\ SumOfBits(93, 27) = 70
        /\ SumOfBits(70, 64) = 6
        /\ SumOfBits(6, 4) = 2
    BY DEF SumOfBits, BitPlace
  <2>3. /\ Square(SumOfBits(128, 64)) = SumOfBits(Square(128), Square(64))
        /\ Square(SumOfBits(192, 32)) = SumOfBits(Square(192), Square(32))
        /\ Square(SumOfBits(224, 16)) = SumOfBits(Square(224), Square(16))
        /\ Square(SumOfBits(240, 8)) = SumOfBits(Square(240), Square(8))
        /\ Square(SumOfBits(248, 2)) = SumOfBits(Square(248), Square(2))
    BY <1>2, <1>9
  <2> QED
    BY ONLY <1>4, <1>7, <1>8, <2>1, <2>2, <2>3
<1> QED
  BY <1>7, <1>10, <1>11, <1>12, <1>13, <1>14

(* Raising to the power 256 changes nothing. *)
Power256(a) == Square(Square(Square(Square(Square(Square(Square(Square(a))))))))

LEMMA PowerIs ==
  ASSUME NEW a \in Byte
  PROVE  Power256(a) = a
<1>1. PICK f : f = [x \in Byte |-> Square(x)]
  OBVIOUS
<1>2. \A x \in Byte : f[x] = Square(x) /\ Square(x) \in Byte
  BY <1>1, TimesIs DEF Square
<1>3. Respects(f)
  <2> SUFFICES ASSUME NEW x \in Byte, NEW y \in Byte
               PROVE  /\ f[x] \in Byte
                      /\ f[XorByte(x, y)] = XorByte(f[x], f[y])
                      /\ f[Times(x, y)] = Times(f[x], f[y])
    BY DEF Respects
  <2>1. XorByte(x, y) \in Byte /\ Times(x, y) \in Byte
    BY XorByteIs, TimesIs
  <2> QED
    BY <1>2, <2>1, SquareAdds, SquareTimesSquare
<1>4. PICK g : Respects(g) /\ \A x \in Byte : g[x] = f[f[x]]
  BY <1>3, RespectsTwice
<1>5. PICK h : Respects(h) /\ \A x \in Byte : h[x] = g[g[x]]
  BY <1>4, RespectsTwice
<1>6. PICK p : Respects(p) /\ \A x \in Byte : p[x] = h[h[x]]
  BY <1>5, RespectsTwice
<1>7. \A x \in Byte : g[x] \in Byte /\ g[x] = Square(Square(x))
  BY <1>2, <1>4 DEF Respects
<1>8. \A x \in Byte : h[x] \in Byte /\ h[x] = Square(Square(Square(Square(x))))
  <2> SUFFICES ASSUME NEW x \in Byte
               PROVE  h[x] \in Byte /\ h[x] = Square(Square(Square(Square(x))))
    OBVIOUS
  <2>1. PICK y \in Byte : y = g[x] /\ y = Square(Square(x))
    BY <1>7
  <2> QED
    BY <1>5, <1>7, <2>1 DEF Respects
<1>9. \A x \in Byte : p[x] = Power256(x)
  <2> SUFFICES ASSUME NEW x \in Byte
               PROVE  p[x] = Power256(x)
    OBVIOUS
  <2>1. PICK y \in Byte : y = h[x] /\ y = Square(Square(Square(Square(x))))
    BY <1>8
  <2>2. p[x] = Square(Square(Square(Square(y))))
    BY <1>6, <1>8, <2>1
  <2> QED
    BY <2>1, <2>2 DEF Power256
<1>10. 1 \in Byte /\ 2 \in Byte
  BY DEF Byte
<1>11. p[2] = 2
  BY <1>9, <1>10, SquaresOfTwo DEF Power256
<1>12. p[1] = 1
  <2>1. Square(1) = 1
    BY <1>10, TimesOne DEF Square
  <2> QED
    BY <1>9, <1>10, <2>1 DEF Power256
<1>13. IsLinear(p)
  <2> SUFFICES ASSUME NEW x \in Byte
               PROVE  p[x] \in Byte /\ p[Twice(x)] = Twice(p[x]) /\ \A y \in Byte : p[XorByte(x, y)] = XorByte(p[x], p[y])
    BY DEF IsLinear
  <2>1. p[x] \in Byte /\ \A y \in Byte : p[XorByte(x, y)] = XorByte(p[x], p[y])
    BY <1>6 DEF Respects
  <2>2. PICK t : t = 2
    OBVIOUS
  <2>3. t \in Byte /\ p[t] = t
    BY <1>10, <1>11, <2>2
  <2>4. p[Times(t, x)] = Times(p[t], p[x])
    BY <1>6, <2>3 DEF Respects
  <2>5. Twice(x) = Times(t, x) /\ Twice(p[x]) = Times(t, p[x])
    BY <2>1, <2>2, TwiceTimes
  <2> QED
    BY <2>1, <2>3, <2>4, <2>5
<1>14. p[a] = Times(1, a)
  BY <1>12, <1>13, LinearIs
<1> QED
  BY <1>9, <1>14, TimesOne

(* The bytes under xor and Times, in which the AES tables are computed,    *)
(* are a commutative ring with 1, and raising to the power 256 changes     *)
(* nothing: what its reciprocals rest on.                                  *)
THEOREM BytesAreARing ==
  ASSUME NEW a \in Byte, NEW b \in Byte, NEW c \in Byte
  PROVE  /\ Times(a, b) \in Byte
         /\ Times(a, b) = Times(b, a)
         /\ Times(Times(a, b), c) = Times(a, Times(b, c))
         /\ Times(a, XorByte(b, c)) = XorByte(Times(a, b), Times(a, c))
         /\ Times(1, a) = a
         /\ Power256(a) = a
<1>1. Associates(a, b, c)
  BY TimesAssociates
<1>2. Times(a, b) \in Byte
  BY TimesIs
<1>3. Times(a, b) = Times(b, a)
  BY TimesCommutes
<1>4. Times(a, XorByte(b, c)) = XorByte(Times(a, b), Times(a, c))
  BY TimesDistributes
<1>5. Times(1, a) = a
  BY TimesOne
<1>6. Power256(a) = a
  BY PowerIs
<1> QED
  BY <1>1, <1>2, <1>3, <1>4, <1>5, <1>6 DEF Associates

(* The inverse, and what its product with the byte keeps. *)
LEMMA ReciprocalHas ==
  ASSUME NEW a \in Byte, NEW e, e = Reciprocal(a)
  PROVE  e \in Byte /\ Times(Times(e, a), a) = a /\ Times(Times(e, a), e) = e
<1> DEFINE step == [s \in Nat |-> [i \in Nat |-> SquareTimes(s, a)]]
<1>1. PICK g : g = step
  OBVIOUS
<1>2. PICK f : f = <<1, 2, 3, 4, 5, 6>>
  OBVIOUS
<1>3. f \in Seq(Nat)
  BY <1>2
<1>4. Len(f) = 6 /\ f[1] \in Nat /\ f[2] \in Nat /\ f[3] \in Nat /\ f[4] \in Nat /\ f[5] \in Nat /\ f[6] \in Nat
  BY <1>2
<1>5. PICK w : Follows(w, g, a, f, Len(f)) /\ Along(g, a, f) = w[Len(f)]
  BY <1>3, AlongHas
<1>6. w[0] = a /\ (\A k \in 1 .. 6 : w[k] = g[w[k - 1]][f[k]]) /\ Along(g, a, f) = w[6]
  BY <1>4, <1>5 DEF Follows
<1>7. ASSUME NEW s \in Byte, NEW i \in Nat
      PROVE  g[s][i] = Times(Times(s, s), a)
  <2>1. s \in Nat
    BY DEF Byte
  <2> QED
    BY <1>1, <2>1 DEF SquareTimes
<1>8. e = Times(w[6], w[6])
  BY <1>1, <1>2, <1>6 DEF Reciprocal
<1> HIDE DEF step
<1>9. w[1] = g[w[0]][f[1]] /\ w[2] = g[w[1]][f[2]] /\ w[3] = g[w[2]][f[3]]
  BY <1>6
<1>10. w[4] = g[w[3]][f[4]] /\ w[5] = g[w[4]][f[5]] /\ w[6] = g[w[5]][f[6]]
  BY <1>6
<1>11. PICK r1 \in Byte : r1 = w[1] /\ r1 = Times(Square(a), a)
  BY <1>4, <1>6, <1>7, <1>9, TimesIs DEF Square
<1>12. PICK r2 \in Byte : r2 = w[2] /\ r2 = Times(Square(r1), a)
  BY <1>4, <1>7, <1>9, <1>11, TimesIs DEF Square
<1>13. PICK r3 \in Byte : r3 = w[3] /\ r3 = Times(Square(r2), a)
  BY <1>4, <1>7, <1>9, <1>12, TimesIs DEF Square
<1>14. PICK r4 \in Byte : r4 = w[4] /\ r4 = Times(Square(r3), a)
  BY <1>4, <1>7, <1>10, <1>13, TimesIs DEF Square
<1>15. PICK r5 \in Byte : r5 = w[5] /\ r5 = Times(Square(r4), a)
  BY <1>4, <1>7, <1>10, <1>14, TimesIs DEF Square
<1>16. PICK r6 \in Byte : r6 = w[6] /\ r6 = Times(Square(r5), a)
  BY <1>4, <1>7, <1>10, <1>15, TimesIs DEF Square
<1>17. \A x \in Byte : Square(x) \in Byte
  BY TimesIs DEF Square
<1>18. \A x, y \in Byte : y = Times(Square(x), a) => Times(y, a) = Square(Times(x, a))
  <2> SUFFICES ASSUME NEW x \in Byte, NEW y \in Byte, y = Times(Square(x), a)
               PROVE  Times(y, a) = Square(Times(x, a))
    OBVIOUS
  <2>1. PICK s \in Byte : s = Square(x)
    BY <1>17
  <2>2. Associates(s, a, a)
    BY TimesAssociates
  <2>3. Times(y, a) = Times(s, Square(a))
    BY <2>1, <2>2 DEF Associates, Square
  <2> QED
    BY <2>1, <2>3, SquareTimesSquare
<1>19. Times(r6, a) = Square(Square(Square(Square(Square(Square(Square(a)))))))
  <2>1. Times(r1, a) = Square(Square(a))
    BY <1>11, <1>18 DEF Square
  <2>2. Times(r2, a) = Square(Times(r1, a)) /\ Times(r3, a) = Square(Times(r2, a))
    BY <1>12, <1>13, <1>18
  <2>3. Times(r4, a) = Square(Times(r3, a)) /\ Times(r5, a) = Square(Times(r4, a)) /\ Times(r6, a) = Square(Times(r5, a))
    BY <1>14, <1>15, <1>16, <1>18
  <2> QED
    BY ONLY <2>1, <2>2, <2>3
<1>20. Times(e, Square(a)) = a /\ e \in Byte
  <2>1. Square(Times(r6, a)) = Power256(a)
    BY <1>19 DEF Power256
  <2>2. Square(Times(r6, a)) = Times(Square(r6), Square(a))
    BY SquareTimesSquare
  <2>3. e = Square(r6)
    BY <1>8, <1>16 DEF Square
  <2> QED
    BY <1>17, <2>1, <2>2, <2>3, PowerIs
<1>21. PICK i \in Byte : i = Times(e, a)
  BY <1>20, TimesIs
<1>22. Times(i, a) = a
  <2>1. Associates(e, a, a)
    BY <1>20, TimesAssociates
  <2> QED
    BY <1>20, <1>21, <2>1 DEF Associates, Square
<1>23. Times(i, r6) = r6
  <2>1. PICK s \in Byte : s = Square(r5)
    BY <1>17
  <2>2. Times(s, a) = Times(a, s) /\ Associates(i, a, s)
    BY TimesCommutes, TimesAssociates
  <2>3. r6 = Times(a, s)
    BY <1>16, <2>1, <2>2
  <2> QED
    BY <1>22, <2>2, <2>3 DEF Associates
<1>24. Times(i, e) = e
  <2>1. Associates(i, r6, r6)
    BY TimesAssociates
  <2> QED
    BY <1>8, <1>16, <1>23, <2>1 DEF Associates
<1> QED
  BY <1>20, <1>21, <1>22, <1>24

LEMMA ReciprocalTells ==
  ASSUME NEW a \in Byte, NEW b \in Byte, Reciprocal(a) = Reciprocal(b)
  PROVE  a = b
<1>1. PICK e : e = Reciprocal(a)
  OBVIOUS
<1>2. e \in Byte /\ Times(Times(e, a), a) = a /\ Times(Times(e, a), e) = e
  BY <1>1, ReciprocalHas
<1>3. Times(Times(e, b), b) = b /\ Times(Times(e, b), e) = e
  BY <1>1, ReciprocalHas
<1>4. PICK i \in Byte, j \in Byte : i = Times(e, a) /\ j = Times(e, b)
  BY <1>2, TimesIs
<1>5. Times(i, j) = j
  <2>1. Associates(i, e, b)
    BY <1>2, TimesAssociates
  <2> QED
    BY <1>2, <1>4, <2>1 DEF Associates
<1>6. Times(j, i) = i
  <2>1. Associates(j, e, a)
    BY <1>2, TimesAssociates
  <2> QED
    BY <1>3, <1>4, <2>1 DEF Associates
<1>7. i = j
  <2>1. Times(i, j) = Times(j, i)
    BY TimesCommutes
  <2> QED
    BY <1>5, <1>6, <2>1
<1>8. Times(j, a) = Times(i, b)
  <2>1. Associates(e, b, a) /\ Associates(e, a, b) /\ Times(a, b) = Times(b, a)
    BY <1>2, TimesAssociates, TimesCommutes
  <2> QED
    BY <1>4, <2>1 DEF Associates
<1> QED
  BY <1>2, <1>3, <1>4, <1>7, <1>8

(* Eight bits in a row. *)
Octet(a, b, c, d, e, f, g, h) == <<a, b, c, d, e, f, g, h>>

LEMMA OctetIs ==
  ASSUME NEW a \in 0 .. 1, NEW b \in 0 .. 1, NEW c \in 0 .. 1, NEW d \in 0 .. 1,
         NEW e \in 0 .. 1, NEW f \in 0 .. 1, NEW g \in 0 .. 1, NEW h \in 0 .. 1
  PROVE  Worth(Octet(a, b, c, d, e, f, g, h)) = a + 2 * b + 4 * c + 8 * d + 16 * e + 32 * f + 64 * g + 128 * h
<1>1. PICK u : u = Octet(a, b, c, d, e, f, g, h)
  OBVIOUS
<1>2. u[1] = a /\ u[2] = b /\ u[3] = c /\ u[4] = d /\ u[5] = e /\ u[6] = f /\ u[7] = g /\ u[8] = h
  BY <1>1 DEF Octet
<1>3. Worth(u) = 16 * (e + 2 * f + 4 * g + 8 * h) + (a + 2 * b + 4 * c + 8 * d)
  BY <1>2 DEF Worth, Upper, Lower
<1> QED
  BY <1>1, <1>3

(* A byte rolled moves its bits in a ring. *)
LEMMA OctetRolled ==
  ASSUME NEW t, IsOctet(t)
  PROVE  /\ Rolled(Worth(t), 1) = Worth(<<t[8], t[1], t[2], t[3], t[4], t[5], t[6], t[7]>>)
         /\ Rolled(Worth(t), 2) = Worth(<<t[7], t[8], t[1], t[2], t[3], t[4], t[5], t[6]>>)
         /\ Rolled(Worth(t), 3) = Worth(<<t[6], t[7], t[8], t[1], t[2], t[3], t[4], t[5]>>)
         /\ Rolled(Worth(t), 4) = Worth(<<t[5], t[6], t[7], t[8], t[1], t[2], t[3], t[4]>>)
<1>1. PICK a \in 0 .. 1, b \in 0 .. 1, c \in 0 .. 1, d \in 0 .. 1, e \in 0 .. 1, f \in 0 .. 1, g \in 0 .. 1, h \in 0 .. 1 :
        /\ a = t[1] /\ b = t[2] /\ c = t[3] /\ d = t[4] /\ e = t[5] /\ f = t[6] /\ g = t[7] /\ h = t[8]
  BY DEF IsOctet
<1>2. PICK x : x = Worth(t)
  OBVIOUS
<1>3. x = a + 2 * b + 4 * c + 8 * d + 16 * e + 32 * f + 64 * g + 128 * h
  <2>1. x = 16 * (e + 2 * f + 4 * g + 8 * h) + (a + 2 * b + 4 * c + 8 * d)
    BY <1>1, <1>2 DEF Worth, Upper, Lower
  <2> QED
    BY <2>1
<1>4. /\ a \in 0 .. 1 /\ b \in 0 .. 1 /\ c \in 0 .. 1 /\ d \in 0 .. 1
      /\ e \in 0 .. 1 /\ f \in 0 .. 1 /\ g \in 0 .. 1 /\ h \in 0 .. 1
  BY <1>1
<1>5. 2 ^ 1 = 2 /\ 2 ^ 2 = 4 /\ 2 ^ 3 = 8 /\ 2 ^ 4 = 16 /\ 2 ^ 5 = 32 /\ 2 ^ 6 = 64 /\ 2 ^ 7 = 128
  OBVIOUS
<1>6. 8 - 1 = 7 /\ 8 - 2 = 6 /\ 8 - 3 = 5 /\ 8 - 4 = 4
  OBVIOUS
<1>7. Rolled(x, 1) = ((x * 2) % 256) + x \div 128 /\ Rolled(x, 2) = ((x * 4) % 256) + x \div 64
  BY <1>5, <1>6 DEF Rolled
<1>8. Rolled(x, 3) = ((x * 8) % 256) + x \div 32 /\ Rolled(x, 4) = ((x * 16) % 256) + x \div 16
  BY <1>5, <1>6 DEF Rolled
<1>9. /\ (x * 2) % 256 = 2 * a + 4 * b + 8 * c + 16 * d + 32 * e + 64 * f + 128 * g
      /\ x \div 128 = h
  BY <1>3
<1>10. /\ (x * 4) % 256 = 4 * a + 8 * b + 16 * c + 32 * d + 64 * e + 128 * f
       /\ x \div 64 = g + 2 * h
  BY <1>3
<1>11. /\ (x * 8) % 256 = 8 * a + 16 * b + 32 * c + 64 * d + 128 * e
       /\ x \div 32 = f + 2 * g + 4 * h
  BY <1>3
<1>12. /\ (x * 16) % 256 = 16 * a + 32 * b + 64 * c + 128 * d
       /\ x \div 16 = e + 2 * f + 4 * g + 8 * h
  BY <1>3
<1>13. Rolled(x, 1) = Worth(Octet(h, a, b, c, d, e, f, g))
  <2>1. Worth(Octet(h, a, b, c, d, e, f, g)) = h + 2 * a + 4 * b + 8 * c + 16 * d + 32 * e + 64 * f + 128 * g
    BY <1>4, OctetIs
  <2>2. Rolled(x, 1) = h + 2 * a + 4 * b + 8 * c + 16 * d + 32 * e + 64 * f + 128 * g
    BY <1>7, <1>9
  <2> QED
    BY ONLY <2>1, <2>2
<1>14. Rolled(x, 2) = Worth(Octet(g, h, a, b, c, d, e, f))
  <2>1. Worth(Octet(g, h, a, b, c, d, e, f)) = g + 2 * h + 4 * a + 8 * b + 16 * c + 32 * d + 64 * e + 128 * f
    BY <1>4, OctetIs
  <2>2. Rolled(x, 2) = g + 2 * h + 4 * a + 8 * b + 16 * c + 32 * d + 64 * e + 128 * f
    BY <1>7, <1>10
  <2> QED
    BY ONLY <2>1, <2>2
<1>15. Rolled(x, 3) = Worth(Octet(f, g, h, a, b, c, d, e))
  <2>1. Worth(Octet(f, g, h, a, b, c, d, e)) = f + 2 * g + 4 * h + 8 * a + 16 * b + 32 * c + 64 * d + 128 * e
    BY <1>4, OctetIs
  <2>2. Rolled(x, 3) = f + 2 * g + 4 * h + 8 * a + 16 * b + 32 * c + 64 * d + 128 * e
    BY <1>8, <1>11
  <2> QED
    BY ONLY <2>1, <2>2
<1>16. Rolled(x, 4) = Worth(Octet(e, f, g, h, a, b, c, d))
  <2>1. Worth(Octet(e, f, g, h, a, b, c, d)) = e + 2 * f + 4 * g + 8 * h + 16 * a + 32 * b + 64 * c + 128 * d
    BY <1>4, OctetIs
  <2>2. Rolled(x, 4) = e + 2 * f + 4 * g + 8 * h + 16 * a + 32 * b + 64 * c + 128 * d
    BY <1>8, <1>12
  <2> QED
    BY ONLY <2>1, <2>2
<1> QED
  BY <1>1, <1>2, <1>13, <1>14, <1>15, <1>16 DEF Octet

(* What the affine step adds up. *)
LEMMA AffineAdds ==
  ASSUME NEW b \in Byte
  PROVE  Affine[b] = XorByte(XorByte(XorByte(XorByte(XorByte(99, b), Rolled(b, 1)), Rolled(b, 2)), Rolled(b, 3)), Rolled(b, 4))
<1> DEFINE step == [s \in Nat |-> [by \in Nat |-> XorByte(s, Rolled(b, by))]]
<1>1. PICK g : g = step
  OBVIOUS
<1>2. PICK f : f = <<1, 2, 3, 4>>
  OBVIOUS
<1>3. f \in Seq(Nat)
  BY <1>2
<1>4. Len(f) = 4 /\ f[1] = 1 /\ f[2] = 2 /\ f[3] = 3 /\ f[4] = 4
  BY <1>2
<1>5. PICK first : first = XorByte(99, b)
  OBVIOUS
<1>6. Affine[b] = Along(g, first, f)
  <2>1. b \in Nat
    BY DEF Byte
  <2> QED
    BY <1>1, <1>2, <1>5, <2>1 DEF Affine
<1>7. PICK w : Follows(w, g, first, f, Len(f)) /\ Along(g, first, f) = w[Len(f)]
  BY <1>3, AlongHas
<1>8. w[0] = first /\ (\A k \in 1 .. 4 : w[k] = g[w[k - 1]][f[k]]) /\ Along(g, first, f) = w[4]
  BY <1>4, <1>7 DEF Follows
<1>9. ASSUME NEW s \in Byte, NEW i \in Nat
      PROVE  g[s][i] = XorByte(s, Rolled(b, i))
  <2>1. s \in Nat
    BY DEF Byte
  <2> QED
    BY <1>1, <2>1
<1> HIDE DEF step
<1>10. w[1] = g[w[0]][1] /\ w[2] = g[w[1]][2] /\ w[3] = g[w[2]][3] /\ w[4] = g[w[3]][4]
  BY <1>4, <1>8
<1>11. Rolled(b, 1) \in Byte /\ Rolled(b, 2) \in Byte /\ Rolled(b, 3) \in Byte /\ Rolled(b, 4) \in Byte
  BY RolledIs
<1>12. first \in Byte
  <2>1. 99 \in Byte
    BY DEF Byte
  <2> QED
    BY <1>5, <2>1, XorByteIs
<1>13. PICK w1 \in Byte : w1 = w[1] /\ w1 = XorByte(first, Rolled(b, 1))
  BY <1>8, <1>9, <1>10, <1>11, <1>12, XorByteIs
<1>14. PICK w2 \in Byte : w2 = w[2] /\ w2 = XorByte(w1, Rolled(b, 2))
  BY <1>9, <1>10, <1>11, <1>13, XorByteIs
<1>15. PICK w3 \in Byte : w3 = w[3] /\ w3 = XorByte(w2, Rolled(b, 3))
  BY <1>9, <1>10, <1>11, <1>14, XorByteIs
<1>16. w[4] = XorByte(w3, Rolled(b, 4))
  BY <1>9, <1>10, <1>15
<1> QED
  BY <1>5, <1>6, <1>8, <1>13, <1>14, <1>15, <1>16

(* The sum of five bits, and whether a bit of the constant is added. *)
Parity(i, j, k, l, m) == (i + j + k + l + m) % 2
FiveOf(t) == <<Parity(t[1], t[8], t[7], t[6], t[5]), Parity(t[2], t[1], t[8], t[7], t[6]),
               Parity(t[3], t[2], t[1], t[8], t[7]), Parity(t[4], t[3], t[2], t[1], t[8]),
               Parity(t[5], t[4], t[3], t[2], t[1]), Parity(t[6], t[5], t[4], t[3], t[2]),
               Parity(t[7], t[6], t[5], t[4], t[3]), Parity(t[8], t[7], t[6], t[5], t[4])>>

(* The affine step adds its constant to sums of five bits ... *)
LEMMA AffineFives ==
  ASSUME NEW t, IsOctet(t), NEW v, v = FiveOf(t)
  PROVE  IsOctet(v) /\ Affine[Worth(t)] = XorByte(99, Worth(v))
<1> DEFINE Odd(x, y) == (x + y) % 2
<1>1. PICK t1, t2, t3, t4 :
        /\ t1 = <<t[8], t[1], t[2], t[3], t[4], t[5], t[6], t[7]>> /\ t2 = <<t[7], t[8], t[1], t[2], t[3], t[4], t[5], t[6]>>
        /\ t3 = <<t[6], t[7], t[8], t[1], t[2], t[3], t[4], t[5]>> /\ t4 = <<t[5], t[6], t[7], t[8], t[1], t[2], t[3], t[4]>>
  OBVIOUS
<1>2. /\ t1[1] = t[8] /\ t1[2] = t[1] /\ t1[3] = t[2] /\ t1[4] = t[3] /\ t1[5] = t[4] /\ t1[6] = t[5] /\ t1[7] = t[6] /\ t1[8] = t[7]
      /\ t2[1] = t[7] /\ t2[2] = t[8] /\ t2[3] = t[1] /\ t2[4] = t[2] /\ t2[5] = t[3] /\ t2[6] = t[4] /\ t2[7] = t[5] /\ t2[8] = t[6]
      /\ t3[1] = t[6] /\ t3[2] = t[7] /\ t3[3] = t[8] /\ t3[4] = t[1] /\ t3[5] = t[2] /\ t3[6] = t[3] /\ t3[7] = t[4] /\ t3[8] = t[5]
      /\ t4[1] = t[5] /\ t4[2] = t[6] /\ t4[3] = t[7] /\ t4[4] = t[8] /\ t4[5] = t[1] /\ t4[6] = t[2] /\ t4[7] = t[3] /\ t4[8] = t[4]
  BY <1>1
<1>3. IsOctet(t1) /\ IsOctet(t2) /\ IsOctet(t3) /\ IsOctet(t4)
  BY <1>2 DEF IsOctet
<1>4. PICK b \in Byte, b1 \in Byte, b2 \in Byte, b3 \in Byte, b4 \in Byte :
        b = Worth(t) /\ b1 = Worth(t1) /\ b2 = Worth(t2) /\ b3 = Worth(t3) /\ b4 = Worth(t4)
  BY <1>3, WorthIs
<1>5. Affine[b] = XorByte(XorByte(XorByte(XorByte(XorByte(99, b), b1), b2), b3), b4)
  BY <1>1, <1>4, OctetRolled, AffineAdds
<1>6. PICK s1 : s1 = SumOf(t, t1) /\ IsOctet(s1) /\ XorByte(b, b1) = Worth(s1)
  BY <1>3, <1>4, OctetXor
<1>7. PICK s2 : s2 = SumOf(s1, t2) /\ IsOctet(s2) /\ XorByte(Worth(s1), b2) = Worth(s2)
  BY <1>3, <1>4, <1>6, OctetXor
<1>8. PICK s3 : s3 = SumOf(s2, t3) /\ IsOctet(s3) /\ XorByte(Worth(s2), b3) = Worth(s3)
  BY <1>3, <1>4, <1>7, OctetXor
<1>9. PICK s4 : s4 = SumOf(s3, t4) /\ IsOctet(s4) /\ XorByte(Worth(s3), b4) = Worth(s4)
  BY <1>3, <1>4, <1>8, OctetXor
<1>10. XorByte(XorByte(XorByte(XorByte(XorByte(99, b), b1), b2), b3), b4) = XorByte(99, Worth(s4))
  <2>1. PICK c \in Byte : c = 99
    BY DEF Byte
  <2>2. PICK x1 \in Byte, x2 \in Byte, x3 \in Byte, x4 \in Byte :
          x1 = XorByte(b, b1) /\ x2 = XorByte(x1, b2) /\ x3 = XorByte(x2, b3) /\ x4 = XorByte(x3, b4)
    BY XorByteIs
  <2>3. XorByte(XorByte(c, b), b1) = XorByte(c, x1)
    BY <2>2, ByteGroup
  <2>4. XorByte(XorByte(c, x1), b2) = XorByte(c, x2)
    BY <2>2, ByteGroup
  <2>5. XorByte(XorByte(c, x2), b3) = XorByte(c, x3)
    BY <2>2, ByteGroup
  <2>6. XorByte(XorByte(c, x3), b4) = XorByte(c, x4)
    BY <2>2, ByteGroup
  <2>7. x4 = Worth(s4)
    BY <1>6, <1>7, <1>8, <1>9, <2>2
  <2> QED
    BY <2>1, <2>3, <2>4, <2>5, <2>6, <2>7
<1>11. \A i, j, k, l, m \in 0 .. 1 : Odd(Odd(Odd(Odd(i, j), k), l), m) = Parity(i, j, k, l, m)
  BY DEF Parity
<1>12. Alike(s4, v) /\ IsOctet(v)
  <2>1. /\ s1[1] = Odd(t[1], t1[1]) /\ s1[2] = Odd(t[2], t1[2]) /\ s1[3] = Odd(t[3], t1[3]) /\ s1[4] = Odd(t[4], t1[4])
        /\ s1[5] = Odd(t[5], t1[5]) /\ s1[6] = Odd(t[6], t1[6]) /\ s1[7] = Odd(t[7], t1[7]) /\ s1[8] = Odd(t[8], t1[8])
    BY <1>6 DEF SumOf
  <2>2. /\ s2[1] = Odd(s1[1], t2[1]) /\ s2[2] = Odd(s1[2], t2[2]) /\ s2[3] = Odd(s1[3], t2[3]) /\ s2[4] = Odd(s1[4], t2[4])
        /\ s2[5] = Odd(s1[5], t2[5]) /\ s2[6] = Odd(s1[6], t2[6]) /\ s2[7] = Odd(s1[7], t2[7]) /\ s2[8] = Odd(s1[8], t2[8])
    BY <1>7 DEF SumOf
  <2>3. /\ s3[1] = Odd(s2[1], t3[1]) /\ s3[2] = Odd(s2[2], t3[2]) /\ s3[3] = Odd(s2[3], t3[3]) /\ s3[4] = Odd(s2[4], t3[4])
        /\ s3[5] = Odd(s2[5], t3[5]) /\ s3[6] = Odd(s2[6], t3[6]) /\ s3[7] = Odd(s2[7], t3[7]) /\ s3[8] = Odd(s2[8], t3[8])
    BY <1>8 DEF SumOf
  <2>4. /\ s4[1] = Odd(s3[1], t4[1]) /\ s4[2] = Odd(s3[2], t4[2]) /\ s4[3] = Odd(s3[3], t4[3]) /\ s4[4] = Odd(s3[4], t4[4])
        /\ s4[5] = Odd(s3[5], t4[5]) /\ s4[6] = Odd(s3[6], t4[6]) /\ s4[7] = Odd(s3[7], t4[7]) /\ s4[8] = Odd(s3[8], t4[8])
    BY <1>9 DEF SumOf
  <2>5. /\ v[1] = Parity(t[1], t[8], t[7], t[6], t[5]) /\ v[2] = Parity(t[2], t[1], t[8], t[7], t[6])
        /\ v[3] = Parity(t[3], t[2], t[1], t[8], t[7]) /\ v[4] = Parity(t[4], t[3], t[2], t[1], t[8])
        /\ v[5] = Parity(t[5], t[4], t[3], t[2], t[1]) /\ v[6] = Parity(t[6], t[5], t[4], t[3], t[2])
        /\ v[7] = Parity(t[7], t[6], t[5], t[4], t[3]) /\ v[8] = Parity(t[8], t[7], t[6], t[5], t[4])
    BY DEF FiveOf
  <2> HIDE DEF Odd
  <2>6. /\ s4[1] = Odd(Odd(Odd(Odd(t[1], t[8]), t[7]), t[6]), t[5])
        /\ s4[2] = Odd(Odd(Odd(Odd(t[2], t[1]), t[8]), t[7]), t[6])
    BY ONLY <1>2, <2>1, <2>2, <2>3, <2>4
  <2>7. /\ s4[3] = Odd(Odd(Odd(Odd(t[3], t[2]), t[1]), t[8]), t[7])
        /\ s4[4] = Odd(Odd(Odd(Odd(t[4], t[3]), t[2]), t[1]), t[8])
    BY ONLY <1>2, <2>1, <2>2, <2>3, <2>4
  <2>8. /\ s4[5] = Odd(Odd(Odd(Odd(t[5], t[4]), t[3]), t[2]), t[1])
        /\ s4[6] = Odd(Odd(Odd(Odd(t[6], t[5]), t[4]), t[3]), t[2])
    BY ONLY <1>2, <2>1, <2>2, <2>3, <2>4
  <2>9. /\ s4[7] = Odd(Odd(Odd(Odd(t[7], t[6]), t[5]), t[4]), t[3])
        /\ s4[8] = Odd(Odd(Odd(Odd(t[8], t[7]), t[6]), t[5]), t[4])
    BY ONLY <1>2, <2>1, <2>2, <2>3, <2>4
  <2>10. Alike(s4, v)
    BY <1>11, <2>5, <2>6, <2>7, <2>8, <2>9 DEF IsOctet, Alike
  <2> QED
    BY <1>9, <2>10 DEF IsOctet, Alike
<1> QED
  BY <1>4, <1>5, <1>10, <1>12, WorthOfAlike

(* ... from which each bit is found again, so that it tells bytes apart.   *)
LEMMA FivesTell ==
  ASSUME NEW t, NEW u, IsOctet(t), IsOctet(u), Alike(FiveOf(t), FiveOf(u))
  PROVE  Alike(t, u)
<1>1. ASSUME NEW a \in 0 .. 1, NEW b \in 0 .. 1, NEW c \in 0 .. 1, NEW d \in 0 .. 1,
             NEW e \in 0 .. 1, NEW f \in 0 .. 1, NEW g \in 0 .. 1, NEW h \in 0 .. 1
      PROVE  (Parity(h, g, f, e, d) + Parity(f, e, d, c, b) + Parity(c, b, a, h, g)) % 2 = a
  <2>1. PICK p \in 0 .. 1, m \in 0 .. 2 : h + g + f + e + d = p + 2 * m
    OBVIOUS
  <2>2. PICK q \in 0 .. 1, n \in 0 .. 2 : f + e + d + c + b = q + 2 * n
    OBVIOUS
  <2>3. PICK r \in 0 .. 1, o \in 0 .. 2 : c + b + a + h + g = r + 2 * o
    OBVIOUS
  <2>4. (p + q + r) % 2 = a
    BY <2>1, <2>2, <2>3
  <2>5. Parity(h, g, f, e, d) = p /\ Parity(f, e, d, c, b) = q /\ Parity(c, b, a, h, g) = r
    BY <2>1, <2>2, <2>3 DEF Parity
  <2> QED
    BY <2>4, <2>5
<1>2. PICK p, q : p = FiveOf(t) /\ q = FiveOf(u)
  OBVIOUS
<1>3. /\ p[1] = q[1] /\ p[2] = q[2] /\ p[3] = q[3] /\ p[4] = q[4] /\ p[5] = q[5] /\ p[6] = q[6] /\ p[7] = q[7] /\ p[8] = q[8]
  BY <1>2 DEF Alike
<1>4. ASSUME NEW o, IsOctet(o), NEW x, x = FiveOf(o)
      PROVE  /\ o[1] = (x[8] + x[6] + x[3]) % 2 /\ o[2] = (x[1] + x[7] + x[4]) % 2
             /\ o[3] = (x[2] + x[8] + x[5]) % 2 /\ o[4] = (x[3] + x[1] + x[6]) % 2
             /\ o[5] = (x[4] + x[2] + x[7]) % 2 /\ o[6] = (x[5] + x[3] + x[8]) % 2
             /\ o[7] = (x[6] + x[4] + x[1]) % 2 /\ o[8] = (x[7] + x[5] + x[2]) % 2
  <2>1. /\ x[1] = Parity(o[1], o[8], o[7], o[6], o[5]) /\ x[2] = Parity(o[2], o[1], o[8], o[7], o[6])
        /\ x[3] = Parity(o[3], o[2], o[1], o[8], o[7]) /\ x[4] = Parity(o[4], o[3], o[2], o[1], o[8])
        /\ x[5] = Parity(o[5], o[4], o[3], o[2], o[1]) /\ x[6] = Parity(o[6], o[5], o[4], o[3], o[2])
        /\ x[7] = Parity(o[7], o[6], o[5], o[4], o[3]) /\ x[8] = Parity(o[8], o[7], o[6], o[5], o[4])
    BY <1>4 DEF FiveOf
  <2>2. PICK a \in 0 .. 1, b \in 0 .. 1, c \in 0 .. 1, d \in 0 .. 1, e \in 0 .. 1, f \in 0 .. 1, g \in 0 .. 1, h \in 0 .. 1 :
          /\ a = o[1] /\ b = o[2] /\ c = o[3] /\ d = o[4] /\ e = o[5] /\ f = o[6] /\ g = o[7] /\ h = o[8]
    BY <1>4 DEF IsOctet
  <2>3. /\ x[1] = Parity(a, h, g, f, e) /\ x[2] = Parity(b, a, h, g, f) /\ x[3] = Parity(c, b, a, h, g)
        /\ x[4] = Parity(d, c, b, a, h) /\ x[5] = Parity(e, d, c, b, a) /\ x[6] = Parity(f, e, d, c, b)
        /\ x[7] = Parity(g, f, e, d, c) /\ x[8] = Parity(h, g, f, e, d)
    BY ONLY <2>1, <2>2
  <2>4. a = (x[8] + x[6] + x[3]) % 2 /\ b = (x[1] + x[7] + x[4]) % 2
    BY <1>1, <2>3
  <2>5. c = (x[2] + x[8] + x[5]) % 2 /\ d = (x[3] + x[1] + x[6]) % 2
    BY <1>1, <2>3
  <2>6. e = (x[4] + x[2] + x[7]) % 2 /\ f = (x[5] + x[3] + x[8]) % 2
    BY <1>1, <2>3
  <2>7. g = (x[6] + x[4] + x[1]) % 2 /\ h = (x[7] + x[5] + x[2]) % 2
    BY <1>1, <2>3
  <2> QED
    BY ONLY <2>2, <2>4, <2>5, <2>6, <2>7
<1>5. /\ t[1] = (p[8] + p[6] + p[3]) % 2 /\ t[2] = (p[1] + p[7] + p[4]) % 2
      /\ t[3] = (p[2] + p[8] + p[5]) % 2 /\ t[4] = (p[3] + p[1] + p[6]) % 2
      /\ t[5] = (p[4] + p[2] + p[7]) % 2 /\ t[6] = (p[5] + p[3] + p[8]) % 2
      /\ t[7] = (p[6] + p[4] + p[1]) % 2 /\ t[8] = (p[7] + p[5] + p[2]) % 2
  BY <1>2, <1>4
<1>6. /\ u[1] = (q[8] + q[6] + q[3]) % 2 /\ u[2] = (q[1] + q[7] + q[4]) % 2
      /\ u[3] = (q[2] + q[8] + q[5]) % 2 /\ u[4] = (q[3] + q[1] + q[6]) % 2
      /\ u[5] = (q[4] + q[2] + q[7]) % 2 /\ u[6] = (q[5] + q[3] + q[8]) % 2
      /\ u[7] = (q[6] + q[4] + q[1]) % 2 /\ u[8] = (q[7] + q[5] + q[2]) % 2
  BY <1>2, <1>4
<1> QED
  BY ONLY <1>3, <1>5, <1>6 DEF Alike

LEMMA AffineTells ==
  ASSUME NEW a \in Byte, NEW b \in Byte, Affine[a] = Affine[b]
  PROVE  a = b
<1>1. PICK t : IsOctet(t) /\ a = Worth(t)
  BY ByteHas
<1>2. PICK u : IsOctet(u) /\ b = Worth(u)
  BY ByteHas
<1>3. PICK v, w : v = FiveOf(t) /\ w = FiveOf(u)
  OBVIOUS
<1>4. IsOctet(v) /\ Affine[a] = XorByte(99, Worth(v)) /\ IsOctet(w) /\ Affine[b] = XorByte(99, Worth(w))
  BY <1>1, <1>2, <1>3, AffineFives
<1>5. PICK x \in Byte, y \in Byte : x = Worth(v) /\ y = Worth(w)
  BY <1>4, WorthIs
<1>6. x = y
  <2>1. PICK c \in Byte : c = 99
    BY DEF Byte
  <2>2. XorByte(c, x) = XorByte(c, y)
    BY <1>4, <1>5, <2>1
  <2>3. XorByte(c, x) = XorByte(x, c) /\ XorByte(c, y) = XorByte(y, c)
    BY ByteGroup
  <2>4. XorByte(XorByte(x, c), c) = x /\ XorByte(XorByte(y, c), c) = y
    BY ByteCancel
  <2> QED
    BY <2>2, <2>3, <2>4
<1>7. Alike(v, w)
  BY <1>4, <1>5, <1>6, WorthTells
<1>8. Alike(t, u)
  BY <1>1, <1>2, <1>3, <1>7, FivesTell
<1> QED
  BY <1>1, <1>2, <1>8, WorthOfAlike

(* The S-box holds every byte once, so that Td4 undoes it.                 *)
LEMMA SHas ==
  ASSUME NEW i \in 1 .. 256
  PROVE  S[i] = Affine[Reciprocal(i - 1)]
<1> DEFINE f == [k \in 1 .. 256 |-> Affine[Reciprocal(k - 1)]]
<1>1. S = f \o <<>>
  BY DEF S
<1>2. f = [k \in 1 .. 256 |-> f[k]] /\ f[i] = Affine[Reciprocal(i - 1)]
  OBVIOUS
<1> HIDE DEF f
<1>3. 256 \in Nat
  OBVIOUS
<1>4. f \o <<>> = f
  BY <1>2, <1>3, TableMade, ZenonT(30)
<1> QED
  BY <1>1, <1>2, <1>4

LEMMA STells ==
  ASSUME NEW i \in 1 .. 256, NEW j \in 1 .. 256, S[i] = S[j]
  PROVE  i = j
<1>1. PICK a \in Byte, b \in Byte : a = i - 1 /\ b = j - 1
  <2>1. i - 1 \in Byte /\ j - 1 \in Byte
    BY DEF Byte
  <2> QED
    BY <2>1
<1>2. PICK x \in Byte, y \in Byte : x = Reciprocal(a) /\ y = Reciprocal(b)
  BY ReciprocalIs
<1>3. Affine[x] = Affine[y]
  BY <1>1, <1>2, SHas
<1>4. a = b
  BY <1>2, <1>3, AffineTells, ReciprocalTells
<1> QED
  BY <1>1, <1>4

(* Td4 is the S-box backwards: AES_decrypt's last round looks up the byte  *)
(* that AES_encrypt's substituted, for each of the 256.                    *)
THEOREM Td4Undoes ==
  ASSUME NEW b \in Byte, NEW c \in Byte, c = S[b + 1]
  PROVE  Td4[c + 1] = b
<1> DEFINE Source(i) == CHOOSE k \in 1 .. 256 : S[k] = i - 1
           f == [i \in 1 .. 256 |-> Source(i) - 1]
<1>1. Td4 = f \o <<>>
  BY DEF Td4
<1>2. PICK i \in 1 .. 256 : i = c + 1
  BY DEF Byte
<1>3. PICK j \in 1 .. 256 : j = b + 1
  BY DEF Byte
<1> HIDE DEF Source
<1>4. f = [k \in 1 .. 256 |-> f[k]]
  OBVIOUS
<1>5. f[i] = Source(i) - 1
  OBVIOUS
<1> HIDE DEF f
<1>6. 256 \in Nat
  OBVIOUS
<1>7. f \o <<>> = f
  BY <1>4, <1>6, TableMade, ZenonT(30)
<1>8. S[j] = i - 1
  BY <1>2, <1>3 DEF Byte
<1>9. PICK k \in 1 .. 256 : k = Source(i) /\ S[k] = i - 1
  BY <1>8 DEF Source
<1>10. k = j
  BY <1>8, <1>9, STells, ZenonT(20)
<1>11. Td4[i] = k - 1
  <2>1. Td4 = f
    BY ONLY <1>1, <1>7
  <2> QED
    BY ONLY <2>1, <1>5, <1>9
<1>12. k - 1 = b
  BY ONLY <1>3, <1>10, b \in Byte DEF Byte
<1> QED
  BY ONLY <1>2, <1>11, <1>12

-----------------------------------------------------------------------------
(* The tables of encryption at b, ... *)
LEMMA TablesHold ==
  ASSUME NEW b \in Byte
  PROVE  /\ S[b + 1] \in Byte
         /\ Te0[b + 1] = Column(S[b + 1])
         /\ Te1[b + 1] = Right(Column(S[b + 1]))
         /\ Te2[b + 1] = Right(Right(Column(S[b + 1])))
         /\ Te3[b + 1] = Right(Right(Right(Column(S[b + 1]))))
<1> DEFINE f == [i \in 1 .. 256 |-> Column(S[i])]
<1>1. Te0 = f \o <<>>
  BY DEF Te0
<1>2. 256 \in Nat /\ f = [i \in 1 .. 256 |-> f[i]]
  OBVIOUS
<1>3. \A i \in 1 .. 256 : f[i] = Column(S[i])
  OBVIOUS
<1> HIDE DEF f
<1>4. f \o <<>> = f
  BY <1>2, TableMade, ZenonT(30)
<1>5. b + 1 \in 1 .. 256
  BY DEF Byte
<1>6. Te0[b + 1] = Column(S[b + 1])
  BY <1>1, <1>3, <1>4, <1>5
<1>7. Te1[b + 1] = Right(Te0[b + 1])
  BY AllRightIs DEF Te1
<1>8. Te2[b + 1] = Right(Te1[b + 1])
  BY AllRightIs DEF Te2
<1>9. Te3[b + 1] = Right(Te2[b + 1])
  BY AllRightIs DEF Te3
<1>10. S[b + 1] \in Byte
  <2>1. PICK n \in Nat : n = 256 /\ S \in Bytes(n)
    BY SIs
  <2>2. \A i \in 1 .. n : S[i] \in Byte
    BY <2>1, BytesHave
  <2> QED
    BY <1>5, <2>1, <2>2
<1> QED
  BY <1>6, <1>7, <1>8, <1>9, <1>10

(* ... and those of decryption at what the S-box has at b.                 *)
LEMMA TablesUndo ==
  ASSUME NEW b \in Byte, NEW c \in Byte, c = S[b + 1]
  PROVE  /\ Td4[c + 1] = b
         /\ Td0[c + 1] = Uncolumn(b)
         /\ Td1[c + 1] = Right(Uncolumn(b))
         /\ Td2[c + 1] = Right(Right(Uncolumn(b)))
         /\ Td3[c + 1] = Right(Right(Right(Uncolumn(b))))
<1> DEFINE f == [i \in 1 .. 256 |-> Uncolumn(Td4[i])]
<1>1. Td0 = f \o <<>>
  BY DEF Td0
<1>2. 256 \in Nat /\ f = [i \in 1 .. 256 |-> f[i]]
  OBVIOUS
<1>3. \A i \in 1 .. 256 : f[i] = Uncolumn(Td4[i])
  OBVIOUS
<1> HIDE DEF f
<1>4. f \o <<>> = f
  BY <1>2, TableMade, ZenonT(30)
<1>5. c + 1 \in 1 .. 256
  BY DEF Byte
<1>6. Td4[c + 1] = b
  BY Td4Undoes
<1>7. Td0[c + 1] = Uncolumn(b)
  BY <1>1, <1>3, <1>4, <1>5, <1>6
<1>8. Td1[c + 1] = Right(Td0[c + 1])
  BY AllRightIs DEF Td1
<1>9. Td2[c + 1] = Right(Td1[c + 1])
  BY AllRightIs DEF Td2
<1>10. Td3[c + 1] = Right(Td2[c + 1])
  BY AllRightIs DEF Td3
<1> QED
  BY <1>6, <1>7, <1>8, <1>9, <1>10

(* A byte mixed into a column, by place. *)
LEMMA ColumnRows ==
  ASSUME NEW b \in Byte
  PROVE  /\ Column(b) \in Bytes(4) /\ Right(Column(b)) \in Bytes(4)
         /\ Right(Right(Column(b))) \in Bytes(4) /\ Right(Right(Right(Column(b)))) \in Bytes(4)
         /\ Column(b)[3] = b /\ Right(Column(b))[4] = b
         /\ Right(Right(Column(b)))[1] = b /\ Right(Right(Right(Column(b))))[2] = b
<1>1. PICK w \in Bytes(4) : w = Column(b)
  BY ColumnIs
<1>2. w[2] = b /\ w[3] = b
  BY <1>1 DEF Column
<1>3. PICK x \in Bytes(4) : x = Right(w) /\ x[3] = w[2] /\ x[4] = w[3]
  BY RightIs
<1>4. PICK y \in Bytes(4) : y = Right(x) /\ y[1] = x[4] /\ y[4] = x[3]
  BY RightIs
<1>5. Right(y) \in Bytes(4) /\ Right(y)[2] = y[1]
  BY RightIs
<1> QED
  BY <1>1, <1>2, <1>3, <1>4, <1>5

(* SubWord looks up the S-box. *)
LEMMA SubWordLooks ==
  ASSUME NEW a \in Byte, NEW b \in Byte, NEW c \in Byte, NEW e \in Byte
  PROVE  SubWord(a, b, c, e) = Quad(S[a + 1], S[b + 1], S[c + 1], S[e + 1])
<1>1. Te2[a + 1][1] = S[a + 1]
  BY TablesHold, ColumnRows
<1>2. Te3[b + 1][2] = S[b + 1]
  BY TablesHold, ColumnRows
<1>3. Te0[c + 1][3] = S[c + 1]
  BY TablesHold, ColumnRows
<1>4. Te1[e + 1][4] = S[e + 1]
  BY TablesHold, ColumnRows
<1> QED
  BY <1>1, <1>2, <1>3, <1>4 DEF SubWord, Quad

(* AES_set_decrypt_key undoes the columns of a word. *)
LEMMA UnmixedIs ==
  ASSUME NEW w \in Bytes(4)
  PROVE  Unmixed(w) = Uncolumns(w)
<1>1. ASSUME NEW b \in Byte
      PROVE  /\ Td0[Te1[b + 1][4] + 1] = Uncolumn(b)
             /\ Td1[Te1[b + 1][4] + 1] = Right(Uncolumn(b))
             /\ Td2[Te1[b + 1][4] + 1] = Right(Right(Uncolumn(b)))
             /\ Td3[Te1[b + 1][4] + 1] = Right(Right(Right(Uncolumn(b))))
  <2>1. PICK c \in Byte : c = S[b + 1]
    BY TablesHold
  <2>2. Te1[b + 1][4] = c
    BY <2>1, TablesHold, ColumnRows
  <2> QED
    BY <2>1, <2>2, TablesUndo
<1> QED
  BY <1>1, QuadHas DEF Unmixed, Uncolumns

-----------------------------------------------------------------------------
(* Rounds. *)

(* What a round looks up: the shifted rows, through the S-box. *)
Shifted(s) ==
  [k \in 1 .. 4 |-> SubWord(s[k][1], s[Cyc(k + 1)][2], s[Cyc(k + 2)][3], s[Cyc(k + 3)][4])] \o <<>>

LEMMA CycAre ==
  ASSUME NEW k \in 1 .. 4
  PROVE  /\ Cyc(k + 1) \in 1 .. 4 /\ Cyc(k + 2) \in 1 .. 4 /\ Cyc(k + 3) \in 1 .. 4
         /\ Cyc(Cyc(k + 3) + 1) = k /\ Cyc(Cyc(k + 2) + 2) = k /\ Cyc(Cyc(k + 1) + 3) = k
  BY DEF Cyc

(* The bytes of four words. *)
LEMMA FourWords ==
  ASSUME NEW s \in Entries(4), NEW k \in 1 .. 4
  PROVE  /\ s[k] \in Bytes(4) /\ s[k][1] \in Byte /\ s[Cyc(k + 1)][2] \in Byte
         /\ s[Cyc(k + 2)][3] \in Byte /\ s[Cyc(k + 3)][4] \in Byte
<1>1. 4 \in Nat
  OBVIOUS
<1>2. \A i \in 1 .. 4 : s[i] \in Bytes(4)
  BY <1>1, EntriesHave
<1> QED
  BY <1>2, CycAre, QuadHas

LEMMA ShiftedIs ==
  ASSUME NEW s \in Entries(4)
  PROVE  /\ Shifted(s) \in Entries(4)
         /\ \A k \in 1 .. 4 :
              /\ Shifted(s)[k] = SubWord(s[k][1], s[Cyc(k + 1)][2], s[Cyc(k + 2)][3], s[Cyc(k + 3)][4])
              /\ Shifted(s)[k][1] = S[s[k][1] + 1] /\ Shifted(s)[k][2] = S[s[Cyc(k + 1)][2] + 1]
              /\ Shifted(s)[k][3] = S[s[Cyc(k + 2)][3] + 1] /\ Shifted(s)[k][4] = S[s[Cyc(k + 3)][4] + 1]
<1> DEFINE f == [k \in 1 .. 4 |-> SubWord(s[k][1], s[Cyc(k + 1)][2], s[Cyc(k + 2)][3], s[Cyc(k + 3)][4])]
<1>1. Shifted(s) = f \o <<>>
  BY DEF Shifted
<1>2. ASSUME NEW k \in 1 .. 4
      PROVE  /\ f[k] \in Bytes(4)
             /\ f[k] = SubWord(s[k][1], s[Cyc(k + 1)][2], s[Cyc(k + 2)][3], s[Cyc(k + 3)][4])
             /\ f[k][1] = S[s[k][1] + 1] /\ f[k][2] = S[s[Cyc(k + 1)][2] + 1]
             /\ f[k][3] = S[s[Cyc(k + 2)][3] + 1] /\ f[k][4] = S[s[Cyc(k + 3)][4] + 1]
  <2>1. f[k] = SubWord(s[k][1], s[Cyc(k + 1)][2], s[Cyc(k + 2)][3], s[Cyc(k + 3)][4])
    OBVIOUS
  <2> HIDE DEF f
  <2>2. PICK a \in Byte, b \in Byte, c \in Byte, e \in Byte :
          a = s[k][1] /\ b = s[Cyc(k + 1)][2] /\ c = s[Cyc(k + 2)][3] /\ e = s[Cyc(k + 3)][4]
    BY FourWords
  <2>3. SubWord(a, b, c, e) \in Bytes(4) /\ SubWord(a, b, c, e) = Quad(S[a + 1], S[b + 1], S[c + 1], S[e + 1])
    BY SubWordIs, SubWordLooks
  <2>4. \A x, y, u, v : Quad(x, y, u, v)[1] = x /\ Quad(x, y, u, v)[2] = y /\ Quad(x, y, u, v)[3] = u /\ Quad(x, y, u, v)[4] = v
    BY DEF Quad
  <2> QED
    BY <2>1, <2>2, <2>3, <2>4
<1>3. f = [k \in 1 .. 4 |-> f[k]] /\ 4 \in Nat
  OBVIOUS
<1> HIDE DEF f
<1>4. f \o <<>> = f /\ f \in Entries(4)
  BY <1>2, <1>3, EntriesMade
<1> QED
  BY <1>1, <1>2, <1>4

(* The columns of a word mixed. *)
MixWord(w) == Mix(w[1], w[2], w[3], w[4])

(* What Td0 .. Td3 mix is what Te0 .. Te3 mixed, on every word of four     *)
(* bytes: the inverse MixColumns.                                          *)
THEOREM MixWordUndone ==
  ASSUME NEW w \in Bytes(4)
  PROVE  MixWord(w) \in Bytes(4) /\ Uncolumns(MixWord(w)) = w
<1>1. PICK a \in Byte, b \in Byte, c \in Byte, e \in Byte : a = w[1] /\ b = w[2] /\ c = w[3] /\ e = w[4]
  BY QuadHas
<1>2. PICK x \in Bytes(4) : x = Quad(a, b, c, e)
  BY QuadIs
<1>3. x[1] = a /\ x[2] = b /\ x[3] = c /\ x[4] = e
  BY <1>2 DEF Quad
<1>4. x = w
  BY <1>1, <1>3, WordsEqual
<1>5. MixWord(w) = Mix(a, b, c, e)
  BY <1>1 DEF MixWord
<1>6. Mix(a, b, c, e) \in Bytes(4) /\ Uncolumns(Mix(a, b, c, e)) = Quad(a, b, c, e)
  BY MixUndone
<1> QED
  BY <1>2, <1>4, <1>5, <1>6

(* A round mixes what it looks up; the last one does not.                  *)
LEMMA RoundMixes ==
  ASSUME NEW s \in Entries(4), NEW rk, NEW r \in Nat, NEW k \in 1 .. 4
  PROVE  /\ Round(s, rk, r)[k] = XorBytes[MixWord(Shifted(s)[k])][rk[4 * r + k]]
         /\ LastRound(s, rk, r)[k] = XorBytes[Shifted(s)[k]][rk[4 * r + k]]
<1> DEFINE f == [i \in 1 .. 4 |-> GEN_TX(s, i, rk, r)]
           g == [i \in 1 .. 4 |->
                   XorBytes[SubWord(s[i][1], s[Cyc(i + 1)][2], s[Cyc(i + 2)][3], s[Cyc(i + 3)][4])][rk[4 * r + i]]]
<1>1. Round(s, rk, r) = f \o <<>> /\ LastRound(s, rk, r) = g \o <<>>
  BY DEF Round, LastRound
<1>2. f = [i \in 1 .. 4 |-> f[i]] /\ g = [i \in 1 .. 4 |-> g[i]] /\ 4 \in Nat
  OBVIOUS
<1>3. f[k] = GEN_TX(s, k, rk, r)
  OBVIOUS
<1>4. g[k] = XorBytes[SubWord(s[k][1], s[Cyc(k + 1)][2], s[Cyc(k + 2)][3], s[Cyc(k + 3)][4])][rk[4 * r + k]]
  OBVIOUS
<1> HIDE DEF f, g
<1>5. f \o <<>> = f
  BY <1>2, TableMade
<1>6. g \o <<>> = g
  BY <1>2, TableMade
<1>7. g[k] = XorBytes[Shifted(s)[k]][rk[4 * r + k]]
  BY <1>4, ShiftedIs
<1>8. PICK a \in Byte, b \in Byte, c \in Byte, e \in Byte :
        a = s[k][1] /\ b = s[Cyc(k + 1)][2] /\ c = s[Cyc(k + 2)][3] /\ e = s[Cyc(k + 3)][4]
  BY FourWords
<1>9. MixWord(Shifted(s)[k]) = Mix(S[a + 1], S[b + 1], S[c + 1], S[e + 1])
  BY <1>8, ShiftedIs DEF MixWord
<1>10. GEN_TX(s, k, rk, r) = XorBytes[Mix(S[a + 1], S[b + 1], S[c + 1], S[e + 1])][rk[4 * r + k]]
  <2>1. Te0[a + 1] = Column(S[a + 1]) /\ Te1[b + 1] = Right(Column(S[b + 1]))
    BY TablesHold
  <2>2. Te2[c + 1] = Right(Right(Column(S[c + 1]))) /\ Te3[e + 1] = Right(Right(Right(Column(S[e + 1]))))
    BY TablesHold
  <2> QED
    BY <1>8, <2>1, <2>2 DEF GEN_TX, Mix
<1> QED
  BY <1>1, <1>3, <1>5, <1>6, <1>7, <1>9, <1>10

(* Decryption's rounds undo the look-ups. *)
LEMMA InverseUndoes ==
  ASSUME NEW s \in Entries(4), NEW rk, NEW r \in Nat, NEW k \in 1 .. 4
  PROVE  /\ InverseRound(Shifted(s), rk, r)[k] = XorBytes[Uncolumns(s[k])][rk[4 * r + k]]
         /\ InverseLastRound(Shifted(s), rk, r)[k] = XorBytes[s[k]][rk[4 * r + k]]
<1>1. PICK t : t = Shifted(s)
  OBVIOUS
<1> DEFINE f == [i \in 1 .. 4 |->
                   XorBytes[XorBytes[XorBytes[Td0[t[i][1] + 1]][Td1[t[Cyc(i + 3)][2] + 1]]]
                                    [XorBytes[Td2[t[Cyc(i + 2)][3] + 1]][Td3[t[Cyc(i + 1)][4] + 1]]]][rk[4 * r + i]]]
           g == [i \in 1 .. 4 |->
                   XorBytes[<<Td4[t[i][1] + 1], Td4[t[Cyc(i + 3)][2] + 1],
                              Td4[t[Cyc(i + 2)][3] + 1], Td4[t[Cyc(i + 1)][4] + 1]>>][rk[4 * r + i]]]
<1>2. InverseRound(t, rk, r) = f \o <<>> /\ InverseLastRound(t, rk, r) = g \o <<>>
  BY DEF InverseRound, InverseLastRound
<1>3. f = [i \in 1 .. 4 |-> f[i]] /\ g = [i \in 1 .. 4 |-> g[i]] /\ 4 \in Nat
  OBVIOUS
<1>4. f[k] = XorBytes[XorBytes[XorBytes[Td0[t[k][1] + 1]][Td1[t[Cyc(k + 3)][2] + 1]]]
                              [XorBytes[Td2[t[Cyc(k + 2)][3] + 1]][Td3[t[Cyc(k + 1)][4] + 1]]]][rk[4 * r + k]]
  OBVIOUS
<1>5. g[k] = XorBytes[<<Td4[t[k][1] + 1], Td4[t[Cyc(k + 3)][2] + 1],
                        Td4[t[Cyc(k + 2)][3] + 1], Td4[t[Cyc(k + 1)][4] + 1]>>][rk[4 * r + k]]
  OBVIOUS
<1> HIDE DEF f, g
<1>6. f \o <<>> = f
  BY <1>3, TableMade
<1>7. g \o <<>> = g
  BY <1>3, TableMade
<1>8. PICK w \in Bytes(4) : w = s[k]
  BY FourWords
<1>9. PICK a \in Byte, b \in Byte, c \in Byte, e \in Byte : a = w[1] /\ b = w[2] /\ c = w[3] /\ e = w[4]
  BY QuadHas
<1>10. /\ t[k][1] = S[a + 1] /\ t[Cyc(k + 3)][2] = S[b + 1]
       /\ t[Cyc(k + 2)][3] = S[c + 1] /\ t[Cyc(k + 1)][4] = S[e + 1]
  <2>1. t[k][1] = S[a + 1]
    BY <1>1, <1>8, <1>9, ShiftedIs
  <2>2. PICK i \in 1 .. 4 : i = Cyc(k + 3) /\ Cyc(i + 1) = k
    BY CycAre
  <2>3. t[i][2] = S[b + 1]
    BY <1>1, <1>8, <1>9, <2>2, ShiftedIs
  <2>4. PICK j \in 1 .. 4 : j = Cyc(k + 2) /\ Cyc(j + 2) = k
    BY CycAre
  <2>5. t[j][3] = S[c + 1]
    BY <1>1, <1>8, <1>9, <2>4, ShiftedIs
  <2>6. PICK l \in 1 .. 4 : l = Cyc(k + 1) /\ Cyc(l + 3) = k
    BY CycAre
  <2>7. t[l][4] = S[e + 1]
    BY <1>1, <1>8, <1>9, <2>6, ShiftedIs
  <2> QED
    BY <2>1, <2>2, <2>3, <2>4, <2>5, <2>6, <2>7
<1>11. PICK p \in Byte, q \in Byte, x \in Byte, y \in Byte : p = S[a + 1] /\ q = S[b + 1] /\ x = S[c + 1] /\ y = S[e + 1]
  BY TablesHold
<1>12. f[k] = XorBytes[Uncolumns(w)][rk[4 * r + k]]
  <2>1. Td0[p + 1] = Uncolumn(a) /\ Td1[q + 1] = Right(Uncolumn(b))
    BY <1>11, TablesUndo
  <2>2. Td2[x + 1] = Right(Right(Uncolumn(c))) /\ Td3[y + 1] = Right(Right(Right(Uncolumn(e))))
    BY <1>11, TablesUndo
  <2> QED
    BY <1>4, <1>9, <1>10, <1>11, <2>1, <2>2 DEF Uncolumns
<1>13. g[k] = XorBytes[w][rk[4 * r + k]]
  <2>1. Td4[p + 1] = a /\ Td4[q + 1] = b /\ Td4[x + 1] = c /\ Td4[y + 1] = e
    BY <1>11, TablesUndo
  <2>2. PICK v \in Bytes(4) : v = Quad(a, b, c, e)
    BY QuadIs
  <2>3. v[1] = a /\ v[2] = b /\ v[3] = c /\ v[4] = e
    BY <2>2 DEF Quad
  <2>4. v = w
    BY <1>9, <2>3, WordsEqual
  <2> QED
    BY <1>5, <1>10, <1>11, <2>1, <2>2, <2>4 DEF Quad
<1> QED
  BY <1>1, <1>2, <1>6, <1>7, <1>8, <1>12, <1>13

-----------------------------------------------------------------------------
(* The key schedule of decryption. *)

(* Round r's k-th word: that of round R - r, undone but in the first and   *)
(* last round.                                                             *)
InverseWord(rk, R, r, k) ==
  IF r \in 1 .. R - 1 THEN Uncolumns(rk[4 * (R - r) + k]) ELSE rk[4 * (R - r) + k]

LEMMA InvertedIs ==
  ASSUME NEW key \in AesKeys, NEW R, R = key.rounds, NEW rk, rk = key.rd_key
  PROVE  /\ Inverted[key] \in KeySchedules /\ Inverted[key].rounds = R
         /\ Inverted[key].rd_key \in Entries(4 * (R + 1))
         /\ \A r \in 0 .. R, k \in 1 .. 4 : Inverted[key].rd_key[4 * r + k] = InverseWord(rk, R, r, k)
<1>1. key \in KeySchedules /\ R \in {10, 12, 14} /\ R \in Nat
  BY DEF AesKeys, KeySchedules
<1>2. PICK m \in Nat : m = 4 * (R + 1) /\ rk \in Entries(m)
  BY <1>1 DEF AesKeys
<1>3. DOMAIN rk = 1 .. m /\ \A i \in 1 .. m : rk[i] \in Bytes(4)
  BY <1>2, EntriesHave
<1> DEFINE word(i) == key.rd_key[4 * (key.rounds - (i - 1) \div 4) + ((i - 1) % 4) + 1]
           f == [i \in 1 .. m |-> IF i \in 5 .. (4 * key.rounds) THEN Unmixed(word(i)) ELSE word(i)]
<1>4. Inverted[key] = [key EXCEPT !.rd_key = f \o <<>>]
  BY <1>1, <1>3 DEF Inverted
<1>5. ASSUME NEW r \in 0 .. R, NEW k \in 1 .. 4
      PROVE  f[4 * r + k] = InverseWord(rk, R, r, k) /\ f[4 * r + k] \in Bytes(4)
  <2>1. PICK i \in 1 .. m : i = 4 * r + k
    BY <1>1, <1>2
  <2>2. (i - 1) \div 4 = r /\ (i - 1) % 4 = k - 1
    BY <2>1
  <2>3. word(i) = rk[4 * (R - r) + (k - 1) + 1]
    BY <2>2
  <2>4. 4 * (R - r) + (k - 1) + 1 = 4 * (R - r) + k
    BY <1>1
  <2>5. PICK j \in 1 .. m : j = 4 * (R - r) + k
    BY <1>1, <1>2
  <2>6. word(i) = rk[j]
    BY <2>3, <2>4, <2>5
  <2>7. f[i] = IF i \in 5 .. (4 * R) THEN Unmixed(word(i)) ELSE word(i)
    OBVIOUS
  <2>8. i \in 5 .. (4 * R) <=> r \in 1 .. R - 1
    BY <1>1, <2>1
  <2> HIDE DEF f, word
  <2>9. PICK w \in Bytes(4) : w = rk[j]
    BY <1>3
  <2>10. Unmixed(w) = Uncolumns(w) /\ Uncolumns(w) \in Bytes(4)
    BY UnmixedIs, PartsAre
  <2>11. f[i] = IF r \in 1 .. R - 1 THEN Uncolumns(w) ELSE w
    BY <2>6, <2>7, <2>8, <2>9, <2>10
  <2>12. f[i] \in Bytes(4)
    BY <2>9, <2>10, <2>11
  <2>13. f[i] = InverseWord(rk, R, r, k)
    BY <2>5, <2>9, <2>11 DEF InverseWord
  <2> QED
    BY <2>1, <2>12, <2>13
<1>6. f = [i \in 1 .. m |-> f[i]]
  OBVIOUS
<1> HIDE DEF f
<1>7. ASSUME NEW i \in 1 .. m
      PROVE  f[i] \in Bytes(4)
  <2>1. PICK r, k : r = (i - 1) \div 4 /\ k = ((i - 1) % 4) + 1
    OBVIOUS
  <2>2. r \in 0 .. R /\ k \in 1 .. 4 /\ i = 4 * r + k
    BY <1>1, <1>2, <2>1
  <2> QED
    BY <1>5, <2>2
<1>8. f \o <<>> = f /\ f \in Entries(m)
  BY <1>6, <1>7, EntriesMade
<1>9. f \in Seq(Seq(Nat))
  BY <1>8, EntriesHave
<1>10. PICK inv : inv = [key EXCEPT !.rd_key = f]
  OBVIOUS
<1>11. inv \in KeySchedules /\ inv.rounds = R /\ inv.rd_key = f
  BY <1>1, <1>9, <1>10 DEF KeySchedules
<1>12. Inverted[key] = inv
  BY <1>4, <1>8, <1>10
<1> QED
  BY <1>2, <1>5, <1>8, <1>11, <1>12

-----------------------------------------------------------------------------
(* A block is enciphered and deciphered. *)

(* Two strings joined, place by place. *)
Joint(z, x, m, y, n) == z \in Bytes(m + n) /\ (\A i \in 1 .. m : z[i] = x[i]) /\ (\A i \in 1 .. n : z[m + i] = y[i])

LEMMA JoinBytes ==
  ASSUME NEW m \in Nat, NEW n \in Nat, NEW x \in Bytes(m), NEW y \in Bytes(n), NEW z, z = x \o y
  PROVE  Joint(z, x, m, y, n)
<1>1. x \in Seq(Byte) /\ Len(x) = m /\ y \in Seq(Byte) /\ Len(y) = n
  BY DEF Bytes
<1>2. z \in Bytes(m + n)
  BY BytesJoin
<1>3. \A i \in 1 .. m + n : z[i] = IF i <= m THEN x[i] ELSE y[i - m]
  BY <1>1, ConcatProperties
<1>4. ASSUME NEW i \in 1 .. m
      PROVE  z[i] = x[i]
  <2>1. i \in 1 .. m + n /\ i <= m
    OBVIOUS
  <2> QED
    BY <1>3, <2>1
<1>5. ASSUME NEW i \in 1 .. n
      PROVE  z[m + i] = y[i]
  <2>1. m + i \in 1 .. m + n /\ ~(m + i <= m) /\ (m + i) - m = i
    OBVIOUS
  <2> QED
    BY <1>3, <2>1
<1> QED
  BY <1>2, <1>4, <1>5 DEF Joint

LEMMA PutBytes ==
  ASSUME NEW s \in Entries(4)
  PROVE  /\ PUTU32(s) \in Bytes(16)
         /\ \A i \in 1 .. 4 : /\ PUTU32(s)[i] = s[1][i] /\ PUTU32(s)[4 + i] = s[2][i]
                              /\ PUTU32(s)[8 + i] = s[3][i] /\ PUTU32(s)[12 + i] = s[4][i]
<1>1. PICK a \in Bytes(4), b \in Bytes(4), c \in Bytes(4), e \in Bytes(4) : a = s[1] /\ b = s[2] /\ c = s[3] /\ e = s[4]
  BY EntriesHave
<1>2. PICK l, m, n : l = 4 /\ m = 8 /\ n = 12
  OBVIOUS
<1>3. l \in Nat /\ m \in Nat /\ n \in Nat /\ a \in Bytes(l) /\ b \in Bytes(l) /\ c \in Bytes(l) /\ e \in Bytes(l)
  BY <1>1, <1>2
<1>4. PICK x : x = a \o b
  OBVIOUS
<1>5. x \in Bytes(l + l) /\ (\A i \in 1 .. l : x[i] = a[i]) /\ (\A i \in 1 .. l : x[l + i] = b[i])
  <2>1. Joint(x, a, l, b, l)
    BY <1>3, <1>4, JoinBytes
  <2> QED
    BY <2>1 DEF Joint
<1>6. PICK y : y = x \o c
  OBVIOUS
<1>7. x \in Bytes(m)
  BY <1>2, <1>5
<1>8. y \in Bytes(m + l) /\ (\A i \in 1 .. m : y[i] = x[i]) /\ (\A i \in 1 .. l : y[m + i] = c[i])
  <2>1. Joint(y, x, m, c, l)
    BY <1>3, <1>6, <1>7, JoinBytes
  <2> QED
    BY <2>1 DEF Joint
<1>9. PICK z : z = y \o e
  OBVIOUS
<1>10. y \in Bytes(n)
  BY <1>2, <1>8
<1>11. z \in Bytes(n + l) /\ (\A i \in 1 .. n : z[i] = y[i]) /\ (\A i \in 1 .. l : z[n + i] = e[i])
  <2>1. Joint(z, y, n, e, l)
    BY <1>3, <1>9, <1>10, JoinBytes
  <2> QED
    BY <2>1 DEF Joint
<1>12. PUTU32(s) = z
  BY <1>1, <1>4, <1>6, <1>9 DEF PUTU32
<1>13. ASSUME NEW i \in 1 .. 4
       PROVE  z[i] = a[i] /\ z[4 + i] = b[i] /\ z[8 + i] = c[i] /\ z[12 + i] = e[i]
  <2>1. i \in 1 .. l /\ i \in 1 .. m /\ l + i \in 1 .. m /\ i \in 1 .. n /\ l + i \in 1 .. n /\ m + i \in 1 .. n
    BY <1>2
  <2>2. z[i] = a[i] /\ z[l + i] = b[i] /\ z[m + i] = c[i] /\ z[n + i] = e[i]
    BY <1>5, <1>8, <1>11, <2>1
  <2> QED
    BY <1>2, <2>2
<1>14. z \in Bytes(16)
  BY <1>2, <1>11
<1> QED
  BY <1>1, <1>12, <1>13, <1>14

(* The words of a block, ... *)
WordAt(b, k) == GETU32(b, 4 * k - 3)

LEMMA WordAtIs ==
  ASSUME NEW b \in Bytes(16), NEW k \in 1 .. 4
  PROVE  /\ WordAt(b, k) \in Bytes(4)
         /\ WordAt(b, k)[1] = b[4 * k - 3] /\ WordAt(b, k)[2] = b[4 * k - 2]
         /\ WordAt(b, k)[3] = b[4 * k - 1] /\ WordAt(b, k)[4] = b[4 * k]
<1>1. b \in Seq(Byte) /\ Len(b) = 16
  BY DEF Bytes
<1>2. PICK j \in Nat : j = 4 * k - 3 /\ j >= 1 /\ j + 3 <= Len(b) /\ j + 1 = 4 * k - 2 /\ j + 2 = 4 * k - 1 /\ j + 3 = 4 * k
  BY <1>1
<1>3. GETU32(b, j) \in Bytes(4)
  BY <1>1, <1>2, GetIs
<1>4. /\ GETU32(b, j)[1] = b[j] /\ GETU32(b, j)[2] = b[j + 1]
      /\ GETU32(b, j)[3] = b[j + 2] /\ GETU32(b, j)[4] = b[j + 3]
  BY DEF GETU32
<1> QED
  BY <1>2, <1>3, <1>4 DEF WordAt

(* ... written, read again, ... *)
LEMMA PutGet ==
  ASSUME NEW s \in Entries(4), NEW k \in 1 .. 4
  PROVE  WordAt(PUTU32(s), k) = s[k]
<1>1. PICK b \in Bytes(16) : b = PUTU32(s)
  BY PutBytes
<1>2. PICK w \in Bytes(4) : w = s[k]
  BY FourWords
<1>3. 1 \in 1 .. 4 /\ 2 \in 1 .. 4 /\ 3 \in 1 .. 4 /\ 4 \in 1 .. 4
  OBVIOUS
<1>4. \A i \in 1 .. 4 : b[i] = s[1][i] /\ b[4 + i] = s[2][i] /\ b[8 + i] = s[3][i] /\ b[12 + i] = s[4][i]
  BY <1>1, PutBytes
<1>5. b[4 * k - 3] = w[1] /\ b[4 * k - 2] = w[2] /\ b[4 * k - 1] = w[3] /\ b[4 * k] = w[4]
  <2>1. CASE k = 1
    BY <1>2, <1>3, <1>4, <2>1
  <2>2. CASE k = 2
    BY <1>2, <1>3, <1>4, <2>2
  <2>3. CASE k = 3
    BY <1>2, <1>3, <1>4, <2>3
  <2>4. CASE k = 4
    BY <1>2, <1>3, <1>4, <2>4
  <2> QED
    BY <2>1, <2>2, <2>3, <2>4
<1>6. WordAt(b, k) = w
  BY <1>5, WordAtIs, WordsEqual
<1> QED
  BY <1>1, <1>2, <1>6

(* ... and read, written again.                                            *)
LEMMA GetPut ==
  ASSUME NEW b \in Bytes(16), NEW s \in Entries(4), \A k \in 1 .. 4 : s[k] = WordAt(b, k)
  PROVE  PUTU32(s) = b
<1>1. PICK c \in Bytes(16) : c = PUTU32(s)
  BY PutBytes
<1>2. \A i \in 1 .. 4 : c[i] = s[1][i] /\ c[4 + i] = s[2][i] /\ c[8 + i] = s[3][i] /\ c[12 + i] = s[4][i]
  BY <1>1, PutBytes
<1>3. 1 \in 1 .. 4 /\ 2 \in 1 .. 4 /\ 3 \in 1 .. 4 /\ 4 \in 1 .. 4
  OBVIOUS
<1>4. \A k \in 1 .. 4 : s[k][1] = b[4 * k - 3] /\ s[k][2] = b[4 * k - 2] /\ s[k][3] = b[4 * k - 1] /\ s[k][4] = b[4 * k]
  BY WordAtIs
<1>5. /\ c[1] = b[1] /\ c[2] = b[2] /\ c[3] = b[3] /\ c[4] = b[4]
      /\ c[5] = b[5] /\ c[6] = b[6] /\ c[7] = b[7] /\ c[8] = b[8]
      /\ c[9] = b[9] /\ c[10] = b[10] /\ c[11] = b[11] /\ c[12] = b[12]
      /\ c[13] = b[13] /\ c[14] = b[14] /\ c[15] = b[15] /\ c[16] = b[16]
  BY <1>2, <1>3, <1>4
<1>6. \A i \in 1 .. 16 : c[i] = b[i]
  BY <1>5
<1>7. 16 \in Nat
  OBVIOUS
<1> QED
  BY <1>1, <1>6, <1>7, StringsEqual

(* Four words, equal place by place. *)
LEMMA StatesEqual ==
  ASSUME NEW s \in Entries(4), NEW t \in Entries(4), \A k \in 1 .. 4 : s[k] = t[k]
  PROVE  s = t
<1>1. s \in Seq(Bytes(4)) /\ t \in Seq(Bytes(4)) /\ Len(s) = 4 /\ Len(t) = 4
  BY DEF Entries
<1> QED
  BY <1>1, SeqEqual

(* The words before the first round. *)
LEMMA StartedWords ==
  ASSUME NEW in \in Bytes(16), NEW rk, NEW k \in 1 .. 4
  PROVE  Started(in, rk)[k] = XorBytes[WordAt(in, k)][rk[k]]
<1> DEFINE f == [i \in 1 .. 4 |-> XorBytes[GETU32(in, 4 * i - 3)][rk[i]]]
<1>1. Started(in, rk) = f \o <<>>
  BY DEF Started
<1>2. f = [i \in 1 .. 4 |-> f[i]] /\ 4 \in Nat
  OBVIOUS
<1>3. f[k] = XorBytes[WordAt(in, k)][rk[k]]
  BY DEF WordAt
<1> HIDE DEF f
<1>4. f \o <<>> = f
  BY <1>2, TableMade
<1> QED
  BY <1>1, <1>3, <1>4

(* The words of decryption's rounds. *)
LEMMA InverseAre ==
  ASSUME NEW s \in Entries(4), NEW m \in Nat, NEW rk \in Entries(m), NEW r \in Nat, 4 * r + 4 <= m
  PROVE  InverseRound(Shifted(s), rk, r) \in Entries(4) /\ InverseLastRound(Shifted(s), rk, r) \in Entries(4)
<1>1. PICK t : t = Shifted(s)
  OBVIOUS
<1> DEFINE f == [i \in 1 .. 4 |->
                   XorBytes[XorBytes[XorBytes[Td0[t[i][1] + 1]][Td1[t[Cyc(i + 3)][2] + 1]]]
                                    [XorBytes[Td2[t[Cyc(i + 2)][3] + 1]][Td3[t[Cyc(i + 1)][4] + 1]]]][rk[4 * r + i]]]
           g == [i \in 1 .. 4 |->
                   XorBytes[<<Td4[t[i][1] + 1], Td4[t[Cyc(i + 3)][2] + 1],
                              Td4[t[Cyc(i + 2)][3] + 1], Td4[t[Cyc(i + 1)][4] + 1]>>][rk[4 * r + i]]]
<1>2. InverseRound(t, rk, r) = f \o <<>> /\ InverseLastRound(t, rk, r) = g \o <<>>
  BY DEF InverseRound, InverseLastRound
<1>3. f = [i \in 1 .. 4 |-> f[i]] /\ g = [i \in 1 .. 4 |-> g[i]] /\ 4 \in Nat
  OBVIOUS
<1> HIDE DEF f, g
<1>4. f \o <<>> = f
  BY <1>3, TableMade
<1>5. g \o <<>> = g
  BY <1>3, TableMade
<1>6. ASSUME NEW k \in 1 .. 4
      PROVE  f[k] \in Bytes(4) /\ g[k] \in Bytes(4)
  <2>1. PICK w \in Bytes(4), v \in Bytes(4) : w = s[k] /\ v = rk[4 * r + k]
    <3>1. 4 * r + k \in 1 .. m
      OBVIOUS
    <3> QED
      BY <3>1, FourWords, EntriesHave
  <2>2. f[k] = XorBytes[Uncolumns(w)][v] /\ g[k] = XorBytes[w][v]
    BY <1>1, <1>2, <1>4, <1>5, <2>1, InverseUndoes
  <2>3. Uncolumns(w) \in Bytes(4)
    BY PartsAre
  <2> QED
    BY <2>2, <2>3, WordXor
<1>7. f \in Entries(4)
  BY <1>3, <1>6, EntriesMade
<1>8. g \in Entries(4)
  BY <1>3, <1>6, EntriesMade
<1> QED
  BY <1>1, <1>2, <1>4, <1>5, <1>7, <1>8

(* The rounds of encryption, ... *)
Enciphers(v, in, rk, R) ==
  /\ v[0] = Started(in, rk)
  /\ \A r \in 0 .. R - 1 : v[r] \in Entries(4)
  /\ \A r \in 1 .. R - 1 : v[r] = Round(v[r - 1], rk, r)

LEMMA EncryptRuns ==
  ASSUME NEW in \in Bytes(16), NEW key \in AesKeys, NEW R, R = key.rounds, NEW rk, rk = key.rd_key
  PROVE  \E v : Enciphers(v, in, rk, R) /\ AES_encrypt[in][key] = PUTU32(LastRound(v[R - 1], rk, R))
<1>1. key \in KeySchedules /\ R \in Nat /\ R >= 10
  BY DEF AesKeys, KeySchedules
<1>2. PICK m \in Nat : m = 4 * (R + 1) /\ rk \in Entries(m)
  BY <1>1 DEF AesKeys
<1>3. in \in Seq(Nat)
  BY BytesHave
<1> DEFINE step == [t \in Seq(Seq(Nat)) |-> [r \in Nat |-> Round(t, rk, r)]]
           f == [r \in 1 .. R - 1 |-> r]
<1>4. f \in Seq(1 .. R - 1) /\ Len(f) = R - 1 /\ \A r \in 1 .. R - 1 : f[r] = r
  BY <1>1
<1>5. PICK first : first = Started(in, rk)
  OBVIOUS
<1>6. ASSUME NEW s
      PROVE  s = Along(step, first, f) => AES_encrypt[in][key] = PUTU32(LastRound(s, rk, R))
  BY <1>1, <1>3, <1>5 DEF AES_encrypt
<1>7. ASSUME NEW x \in Entries(4), NEW r \in 1 .. R - 1
      PROVE  step[x][r] = Round(x, rk, r) /\ Round(x, rk, r) \in Entries(4)
  <2>1. x \in Seq(Seq(Nat)) /\ r \in Nat
    BY EntriesHave
  <2>2. step[x][r] = Round(x, rk, r)
    BY <2>1
  <2>3. 4 * r + 4 <= m
    BY <1>1, <1>2
  <2> HIDE DEF step
  <2> QED
    BY <1>2, <2>1, <2>2, <2>3, AesRoundIs
<1> HIDE DEF step, f
<1>8. PICK v : Follows(v, step, first, f, Len(f)) /\ Along(step, first, f) = v[Len(f)]
  BY <1>4, AlongHas
<1>9. first \in Entries(4)
  <2>1. m >= 4
    BY <1>1, <1>2
  <2> QED
    BY <1>2, <1>5, <2>1, StartedIs
<1>10. v[0] = first /\ \A r \in 1 .. R - 1 : v[r] = step[v[r - 1]][r]
  BY <1>4, <1>8 DEF Follows
<1> DEFINE T == {r \in 0 .. R - 1 : v[r] \in Entries(4)}
<1>11. 0 .. R - 1 \subseteq T
  <2>1. R - 1 \in Nat /\ 0 \in T
    BY <1>1, <1>9, <1>10
  <2>2. \A r \in 1 .. R - 1 : r - 1 \in T => r \in T
    BY <1>7, <1>10
  <2> HIDE DEF T
  <2> QED
    BY <2>1, <2>2, InductionTo
<1>12. \A r \in 0 .. R - 1 : v[r] \in Entries(4)
  BY <1>11
<1>13. ASSUME NEW r \in 1 .. R - 1
       PROVE  v[r] = Round(v[r - 1], rk, r)
  <2>1. r - 1 \in 0 .. R - 1
    BY <1>1
  <2> QED
    BY <1>7, <1>10, <1>12, <2>1
<1>14. AES_encrypt[in][key] = PUTU32(LastRound(v[R - 1], rk, R))
  BY <1>4, <1>6, <1>8
<1> QED
  BY <1>5, <1>10, <1>12, <1>13, <1>14 DEF Enciphers

(* ... and of decryption. *)
LEMMA DecryptRuns ==
  ASSUME NEW in \in Bytes(16), NEW key \in KeySchedules, NEW R, R = key.rounds, NEW rk, rk = key.rd_key,
         NEW w, w[0] = Started(in, rk), \A r \in 0 .. R - 1 : w[r] \in Entries(4),
         \A r \in 1 .. R - 1 : w[r] = InverseRound(w[r - 1], rk, r)
  PROVE  AES_decrypt[in][key] = PUTU32(InverseLastRound(w[R - 1], rk, R))
<1>1. R \in Nat /\ R >= 10
  BY DEF KeySchedules
<1>2. in \in Seq(Nat)
  BY BytesHave
<1> DEFINE step == [t \in Seq(Seq(Nat)) |-> [r \in Nat |-> InverseRound(t, rk, r)]]
           f == [r \in 1 .. R - 1 |-> r]
<1>3. f \in Seq(1 .. R - 1) /\ Len(f) = R - 1 /\ \A r \in 1 .. R - 1 : f[r] = r
  BY <1>1
<1>4. PICK first : first = Started(in, rk)
  OBVIOUS
<1>5. ASSUME NEW s
      PROVE  s = Along(step, first, f) => AES_decrypt[in][key] = PUTU32(InverseLastRound(s, rk, R))
  BY <1>1, <1>2, <1>4 DEF AES_decrypt
<1>6. ASSUME NEW r \in 1 .. R - 1
      PROVE  step[w[r - 1]][r] = w[r]
  <2>1. r - 1 \in 0 .. R - 1 /\ r \in Nat
    BY <1>1
  <2>2. w[r - 1] \in Seq(Seq(Nat))
    BY <2>1, EntriesHave
  <2>3. step[w[r - 1]][r] = InverseRound(w[r - 1], rk, r)
    BY <2>1, <2>2
  <2> QED
    BY <2>3
<1> HIDE DEF step, f
<1>7. Follows(w, step, first, f, Len(f))
  BY <1>3, <1>4, <1>6 DEF Follows
<1>8. Along(step, first, f) = w[Len(f)]
  BY <1>3, <1>7, AlongIs
<1> QED
  BY <1>3, <1>5, <1>8

(* AES_decrypt under the inverted key schedule takes back AES_encrypt, for *)
(* every block, every key and each of the three numbers of rounds: after j *)
(* rounds it has what the round R - j of encryption looked up.             *)
THEOREM BlockInverts ==
  ASSUME NEW in \in Bytes(16), NEW key \in AesKeys
  PROVE  AES_encrypt[in][key] \in Bytes(16) /\ AES_decrypt[AES_encrypt[in][key]][Inverted[key]] = in
<1>1. PICK R, rk : R = key.rounds /\ rk = key.rd_key
  OBVIOUS
<1>2. R \in Nat /\ R >= 10 /\ key \in KeySchedules
  BY <1>1 DEF AesKeys, KeySchedules
<1>3. PICK m \in Nat : m = 4 * (R + 1) /\ rk \in Entries(m)
  BY <1>1, <1>2 DEF AesKeys
<1>4. PICK inv, rk2 : /\ inv = Inverted[key] /\ inv \in KeySchedules /\ inv.rounds = R
                      /\ rk2 = inv.rd_key /\ rk2 \in Entries(m)
                      /\ \A r \in 0 .. R : \A k \in 1 .. 4 : rk2[4 * r + k] = InverseWord(rk, R, r, k)
  BY <1>1, <1>3, InvertedIs
<1>5. PICK v : Enciphers(v, in, rk, R) /\ AES_encrypt[in][key] = PUTU32(LastRound(v[R - 1], rk, R))
  BY <1>1, EncryptRuns
<1>6. /\ v[0] = Started(in, rk)
      /\ \A r \in 0 .. R - 1 : v[r] \in Entries(4)
      /\ \A r \in 1 .. R - 1 : v[r] = Round(v[r - 1], rk, r)
  BY <1>5 DEF Enciphers
<1>7. \A r \in 0 .. R : \A k \in 1 .. 4 : rk[4 * r + k] \in Bytes(4)
  <2> SUFFICES ASSUME NEW r \in 0 .. R, NEW k \in 1 .. 4
               PROVE  rk[4 * r + k] \in Bytes(4)
    OBVIOUS
  <2>1. 4 * r + k \in 1 .. m
    BY <1>2, <1>3
  <2> QED
    BY <1>3, <2>1, EntriesHave
<1> DEFINE w == [j \in 0 .. R - 1 |-> Shifted(v[(R - 1) - j])]
<1>8. \A j \in 0 .. R - 1 : w[j] = Shifted(v[(R - 1) - j]) /\ (R - 1) - j \in 0 .. R - 1
  BY <1>2
<1> HIDE DEF w
<1>9. \A j \in 0 .. R - 1 : w[j] \in Entries(4)
  BY <1>6, <1>8, ShiftedIs
<1>10. PICK s \in Entries(4) : s = v[R - 1]
  <2>1. R - 1 \in 0 .. R - 1
    BY <1>2
  <2> QED
    BY <1>6, <2>1
<1>11. PICK last \in Entries(4), cph \in Bytes(16) : last = LastRound(s, rk, R) /\ cph = PUTU32(last) /\ cph = AES_encrypt[in][key]
  <2>1. 4 * R + 4 <= m
    BY <1>2, <1>3
  <2>2. LastRound(s, rk, R) \in Entries(4)
    BY <1>2, <1>3, <2>1, AesRoundIs
  <2>3. PUTU32(LastRound(s, rk, R)) \in Bytes(16)
    BY <2>2, PutBytes
  <2> QED
    BY <1>5, <1>10, <2>2, <2>3
<1>12. w[0] = Started(cph, rk2)
  <2>1. w[0] = Shifted(s) /\ Shifted(s) \in Entries(4)
    <3>1. 0 \in 0 .. R - 1 /\ (R - 1) - 0 = R - 1
      BY <1>2
    <3> QED
      BY <1>8, <1>10, <3>1, ShiftedIs
  <2>2. Started(cph, rk2) \in Entries(4)
    <3>1. m >= 4
      BY <1>2, <1>3
    <3> QED
      BY <1>3, <1>4, <3>1, StartedIs
  <2>3. ASSUME NEW k \in 1 .. 4
        PROVE  Started(cph, rk2)[k] = Shifted(s)[k]
    <3>1. PICK x \in Bytes(4), y \in Bytes(4) : x = Shifted(s)[k] /\ y = rk[4 * R + k]
      <4>1. R \in 0 .. R
        BY <1>2
      <4> QED
        BY <1>7, <2>1, <4>1, FourWords
    <3>2. last[k] = XorBytes[x][y]
      BY <1>2, <1>11, <3>1, RoundMixes
    <3>3. WordAt(cph, k) = last[k]
      BY <1>11, PutGet
    <3>4. rk2[k] = y
      <4>1. 0 \in 0 .. R /\ 4 * 0 + k = k /\ 4 * (R - 0) + k = 4 * R + k /\ 0 \notin 1 .. R - 1
        BY <1>2
      <4>2. rk2[4 * 0 + k] = InverseWord(rk, R, 0, k)
        BY <1>4, <4>1
      <4>3. InverseWord(rk, R, 0, k) = rk[4 * R + k]
        BY <4>1 DEF InverseWord
      <4> QED
        BY <3>1, <4>1, <4>2, <4>3
    <3>5. Started(cph, rk2)[k] = XorBytes[XorBytes[x][y]][y]
      BY <3>2, <3>3, <3>4, StartedWords
    <3> QED
      BY <3>1, <3>5, WordCancel
  <2> QED
    BY <2>1, <2>2, <2>3, StatesEqual
<1>13. ASSUME NEW j \in 1 .. R - 1
       PROVE  w[j] = InverseRound(w[j - 1], rk2, j)
  <2>1. PICK n \in 1 .. R - 1 : n = R - j /\ (R - 1) - (j - 1) = n /\ (R - 1) - j = n - 1 /\ n - 1 \in 0 .. R - 1 /\ n \in 0 .. R - 1 /\ n \in 0 .. R
    BY <1>2
  <2>2. PICK x \in Entries(4), y \in Entries(4) : x = v[n] /\ y = v[n - 1] /\ x = Round(y, rk, n)
    BY <1>6, <2>1
  <2>3. w[j - 1] = Shifted(x) /\ w[j] = Shifted(y) /\ Shifted(y) \in Entries(4)
    <3>1. j - 1 \in 0 .. R - 1 /\ j \in 0 .. R - 1
      BY <1>2
    <3>2. w[j - 1] = Shifted(v[n]) /\ w[j] = Shifted(v[n - 1])
      BY <1>8, <2>1, <3>1
    <3>3. Shifted(y) \in Entries(4)
      BY ShiftedIs
    <3> QED
      BY <2>2, <3>2, <3>3
  <2>4. PICK z \in Entries(4) : z = InverseRound(Shifted(x), rk2, j)
    <3>1. j \in Nat /\ 4 * j + 4 <= m
      BY <1>2, <1>3
    <3> QED
      BY <1>3, <1>4, <3>1, InverseAre
  <2>5. ASSUME NEW k \in 1 .. 4
        PROVE  z[k] = Shifted(y)[k]
    <3>1. PICK p \in Bytes(4), q \in Bytes(4) : p = Shifted(y)[k] /\ q = rk[4 * n + k]
      BY <1>7, <2>1, <2>3, FourWords
    <3>2. x[k] = XorBytes[MixWord(p)][q]
      <4>1. n \in Nat
        BY <2>1
      <4> QED
        BY <2>2, <3>1, <4>1, RoundMixes
    <3>3. MixWord(p) \in Bytes(4) /\ Uncolumns(MixWord(p)) = p
      BY MixWordUndone
    <3>4. Uncolumns(x[k]) = XorBytes[p][Uncolumns(q)]
      BY <3>2, <3>3, UncolumnsAdd
    <3>5. rk2[4 * j + k] = Uncolumns(q)
      <4>1. j \in 0 .. R /\ j \in 1 .. R - 1 /\ R - j = n
        BY <1>2, <2>1
      <4>2. rk2[4 * j + k] = InverseWord(rk, R, j, k)
        BY <1>4, <4>1
      <4>3. InverseWord(rk, R, j, k) = Uncolumns(rk[4 * n + k])
        BY <4>1 DEF InverseWord
      <4> QED
        BY <3>1, <4>2, <4>3
    <3>6. z[k] = XorBytes[XorBytes[p][Uncolumns(q)]][Uncolumns(q)]
      <4>1. j \in Nat
        OBVIOUS
      <4> QED
        BY <2>4, <3>4, <3>5, <4>1, InverseUndoes
    <3>7. Uncolumns(q) \in Bytes(4)
      BY PartsAre
    <3> QED
      BY <3>1, <3>6, <3>7, WordCancel
  <2> QED
    BY <2>3, <2>4, <2>5, StatesEqual
<1>14. PICK t \in Entries(4) : t = v[0] /\ w[R - 1] = Shifted(t)
  <2>1. R - 1 \in 0 .. R - 1 /\ (R - 1) - (R - 1) = 0 /\ 0 \in 0 .. R - 1
    BY <1>2
  <2> QED
    BY <1>6, <1>8, <2>1
<1>15. AES_decrypt[cph][inv] = PUTU32(InverseLastRound(Shifted(t), rk2, R))
  BY <1>4, <1>9, <1>12, <1>13, <1>14, DecryptRuns
<1>16. PICK z \in Entries(4) : z = InverseLastRound(Shifted(t), rk2, R)
  <2>1. 4 * R + 4 <= m
    BY <1>2, <1>3
  <2> QED
    BY <1>2, <1>3, <1>4, <2>1, InverseAre
<1>17. ASSUME NEW k \in 1 .. 4
       PROVE  z[k] = WordAt(in, k)
  <2>1. PICK p \in Bytes(4), q \in Bytes(4) : p = WordAt(in, k) /\ q = rk[4 * 0 + k] /\ q = rk[k]
    <3>1. 0 \in 0 .. R /\ 4 * 0 + k = k
      BY <1>2
    <3> QED
      BY <1>7, <3>1, WordAtIs
  <2>2. t[k] = XorBytes[p][q]
    BY <1>6, <1>14, <2>1, StartedWords
  <2>3. rk2[4 * R + k] = q
    <3>1. R \in 0 .. R /\ R - R = 0 /\ R \notin 1 .. R - 1
      BY <1>2
    <3>2. rk2[4 * R + k] = InverseWord(rk, R, R, k)
      BY <1>4, <3>1
    <3>3. InverseWord(rk, R, R, k) = rk[4 * 0 + k]
      BY <3>1 DEF InverseWord
    <3> QED
      BY <2>1, <3>2, <3>3
  <2>4. z[k] = XorBytes[XorBytes[p][q]][q]
    BY <1>2, <1>16, <2>2, <2>3, InverseUndoes
  <2> QED
    BY <2>1, <2>4, WordCancel
<1>18. PUTU32(z) = in
  BY <1>17, GetPut
<1> QED
  BY <1>4, <1>11, <1>15, <1>16, <1>18

-----------------------------------------------------------------------------
(* CBC on the host: where the blocks of n bytes begin. *)
LEMMA HostStarts ==
  ASSUME NEW s, NEW n \in Nat, n = Len(s), NEW q, q = Blocks(16, n)
  PROVE  /\ q \in Nat /\ n <= 16 * q /\ 16 * q < n + 16
         /\ BlockStarts(s, 16) \in Seq(Nat) /\ Len(BlockStarts(s, 16)) = q
         /\ \A j \in 1 .. q : BlockStarts(s, 16)[j] = 16 * (j - 1)
<1>1. q \in Nat /\ n <= 16 * q /\ 16 * q < n + 16
  BY Blocks16
<1>2. PICK f : f = BlockStarts(s, 16)
  OBVIOUS
<1>3. f = [j \in 1 .. q |-> 16 * (j - 1)]
  BY <1>2 DEF BlockStarts, Blocks
<1>4. \A j \in 1 .. q : 16 * (j - 1) \in Nat
  BY <1>1
<1>5. f \in Seq(Nat) /\ Len(f) = q /\ \A j \in 1 .. q : f[j] = 16 * (j - 1)
  BY <1>1, <1>3, <1>4
<1> QED
  BY <1>1, <1>2, <1>5

(* The chaining blocks c of an encryption and its output o, block by block. *)
CbcStep(c, o, key, in, j) ==
  /\ c[j] = CbcBlock("aes", key, in, 16 * (j - 1), c[j - 1])
  /\ o[j] = o[j - 1] \o c[j]
IsCbc(c, o, key, in, iv, q) ==
  /\ c[0] = iv /\ o[0] = <<>>
  /\ \A j \in 0 .. q : c[j] \in Bytes(16) /\ o[j] \in Bytes(16 * j)
  /\ \A j \in 1 .. q : CbcStep(c, o, key, in, j)

(* One more block of output. *)
LEMMA OutputGrows ==
  ASSUME NEW j \in Nat, NEW x \in Bytes(16 * j), NEW b \in Bytes(16)
  PROVE  x \o b \in Bytes(16 * (j + 1))
<1>1. x \in Seq(Byte) /\ b \in Seq(Byte) /\ Len(x) = 16 * j /\ Len(b) = 16
  BY DEF Bytes
<1>2. x \o b \in Seq(Byte) /\ Len(x \o b) = 16 * j + 16
  BY <1>1, TwoParts
<1> QED
  BY <1>2 DEF Bytes

(* AES_cbc_encrypt block by block. *)
LEMMA CbcRuns ==
  ASSUME NEW key \in AesKeys, NEW iv \in Bytes(16), NEW in \in Seq(Byte), NEW q, q = Blocks(16, Len(in))
  PROVE  \E c, o : IsCbc(c, o, key, in, iv, q) /\ AES_cbc_encrypt(in, key, iv) = <<o[q], c[q]>>
<1>1. PICK f : /\ f = BlockStarts(in, 16) /\ f \in Seq(Nat) /\ Len(f) = q /\ q \in Nat
               /\ \A j \in 1 .. q : f[j] = 16 * (j - 1)
  BY HostStarts
<1> DEFINE block(t, from) == CbcBlock("aes", key, in, from, t[2])
           step == [t \in Seq(Nat) \X Seq(Nat) |-> [from \in Nat |-> <<t[1] \o block(t, from), block(t, from)>>]]
<1>2. PICK first : first = << <<>>, iv>>
  OBVIOUS
<1>3. AES_cbc_encrypt(in, key, iv) = Along(step, first, f)
  BY <1>1, <1>2 DEF AES_cbc_encrypt
<1>4. ASSUME NEW x \in Seq(Nat), NEW y \in Seq(Nat), NEW from \in Nat, NEW b, b = CbcBlock("aes", key, in, from, y)
      PROVE  step[<<x, y>>][from] = <<x \o b, b>>
  BY <1>4
<1> HIDE DEF step
<1>5. PICK z : Follows(z, step, first, f, Len(f)) /\ Along(step, first, f) = z[Len(f)]
  BY <1>1, AlongHas
<1>6. z[0] = first /\ \A j \in 1 .. q : z[j] = step[z[j - 1]][16 * (j - 1)]
  BY <1>1, <1>5 DEF Follows
<1> DEFINE Fine(j) == \E x \in Bytes(16 * j), y \in Bytes(16) : z[j] = <<x, y>>
           T == {j \in 0 .. q : Fine(j)}
<1>7. ASSUME NEW j \in 1 .. q, NEW x \in Bytes(16 * (j - 1)), NEW y \in Bytes(16), z[j - 1] = <<x, y>>,
             NEW b, b = CbcBlock("aes", key, in, 16 * (j - 1), y)
      PROVE  z[j] = <<x \o b, b>> /\ b \in Bytes(16) /\ x \o b \in Bytes(16 * j)
  <2>1. PICK i \in Nat : i = j - 1 /\ j = i + 1 /\ 16 * i \in Nat
    BY <1>1
  <2>2. x \in Seq(Nat) /\ y \in Seq(Nat)
    BY <2>1, BytesHave
  <2>3. z[j] = <<x \o b, b>>
    <3>1. PICK n \in Nat : n = 16 * (j - 1)
      BY <2>1
    <3>2. step[<<x, y>>][n] = <<x \o b, b>>
      <4>1. b = CbcBlock("aes", key, in, n, y)
        BY <1>7, <3>1
      <4> QED
        BY <1>4, <2>2, <4>1
    <3>3. z[j] = step[z[j - 1]][n]
      BY <1>6, <3>1
    <3> QED
      BY <1>7, <3>2, <3>3
  <2>4. b \in Bytes(16)
    <3>1. "aes" \in CbcModes /\ CipherBlock("aes") = 16
      BY DEF CbcModes, CipherBlock
    <3> QED
      BY <1>7, <2>1, <3>1, CbcBlockIs
  <2>5. x \o b \in Bytes(16 * j)
    BY <2>1, <2>4, OutputGrows
  <2> QED
    BY <2>3, <2>4, <2>5
<1>8. 0 .. q \subseteq T
  <2>1. 0 \in T
    <3>1. <<>> \in Bytes(16 * 0)
      BY DEF Bytes
    <3> QED
      BY <1>1, <1>2, <1>6, <3>1
  <2>2. \A j \in 1 .. q : j - 1 \in T => j \in T
    <3> SUFFICES ASSUME NEW j \in 1 .. q, Fine(j - 1)
                 PROVE  Fine(j)
      <4> HIDE DEF Fine
      <4> QED
        OBVIOUS
    <3>1. PICK x \in Bytes(16 * (j - 1)), y \in Bytes(16) : z[j - 1] = <<x, y>>
      OBVIOUS
    <3>2. PICK b : b = CbcBlock("aes", key, in, 16 * (j - 1), y)
      OBVIOUS
    <3>3. z[j] = <<x \o b, b>> /\ b \in Bytes(16) /\ x \o b \in Bytes(16 * j)
      BY <1>7, <3>1, <3>2
    <3> QED
      BY <3>3
  <2> HIDE DEF T
  <2> QED
    BY <1>1, <2>1, <2>2, InductionTo
<1> DEFINE c == [j \in 0 .. q |-> z[j][2]]
           o == [j \in 0 .. q |-> z[j][1]]
<1>9. \A j \in 0 .. q : c[j] = z[j][2] /\ o[j] = z[j][1]
  OBVIOUS
<1> HIDE DEF c, o
<1>10. ASSUME NEW j \in 0 .. q
       PROVE  z[j] = <<o[j], c[j]>> /\ c[j] \in Bytes(16) /\ o[j] \in Bytes(16 * j)
  <2>1. PICK x \in Bytes(16 * j), y \in Bytes(16) : z[j] = <<x, y>>
    BY <1>8
  <2> QED
    BY <1>9, <2>1
<1>11. ASSUME NEW j \in 1 .. q
       PROVE  CbcStep(c, o, key, in, j)
  <2>1. PICK i \in 0 .. q : i = j - 1
    BY <1>1
  <2>2. PICK b : b = CbcBlock("aes", key, in, 16 * (j - 1), c[j - 1])
    OBVIOUS
  <2>3. z[j - 1] = <<o[j - 1], c[j - 1]>> /\ c[j - 1] \in Bytes(16) /\ o[j - 1] \in Bytes(16 * (j - 1))
    BY <1>10, <2>1
  <2>4. PICK x \in Bytes(16 * (j - 1)), y \in Bytes(16) : x = o[j - 1] /\ y = c[j - 1]
    BY <2>3
  <2>5. z[j] = <<x \o b, b>>
    <3>1. z[j - 1] = <<x, y>>
      BY <2>3, <2>4
    <3>2. b = CbcBlock("aes", key, in, 16 * (j - 1), y)
      BY <2>2, <2>4
    <3> QED
      BY <1>7, <3>1, <3>2
  <2>6. z[j] = <<o[j], c[j]>>
    <3>1. j \in 0 .. q
      OBVIOUS
    <3> QED
      BY <1>10, <3>1
  <2>7. o[j] = x \o b /\ c[j] = b
    BY <2>5, <2>6
  <2> QED
    BY <2>2, <2>4, <2>7 DEF CbcStep
<1>12. c[0] = iv /\ o[0] = <<>>
  BY <1>1, <1>2, <1>6, <1>9
<1>13. IsCbc(c, o, key, in, iv, q)
  BY <1>10, <1>11, <1>12 DEF IsCbc
<1>14. AES_cbc_encrypt(in, key, iv) = <<o[q], c[q]>>
  <2>1. q \in 0 .. q /\ AES_cbc_encrypt(in, key, iv) = z[q]
    BY <1>1, <1>3, <1>5
  <2> QED
    BY <1>10, <2>1
<1> QED
  BY <1>13, <1>14

(* Where block j lies in the output. *)
LEMMA CbcPart ==
  ASSUME NEW key, NEW iv, NEW in, NEW q \in Nat, NEW c, NEW o, IsCbc(c, o, key, in, iv, q), NEW j \in 1 .. q,
         NEW from, from = 16 * (j - 1)
  PROVE  Part(o[q], from, from + 16) = c[j]
<1>1. PICK i \in Nat : i = 16 * (j - 1) /\ i + 16 = 16 * j /\ 16 * j <= 16 * q
  OBVIOUS
<1>2. c[j] \in Seq(Byte) /\ Len(c[j]) = 16
  BY DEF IsCbc, Bytes
<1> DEFINE There(n) == \A b \in 1 .. 16 : o[n][i + b] = c[j][b]
           T == {k \in 0 .. q - j : There(j + k)}
<1>3. There(j)
  <2>1. PICK x, y : x = o[j - 1] /\ y = c[j] /\ o[j] = x \o y
    BY DEF IsCbc, CbcStep
  <2>2. x \in Seq(Byte) /\ Len(x) = i /\ y \in Seq(Byte) /\ Len(y) = 16
    <3>1. j - 1 \in 0 .. q
      OBVIOUS
    <3>2. x \in Bytes(16 * (j - 1))
      BY <2>1, <3>1 DEF IsCbc
    <3> QED
      BY <1>1, <1>2, <2>1, <3>2 DEF Bytes
  <2>3. IsJoin(x \o y, Byte, x, y)
    BY <2>2, JoinIs
  <2> QED
    BY <2>1, <2>2, <2>3 DEF IsJoin
<1>4. ASSUME NEW n \in j + 1 .. q, There(n - 1)
      PROVE  There(n)
  <2>1. n \in 1 .. q /\ n - 1 \in 0 .. q
    OBVIOUS
  <2>2. PICK x, y : x = o[n - 1] /\ y = c[n] /\ o[n] = x \o y
    BY <2>1 DEF IsCbc, CbcStep
  <2>3. x \in Seq(Byte) /\ Len(x) = 16 * (n - 1) /\ y \in Seq(Byte)
    <3>1. x \in Bytes(16 * (n - 1)) /\ y \in Bytes(16)
      BY <2>1, <2>2 DEF IsCbc
    <3> QED
      BY <3>1 DEF Bytes
  <2>4. IsJoin(x \o y, Byte, x, y)
    BY <2>3, JoinIs
  <2>5. \A b \in 1 .. 16 : i + b \in 1 .. Len(x)
    BY <1>1, <2>3
  <2> QED
    BY <1>4, <2>2, <2>4, <2>5 DEF IsJoin
<1>5. There(q)
  <2>1. q - j \in Nat
    OBVIOUS
  <2>2. 0 \in T
    <3>1. j + 0 = j
      OBVIOUS
    <3> QED
      BY <1>3, <2>1, <3>1
  <2>3. \A k \in 1 .. q - j : k - 1 \in T => k \in T
    <3> SUFFICES ASSUME NEW k \in 1 .. q - j, There(j + (k - 1))
                 PROVE  There(j + k)
      OBVIOUS
    <3>1. j + k \in j + 1 .. q /\ (j + k) - 1 = j + (k - 1)
      OBVIOUS
    <3> HIDE DEF There
    <3> QED
      BY <1>4, <3>1
  <2>4. 0 .. q - j \subseteq T
    <3> HIDE DEF T
    <3> QED
      BY <2>1, <2>2, <2>3, InductionTo
  <2>5. q - j \in 0 .. q - j /\ j + (q - j) = q
    OBVIOUS
  <2> HIDE DEF There
  <2> QED
    BY <2>4, <2>5
<1>6. PICK p : p = Part(o[q], i, i + 16)
  OBVIOUS
<1>7. p \in Seq(Byte) /\ Len(p) = 16 /\ \A b \in 1 .. 16 : p[b] = o[q][i + b]
  <2>1. PICK x : x = o[q] /\ x \in Seq(Byte) /\ Len(x) = 16 * q
    BY DEF IsCbc, Bytes
  <2>2. i <= i + 16 /\ i + 16 <= Len(x) /\ (i + 16) - i = 16 /\ i + 16 \in Nat
    BY <1>1, <2>1
  <2>3. IsPart(p, Byte, x, i, i + 16)
    BY <1>6, <2>1, <2>2, PartIs
  <2> QED
    BY <2>1, <2>2, <2>3 DEF IsPart
<1>8. p = c[j]
  <2>1. PICK x : x = c[j]
    OBVIOUS
  <2>2. x \in Seq(Byte) /\ Len(x) = 16 /\ \A b \in 1 .. 16 : p[b] = x[b]
    BY <1>2, <1>5, <1>7, <2>1
  <2> HIDE DEF There, T
  <2>3. p = x
    BY <1>7, <2>2, SameSeq
  <2> QED
    BY <2>1, <2>3
<1> QED
  BY <1>1, <1>6, <1>8

(* A block's input bytes mixed with the chaining block, with it again: the *)
(* next bytes of the input.                                                *)
LEMMA Unmixing ==
  ASSUME NEW in \in Seq(Byte), NEW d \in Nat, d < Len(in), NEW iv \in Bytes(16),
         NEW m, m = IF Len(in) - d < 16 THEN Len(in) - d ELSE 16
  PROVE  Part(XorBytes[Mixed(in, d, iv)][iv], 0, m) = Part(in, d, d + m)
<1>1. Len(in) \in Nat /\ m \in 1 .. 16 /\ d + m <= Len(in) /\ (d + m) - d = m /\ d <= d + m /\ d + m \in Nat
  <2>1. PICK n \in Nat : n = Len(in) /\ d < n
    BY BytesIs
  <2>2. m = IF n - d < 16 THEN n - d ELSE 16
    BY <2>1
  <2>3. m \in 1 .. 16 /\ d + m <= n /\ m \in Nat
    BY <2>1, <2>2
  <2> QED
    BY <2>1, <2>3
<1>2. PICK x \in Bytes(16) : x = Mixed(in, d, iv) /\ \A i \in 1 .. 16 : x[i] = MixedByte(in, d, iv, i)
  <2>1. PICK n \in Nat : n = 16
    OBVIOUS
  <2>2. Mixed(in, d, iv) \in Bytes(n) /\ \A i \in 1 .. n : Mixed(in, d, iv)[i] = MixedByte(in, d, iv, i)
    BY <2>1, MixedIs
  <2> QED
    BY <2>1, <2>2
<1>3. PICK y \in Bytes(16) : y = XorBytes[x][iv] /\ \A i \in 1 .. 16 : y[i] = XorByte(x[i], iv[i])
  BY StringXor
<1>4. ASSUME NEW i \in 1 .. m
      PROVE  y[i] = in[d + i]
  <2>1. i \in 1 .. 16 /\ d + i <= Len(in) /\ d + i \in 1 .. Len(in)
    BY <1>1
  <2>2. in[d + i] \in Byte /\ iv[i] \in Byte
    BY <2>1, BytesIs, BytesHave
  <2>3. x[i] = XorByte(in[d + i], iv[i])
    BY <1>2, <2>1 DEF MixedByte
  <2> QED
    BY <1>3, <2>1, <2>2, <2>3, ByteCancel
<1>5. PICK u, v : u = Part(y, 0, m) /\ v = Part(in, d, d + m)
  OBVIOUS
<1>6. u \in Seq(Byte) /\ Len(u) = m /\ \A i \in 1 .. m : u[i] = y[i]
  <2>1. y \in Seq(Byte) /\ Len(y) = 16
    BY DEF Bytes
  <2>2. PICK z : z = 0 /\ z \in Nat /\ z <= m /\ m <= Len(y) /\ m - z = m /\ m \in Nat
    BY <1>1, <2>1
  <2>3. IsPart(u, Byte, y, z, m)
    BY <1>5, <2>1, <2>2, PartIs
  <2>4. \A i \in 1 .. m : z + i = i
    BY <2>2
  <2> QED
    BY <2>2, <2>3, <2>4 DEF IsPart
<1>7. v \in Seq(Byte) /\ Len(v) = m /\ \A i \in 1 .. m : v[i] = in[d + i]
  <2>1. IsPart(v, Byte, in, d, d + m)
    BY <1>1, <1>5, PartIs
  <2> QED
    BY <1>1, <2>1 DEF IsPart
<1>8. u = v
  <2>1. Len(u) = Len(v) /\ \A i \in 1 .. Len(u) : u[i] = v[i]
    BY <1>4, <1>6, <1>7
  <2> QED
    BY <1>6, <1>7, <2>1, SameSeq
<1> QED
  BY <1>2, <1>3, <1>5, <1>8

(* How much of n bytes j blocks hold. *)
Held(n, j) == IF n < 16 * j THEN n ELSE 16 * j

(* CRYPTO_cbc128_decrypt of what AES_cbc_encrypt gives, block by block. *)
LEMMA CbcInverts ==
  ASSUME NEW key \in AesKeys, NEW iv \in Bytes(16), NEW in \in Seq(Byte),
         NEW there, there = AES_cbc_encrypt(in, key, iv),
         NEW back, back = CRYPTO_cbc128_decrypt(there[1], Len(in), Inverted[key], iv)
  PROVE  back[1] = in /\ back[2] = there[2]
<1>1. PICK n, q : n \in Nat /\ n = Len(in) /\ q = Blocks(16, n)
  OBVIOUS
<1>2. q \in Nat /\ n \in Nat /\ n <= 16 * q /\ 16 * q < n + 16
  BY <1>1, Blocks16
<1>3. PICK c, o : IsCbc(c, o, key, in, iv, q) /\ there = <<o[q], c[q]>>
  BY <1>1, CbcRuns
<1>4. PICK text, inv : text = o[q] /\ text = there[1] /\ inv = Inverted[key] /\ text \in Seq(Byte) /\ Len(text) = 16 * q
  BY <1>2, <1>3 DEF IsCbc, Bytes
<1>5. PICK f : /\ f = BlockStarts(SubSeq(text, 1, n), 16) /\ f \in Seq(Nat) /\ Len(f) = q
               /\ \A j \in 1 .. q : f[j] = 16 * (j - 1)
  <2>1. PICK s : s = SubSeq(text, 1, n)
    OBVIOUS
  <2>2. s = Part(text, 0, n)
    BY <2>1 DEF Part
  <2>3. Len(s) = n
    <3>1. PICK z : z = 0 /\ z \in Nat /\ z <= n /\ n <= Len(text) /\ n - z = n
      BY <1>2, <1>4
    <3>2. IsPart(s, Byte, text, z, n)
      BY <1>1, <1>4, <2>2, <3>1, PartIs
    <3> QED
      BY <3>1, <3>2 DEF IsPart
  <2>4. n \in Nat /\ n = Len(s) /\ q = Blocks(16, n)
    BY <1>1, <2>3
  <2>5. /\ BlockStarts(s, 16) \in Seq(Nat) /\ Len(BlockStarts(s, 16)) = q
        /\ \A j \in 1 .. q : BlockStarts(s, 16)[j] = 16 * (j - 1)
    BY <2>4, HostStarts
  <2> QED
    BY <2>1, <2>5
<1> DEFINE block(from) == SubSeq(text, from + 1, from + 16)
           plain(t, from) == SubSeq(XorBytes[AES_decrypt[block(from)][inv]][t[2]], 1, IF n - from < 16 THEN n - from ELSE 16)
           step == [t \in Seq(Nat) \X Seq(Nat) |-> [from \in Nat |-> <<t[1] \o plain(t, from), block(from)>>]]
<1>6. PICK first : first = << <<>>, iv>>
  OBVIOUS
<1>7. back = Along(step, first, f)
  BY <1>1, <1>4, <1>5, <1>6 DEF CRYPTO_cbc128_decrypt
<1> HIDE DEF block, plain, step
<1> DEFINE z == [j \in 0 .. q |-> <<Part(in, 0, Held(n, j)), c[j]>>]
<1>8. \A j \in 0 .. q : z[j] = <<Part(in, 0, Held(n, j)), c[j]>>
  OBVIOUS
<1> HIDE DEF z
<1>9. ASSUME NEW j \in 1 .. q
       PROVE  z[j] = step[z[j - 1]][f[j]]
  <2>1. PICK from \in Nat : from = 16 * (j - 1) /\ from + 16 = 16 * j /\ from < n
    BY <1>2
  <2>2. PICK y \in Bytes(16), b \in Bytes(16) : y = c[j - 1] /\ b = c[j] /\ b = CbcBlock("aes", key, in, from, y)
    <3>1. j - 1 \in 0 .. q /\ j \in 0 .. q
      BY <1>2
    <3> QED
      BY <1>3, <2>1, <3>1 DEF IsCbc, CbcStep
  <2>3. PICK m : m = (IF n - from < 16 THEN n - from ELSE 16) /\ m \in Nat /\ from + m = Held(n, j) /\ from + m <= n
    BY <1>1, <2>1 DEF Held
  <2>4. Held(n, j - 1) = from
    BY <1>2, <2>1 DEF Held
  <2>5. PICK x : x = Part(in, 0, from) /\ x \in Seq(Nat)
    <3>1. PICK e : e = 0 /\ e \in Nat /\ e <= from /\ from <= Len(in)
      BY <1>1, <2>1
    <3>2. IsPart(Part(in, e, from), Byte, in, e, from)
      BY <3>1, PartIs
    <3>3. Part(in, e, from) \in Seq(Byte)
      BY <3>2 DEF IsPart
    <3> QED
      BY <3>1, <3>3, BytesIs
  <2>6. z[j - 1] = <<x, y>> /\ z[j] = <<Part(in, 0, from + m), b>>
    <3>1. j - 1 \in 0 .. q /\ j \in 0 .. q
      BY <1>2
    <3> QED
      BY <1>8, <2>2, <2>3, <2>4, <2>5, <3>1
  <2>7. b = Part(text, from, from + 16)
    <3>1. Part(o[q], from, from + 16) = c[j]
      BY <1>2, <1>3, <2>1, CbcPart
    <3> QED
      BY <1>4, <2>2, <3>1
  <2>8. AES_decrypt[b][inv] = Mixed(in, from, y)
    <3>1. Mixed(in, from, y) \in Bytes(16)
      BY MixedIs
    <3>2. b = AES_encrypt[Mixed(in, from, y)][key]
      BY <2>2 DEF CbcBlock, Enciphered
    <3> QED
      BY <1>4, <3>1, <3>2, BlockInverts
  <2>9. Part(XorBytes[Mixed(in, from, y)][y], 0, m) = Part(in, from, from + m)
    <3>1. m = (IF Len(in) - from < 16 THEN Len(in) - from ELSE 16) /\ from < Len(in)
      BY <1>1, <2>1, <2>3
    <3> QED
      BY <3>1, Unmixing
  <2>10. step[<<x, y>>][from] = <<x \o Part(in, from, from + m), b>>
    <3>1. y \in Seq(Nat)
      BY BytesHave
    <3>2. x \in Seq(Nat)
      BY <2>5
    <3>3. b = block(from)
      BY <2>7 DEF block, Part
    <3>4. Part(in, from, from + m) = plain(<<x, y>>, from)
      <4>1. PICK u : u = Mixed(in, from, y) /\ u = AES_decrypt[block(from)][inv]
        BY <2>8, <3>3
      <4>2. Part(XorBytes[u][y], 0, m) = SubSeq(XorBytes[u][y], 1, m)
        BY DEF Part
      <4>3. plain(<<x, y>>, from) = SubSeq(XorBytes[u][y], 1, m)
        BY <2>3, <4>1 DEF plain
      <4> QED
        BY <2>9, <4>1, <4>2, <4>3
    <3>5. step[<<x, y>>][from] = <<x \o plain(<<x, y>>, from), block(from)>>
      BY <2>1, <3>1, <3>2 DEF step
    <3> QED
      BY <3>3, <3>4, <3>5
  <2>11. Part(in, 0, from) \o Part(in, from, from + m) = Part(in, 0, from + m)
    <3>1. PICK e : e = 0 /\ e \in Nat /\ e <= from /\ from <= from + m /\ from + m <= Len(in) /\ from + m \in Nat
      <4>1. m \in Nat /\ from + m <= n /\ n = Len(in)
        BY <1>1, <2>3
      <4> QED
        BY <4>1
    <3>2. PICK g \in Nat : g = from + m
      BY <3>1
    <3>3. Part(in, e, from) \o Part(in, from, g) = Part(in, e, g)
      BY <3>1, <3>2, PartsJoin
    <3> QED
      BY <3>1, <3>2, <3>3
  <2>12. f[j] = from
    BY <1>5, <2>1
  <2> QED
    BY <2>5, <2>6, <2>10, <2>11, <2>12
<1>10. z[0] = first
  <2>1. 0 \in 0 .. q /\ Held(n, 0) = 0 /\ Part(in, 0, 0) = <<>>
    BY <1>2 DEF Held, Part
  <2>2. c[0] = iv
    BY <1>3 DEF IsCbc
  <2> QED
    BY <1>6, <1>8, <2>1, <2>2
<1>11. Follows(z, step, first, f, Len(f))
  BY <1>5, <1>9, <1>10 DEF Follows
<1>12. back = z[q]
  BY <1>5, <1>7, <1>11, AlongIs
<1>13. z[q] = <<in, c[q]>>
  <2>1. q \in 0 .. q /\ Held(n, q) = n
    BY <1>2 DEF Held
  <2>2. Part(in, 0, n) = in
    <3>1. SubSeq(in, 1, Len(in)) = in
      BY SubSeqFull
    <3> QED
      BY <1>1, <3>1 DEF Part
  <2> QED
    BY <1>8, <2>1, <2>2
<1> QED
  BY <1>3, <1>12, <1>13

(* The host's key, input and first chaining block are what they should be. *)
LEMMA TripIs ==
  ASSUME NEW k \in DOMAIN KeyBytes, NEW bits \in {128, 192, 256}, NEW in \in Trips
  PROVE  /\ AES_set_encrypt_key[KeyBytes[k]][bits] \in AesKeys
         /\ SubSeq(Ivec[k], 1, 16) \in Bytes(16)
         /\ in \in Seq(Byte)
<1>1. AES_set_encrypt_key[KeyBytes[k]][bits] \in AesKeys
  <2>1. PICK u : u = KeyBytes[k] /\ u \in Seq(Byte) /\ Len(u) = 32
    BY KeyAssumption DEF Byte
  <2>2. bits <= 8 * Len(u)
    BY <2>1
  <2> QED
    <3>1. AES_set_encrypt_key[u][bits] \in AesKeys
      <4>1. u \in Seq(Byte) /\ bits \in {128, 192, 256}
        BY <2>1
      <4> QED
        BY ONLY <2>2, <4>1, KeyIs
    <3> QED
      BY <2>1, <3>1
<1>2. SubSeq(Ivec[k], 1, 16) \in Bytes(16)
  <2>1. First("aes", k) \in Bytes(CipherBlock("aes"))
    BY FirstIs
  <2>2. CipherBlock("aes") = 16
    BY DEF CipherBlock
  <2> QED
    BY <2>1, <2>2 DEF First
<1>3. in \in Seq(Byte)
  BY CallAssumption DEF Byte
<1> QED
  BY <1>1, <1>2, <1>3

(* The host's encryption and decryption keeps it, ... *)
LEMMA TripInverts ==
  ASSUME NEW k \in DOMAIN KeyBytes, NEW bits \in {128, 192, 256}, NEW in \in Trips, RoundTrip(k, bits, in)
  PROVE  AesInverts'
<1> DEFINE key == AES_set_encrypt_key[KeyBytes[k]][bits]
           iv == SubSeq(Ivec[k], 1, 16)
<1>1. key \in AesKeys /\ iv \in Bytes(16) /\ in \in Seq(Byte)
  BY TripIs
<1>2. PICK there : there = AES_cbc_encrypt(in, key, iv)
  OBVIOUS
<1>3. PICK back : back = CRYPTO_cbc128_decrypt(there[1], Len(in), Inverted[key], iv)
  OBVIOUS
<1>4. trip' = [in |-> in, ivec |-> there[2], plain |-> back[1], after |-> back[2]]
  BY <1>2, <1>3 DEF RoundTrip, AES_set_decrypt_key
<1> HIDE DEF key, iv
<1>5. back[1] = in /\ back[2] = there[2]
  BY <1>1, <1>2, <1>3, CbcInverts
<1> QED
  BY <1>4, <1>5 DEF AesInverts

(* ... and so does every other step. *)
LEMMA AesInvertsSteps == AesInverts /\ [Cipher]_cipherVars => AesInverts'
<1> SUFFICES ASSUME AesInverts, [Cipher]_cipherVars
             PROVE  AesInverts'
  OBVIOUS
<1>1. CASE UNCHANGED trip
  BY <1>1 DEF AesInverts
<1>2. CASE \E m \in Modes, n \in DOMAIN KeyBytes, samples \in Samples \union {<<>>} : Use(m, n, samples)
  BY <1>1, <1>2 DEF Use
<1>3. CASE \E in \in Inputs(calls + 1) : Call(in)
  BY <1>1, <1>3 DEF Call
<1>4. CASE \E k \in KeyNumbers : ThreadBlock(k) \/ ThreadEnds(k)
  BY <1>1, <1>4 DEF ThreadBlock, ThreadEnds
<1>5. CASE NextChunk
  BY <1>1, <1>5 DEF NextChunk
<1>6. CASE EndShaState
  BY <1>1, <1>6 DEF EndShaState
<1>7. CASE \E k \in DOMAIN KeyBytes, bits \in {128, 192, 256}, in \in Trips : RoundTrip(k, bits, in)
  BY <1>7, TripInverts
<1>8. CASE UNCHANGED cipherVars
  BY <1>1, <1>8 DEF cipherVars
<1> QED
  BY <1>2, <1>3, <1>4, <1>5, <1>6, <1>7, <1>8 DEF Cipher

(***************************************************************************)
(* Whatever the key, its size of 128, 192 or 256 bits, the first chaining  *)
(* block and the input, of any length, CRYPTO_cbc128_decrypt gives back    *)
(* what AES_cbc_encrypt enciphered and leaves the same chaining block.     *)
(***************************************************************************)
THEOREM TripsInvert == CipherSpec => []AesInverts
<1>1. CipherInit => AesInverts
  BY DEF CipherInit, AesInverts
<1> QED
  BY <1>1, AesInvertsSteps, PTL DEF CipherSpec
=============================================================================
