--------------------------- MODULE StreamsProofs ----------------------------
(***************************************************************************)
(* Proofs about the code that works through data in pieces.  The streaming *)
(* hashes: first that words keep their width through every operation, so   *)
(* that compress takes states and blocks to states; then where a hash      *)
(* state stands in the message it is fed; then the padding.                *)
(***************************************************************************)
EXTENDS HashStream, FoldProofs

-----------------------------------------------------------------------------
(* The bytes, the 16-bit limbs and the words of the models. *)

(* Bytes, and words as limbs of 16 bits, the most significant first. *)
Byte == 0 .. 255
top == 65535
size == 65536
Limb == {n \in Int : 0 <= n /\ n <= top}
Word(n) == {w \in Seq(Limb) : Len(w) = n}

(* Numbers in two parts. *)
LEMMA Parts ==
  ASSUME NEW a \in Byte, NEW b \in Byte
  PROVE  ((256 * a) + b) \div 256 = a /\ ((256 * a) + b) % 256 = b
<1>1. ((256 * a) + b) \div 256 = a
  BY SMT DEF Byte
<1>2. ((256 * a) + b) % 256 = b
  BY SMT DEF Byte
<1> QED
  BY <1>1, <1>2

(* A limb is its two bytes. *)
LEMMA LimbParts ==
  ASSUME NEW m \in Limb
  PROVE  m \div 256 \in Byte /\ m % 256 \in Byte /\ m = (256 * (m \div 256)) + (m % 256)
  BY SMT DEF Limb, Byte, top

(* A byte is its two nibbles. *)
LEMMA ByteParts ==
  ASSUME NEW m \in Byte
  PROVE  m \div 16 \in 0 .. 15 /\ m % 16 \in 0 .. 15 /\ m = 16 * (m \div 16) + (m % 16)
  BY SMT DEF Byte

(* The outer nibbles of a limb are those of its bytes. *)
LEMMA NibblesOf ==
  ASSUME NEW m \in Limb
  PROVE  /\ m \div 4096 = (m \div 256) \div 16
         /\ m % 16 = (m % 256) % 16
  BY SMT DEF Limb, top

(* Half of what two limbs and their exclusive or sum to is a limb. *)
LEMMA Doubled ==
  ASSUME NEW c \in Int, 0 <= c, c <= 131070
  PROVE  c \div 2 \in Limb
<1>1. c \div 2 \in Int
  BY SMT
<1>2. c \div 2 >= 0
  BY SMT
<1>3. c \div 2 <= 65535
  BY SMT
<1> QED
  BY <1>1, <1>2, <1>3, SMT DEF Limb, top

(* What holds of x = a xor b for each bit, and so for the numbers below    *)
(* m + 1: neither x nor b exceeds the sum of the other two, and the three  *)
(* sum to no more than twice the largest.                                  *)
XorBounds(a, b, x, m) == x \in Int /\ 0 <= x /\ x <= m /\ x <= a + b /\ b <= a + x /\ a + b + x <= 2 * m

(* The exclusive or of two bytes from that of their nibbles ... *)
LEMMA MixedNibbles ==
  ASSUME NEW a1 \in 0 .. 15, NEW a2 \in 0 .. 15, NEW b1 \in 0 .. 15, NEW b2 \in 0 .. 15,
         NEW x, NEW y, XorBounds(a1, b1, x, 15), XorBounds(a2, b2, y, 15)
  PROVE  XorBounds((16 * a1) + a2, (16 * b1) + b2, (16 * x) + y, 255)
<1>1. (16 * x) + y \in 0 .. 255
  BY SMT DEF XorBounds
<1>2. (16 * x) + y <= ((16 * a1) + a2) + ((16 * b1) + b2)
  BY SMT DEF XorBounds
<1>3. ((16 * a1) + a2) + ((16 * b1) + b2) + ((16 * x) + y) <= 2 * 255
  BY SMT DEF XorBounds
<1>4. (16 * b1) + b2 <= ((16 * a1) + a2) + ((16 * x) + y)
  BY SMT DEF XorBounds
<1> QED
  BY <1>1, <1>2, <1>3, <1>4 DEF XorBounds

(* ... and of two limbs from that of their bytes. *)
LEMMA MixedBytes ==
  ASSUME NEW a1 \in Byte, NEW a2 \in Byte, NEW b1 \in Byte, NEW b2 \in Byte,
         NEW x, NEW y, XorBounds(a1, b1, x, 255), XorBounds(a2, b2, y, 255)
  PROVE  XorBounds((256 * a1) + a2, (256 * b1) + b2, (256 * x) + y, top)
<1>1. (256 * x) + y \in Int /\ 0 <= (256 * x) + y /\ (256 * x) + y <= top
  BY SMT DEF XorBounds, top
<1>2. (256 * x) + y <= ((256 * a1) + a2) + ((256 * b1) + b2)
  BY SMT DEF XorBounds, Byte
<1>3. ((256 * a1) + a2) + ((256 * b1) + b2) + ((256 * x) + y) <= 2 * top
  BY SMT DEF XorBounds, Byte, top
<1>4. (256 * b1) + b2 <= ((256 * a1) + a2) + ((256 * x) + y)
  BY SMT DEF XorBounds, Byte
<1> QED
  BY <1>1, <1>2, <1>3, <1>4 DEF XorBounds

(* The places in the tables. *)
LEMMA PlaceOf ==
  ASSUME NEW a \in Byte, NEW b \in Byte
  PROVE  /\ (256 * a) + b + 1 \in 1 .. size
         /\ ((256 * a) + b + 1) - 1 = (256 * a) + b
         /\ (256 * a) + b \in Limb
<1>1. (256 * a) + b + 1 \in 1 .. size
  <2>1. size \in Int /\ 1 <= (256 * a) + b + 1 /\ (256 * a) + b + 1 <= size
    BY SMT DEF Byte, size
  <2> QED
    BY <2>1, SMT DEF Byte
<1>2. ((256 * a) + b + 1) - 1 = (256 * a) + b
  BY SMT DEF Byte
<1>3. (256 * a) + b \in Limb
  BY SMT DEF Byte, Limb, top
<1> QED
  BY <1>1, <1>2, <1>3

(* A place of the byte tables less one is a limb. *)
LEMMA PlacesAreLimbs == size \in Nat /\ \A n \in 1 .. size : n - 1 \in Limb
<1>1. size \in Nat
  BY SMT DEF size
<1>2. \A n \in 1 .. size : n - 1 \in Limb
  BY SMT DEF Limb, size, top
<1> QED
  BY <1>1, <1>2

(* The exclusive or of nibbles, bytes and limbs.                           *)
XorNibble(a, b) == NibbleXor[16 * a + b + 1]

BitSum(t) == t[1] + 2 * t[2] + 4 * t[3] + 8 * t[4]

(* NibbleXor is the exclusive or of nibbles, in each of its 256 places. *)
LEMMA NibbleXorIs ==
  ASSUME NEW a \in 0 .. 15, NEW b \in 0 .. 15
  PROVE  XorBounds(a, b, XorNibble(a, b), 15) /\ XorNibble(a, b) = BitSum(NibbleBits(a, b))
<1> DEFINE Entry(n) == BitSum(NibbleBits((n - 1) \div 16, (n - 1) % 16))
           f == [n \in 1 .. 256 |-> Entry(n)]
<1>1. ASSUME NEW n \in 1 .. 256
      PROVE  XorBounds((n - 1) \div 16, (n - 1) % 16, Entry(n), 15)
  <2> DEFINE c == (n - 1) \div 16
             e == (n - 1) % 16
             t == NibbleBits(c, e)
  <2>1. c \in 0 .. 15 /\ e \in 0 .. 15
    OBVIOUS
  <2>2. 2 ^ 0 = 1 /\ 2 ^ 1 = 2 /\ 2 ^ 2 = 4 /\ 2 ^ 3 = 8
    OBVIOUS
  <2>3. /\ t[1] = (c \div 2 ^ 0 + e \div 2 ^ 0) % 2 /\ t[2] = (c \div 2 ^ 1 + e \div 2 ^ 1) % 2
        /\ t[3] = (c \div 2 ^ 2 + e \div 2 ^ 2) % 2 /\ t[4] = (c \div 2 ^ 3 + e \div 2 ^ 3) % 2
    BY DEF NibbleBits
  <2> HIDE DEF c, e, t
  <2>4. /\ t[1] = (c \div 1 + e \div 1) % 2 /\ t[2] = (c \div 2 + e \div 2) % 2
        /\ t[3] = (c \div 4 + e \div 4) % 2 /\ t[4] = (c \div 8 + e \div 8) % 2
    BY <2>2, <2>3
  <2> DEFINE x == t[1] + 2 * t[2] + 4 * t[3] + 8 * t[4]
  <2>5. x \in 0 .. 15 /\ x <= c + e /\ e <= c + x /\ c + e + x <= 30
    BY <2>1, <2>4
  <2>6. Entry(n) = x
    BY DEF t, c, e, BitSum
  <2> QED
    BY <2>5, <2>6 DEF c, e, XorBounds
<1> HIDE DEF Entry
<1>2. NibbleXor = f \o <<>>
  BY DEF NibbleXor, Entry, BitSum
<1>3. f = [n \in 1 .. 256 |-> f[n]] /\ \A n \in 1 .. 256 : f[n] = Entry(n)
  OBVIOUS
<1> HIDE DEF f
<1>4. f \o <<>> = f
  <2>1. ASSUME NEW n \in 1 .. 256
        PROVE  f[n] \in Int
    <3>1. XorBounds((n - 1) \div 16, (n - 1) % 16, Entry(n), 15)
      BY <1>1
    <3> QED
      BY <1>3, <3>1 DEF XorBounds
  <2> QED
    BY <1>3, <2>1, Tupled
<1>5. PICK n \in 1 .. 256 : n = 16 * a + b + 1
  OBVIOUS
<1>6. (n - 1) \div 16 = a /\ (n - 1) % 16 = b
  BY <1>5
<1>7. XorNibble(a, b) = Entry(n)
  BY <1>2, <1>3, <1>4, <1>5 DEF XorNibble
<1>8. XorBounds(a, b, XorNibble(a, b), 15)
  BY <1>1, <1>6, <1>7
<1>9. Entry(n) = BitSum(NibbleBits(a, b))
  BY <1>6 DEF Entry
<1> QED
  BY <1>7, <1>8, <1>9

(* Its bounds. *)
LEMMA NibbleXorOf ==
  ASSUME NEW a \in 0 .. 15, NEW b \in 0 .. 15
  PROVE  XorBounds(a, b, XorNibble(a, b), 15)
  BY NibbleXorIs

(* ByteXor is the exclusive or of bytes. *)
LEMMA XorByteParts ==
  ASSUME NEW a \in Byte, NEW b \in Byte
  PROVE  /\ XorBounds(a, b, XorByte(a, b), 255)
         /\ XorByte(a, b) = 16 * XorNibble(a \div 16, b \div 16) + XorNibble(a % 16, b % 16)
<1> DEFINE Entry(m) == 16 * NibbleXor[16 * (m \div 4096) + ((m % 256) \div 16) + 1]
                       + NibbleXor[16 * ((m \div 256) % 16) + (m % 16) + 1]
           f == [n \in 1 .. size |-> Entry(n - 1)]
<1>1. ASSUME NEW m \in Limb
      PROVE  /\ XorBounds(m \div 256, m % 256, Entry(m), 255)
             /\ Entry(m) = 16 * XorNibble((m \div 256) \div 16, (m % 256) \div 16)
                           + XorNibble((m \div 256) % 16, (m % 256) % 16)
  <2>1. PICK c \in Byte, e \in Byte : c = m \div 256 /\ e = m % 256
    BY LimbParts
  <2>2. PICK c1 \in 0 .. 15, c2 \in 0 .. 15 : c1 = c \div 16 /\ c2 = c % 16 /\ c = (16 * c1) + c2
    BY ByteParts
  <2>3. PICK e1 \in 0 .. 15, e2 \in 0 .. 15 : e1 = e \div 16 /\ e2 = e % 16 /\ e = (16 * e1) + e2
    BY ByteParts
  <2>4. /\ m \div 4096 = c1 /\ (m % 256) \div 16 = e1
        /\ (m \div 256) % 16 = c2 /\ m % 16 = e2
    BY <2>1, <2>2, <2>3, NibblesOf
  <2>5. PICK x, y : x = XorNibble(c1, e1) /\ y = XorNibble(c2, e2)
    OBVIOUS
  <2>6. Entry(m) = (16 * x) + y
    BY <2>4, <2>5 DEF XorNibble
  <2> HIDE DEF Entry
  <2>7. XorBounds(c1, e1, x, 15) /\ XorBounds(c2, e2, y, 15)
    BY <2>5, NibbleXorOf
  <2>8. XorBounds((16 * c1) + c2, (16 * e1) + e2, (16 * x) + y, 255)
    BY <2>7, MixedNibbles
  <2>9. XorBounds(m \div 256, m % 256, Entry(m), 255)
    BY <2>1, <2>2, <2>3, <2>6, <2>8
  <2>10. Entry(m) = 16 * XorNibble((m \div 256) \div 16, (m % 256) \div 16)
                    + XorNibble((m \div 256) % 16, (m % 256) % 16)
    BY <2>1, <2>2, <2>3, <2>5, <2>6
  <2> QED
    BY <2>9, <2>10
<1>2. XorTable = f \o <<>>
  BY SMT DEF XorTable, size
<1> HIDE DEF Entry
<1>3. size \in Nat /\ \A n \in 1 .. size : n - 1 \in Limb
  BY PlacesAreLimbs
<1>4. f = [k \in 1 .. size |-> f[k]] /\ \A k \in 1 .. size : f[k] = Entry(k - 1)
  OBVIOUS
<1> HIDE DEF f
<1>5. \A k \in 1 .. size : f[k] \in 0 .. 255
  <2>1. \A x : (\E c, e : XorBounds(c, e, x, 255)) => x \in 0 .. 255
    BY DEF XorBounds
  <2>2. \A m \in Limb : XorBounds(m \div 256, m % 256, Entry(m), 255)
    BY <1>1
  <2> QED
    BY <1>3, <1>4, <2>1, <2>2
<1>6. f \o <<>> = f
  BY <1>3, <1>4, <1>5, Tupled
<1>7. PICK n, m : n = (256 * a) + b + 1 /\ m = (256 * a) + b
  OBVIOUS
<1>8. n \in 1 .. size /\ n - 1 = m /\ m \in Limb
  BY <1>7, PlaceOf
<1>9. XorByte(a, b) = Entry(m)
  <2>1. XorByte(a, b) = XorTable[n]
    BY <1>7 DEF XorByte
  <2> QED
    BY <1>2, <1>4, <1>6, <1>8, <2>1
<1>10. m \div 256 = a /\ m % 256 = b
  BY <1>7, Parts
<1>11. XorBounds(a, b, XorByte(a, b), 255)
  BY <1>1, <1>8, <1>9, <1>10
<1>12. Entry(m) = 16 * XorNibble(a \div 16, b \div 16) + XorNibble(a % 16, b % 16)
  BY <1>1, <1>8, <1>10
<1> QED
  BY <1>9, <1>11, <1>12

(* Its bounds. *)
LEMMA XorByteOf ==
  ASSUME NEW a \in Byte, NEW b \in Byte
  PROVE  XorBounds(a, b, XorByte(a, b), 255)
  BY XorByteParts

(* The bitwise operations on limbs give limbs. *)
LEMMA LimbOps ==
  ASSUME NEW a \in Limb, NEW b \in Limb
  PROVE  XorLimb(a, b) \in Limb /\ AndLimb(a, b) \in Limb /\ OrLimb(a, b) \in Limb
<1>1. PICK a1 \in Byte, a2 \in Byte : a1 = a \div 256 /\ a2 = a % 256 /\ a = (256 * a1) + a2
  BY LimbParts
<1>2. PICK b1 \in Byte, b2 \in Byte : b1 = b \div 256 /\ b2 = b % 256 /\ b = (256 * b1) + b2
  BY LimbParts
<1>3. PICK x, y, z : x = XorByte(a1, b1) /\ y = XorByte(a2, b2) /\ z = (256 * x) + y
  OBVIOUS
<1>4. XorLimb(a, b) = z
  BY <1>1, <1>2, <1>3 DEF XorLimb
<1>5. XorBounds(a1, b1, x, 255) /\ XorBounds(a2, b2, y, 255)
  BY <1>3, XorByteOf
<1>6. XorBounds(a, b, z, top)
  BY <1>1, <1>2, <1>3, <1>5, MixedBytes
<1>7. z \in Limb /\ z <= a + b /\ a + b + z <= 131070
  <2>1. z \in Limb
    BY <1>6 DEF XorBounds, Limb
  <2>2. 2 * top = 131070
    BY SMT DEF top
  <2> QED
    BY <1>6, <2>1, <2>2 DEF XorBounds
<1>8. PICK c, d : c = a + b - z /\ d = a + b + z
  OBVIOUS
<1>9. c \in Int /\ 0 <= c /\ c <= 131070
  BY <1>7, <1>8, SMT DEF Limb, top
<1>10. d \in Int /\ 0 <= d /\ d <= 131070
  BY <1>7, <1>8, SMT DEF Limb, top
<1>11. c \div 2 \in Limb /\ d \div 2 \in Limb
  BY <1>9, <1>10, Doubled
<1> QED
  BY <1>4, <1>7, <1>8, <1>11 DEF AndLimb, OrLimb

-----------------------------------------------------------------------------
(* Words: bitwise operations and sums. *)

(* What a word of n limbs is. *)
LEMMA WordIs ==
  ASSUME NEW n \in Nat, NEW x \in Word(n)
  PROVE  /\ x \in Seq(Nat) /\ Len(x) = n /\ DOMAIN x = 1 .. n
         /\ \A i \in 1 .. n : x[i] \in Limb /\ x[i] \in Nat
<1>1. \A l \in Limb : l \in Nat
  BY SMT DEF Limb, top
<1> QED
  BY <1>1, SMT DEF Word

(* A function on 1..n with limbs for values, as a tuple, is a word. *)
LEMMA WordMade ==
  ASSUME NEW n \in Nat, NEW f, f = [i \in 1 .. n |-> f[i]], \A i \in 1 .. n : f[i] \in Limb
  PROVE  f \o <<>> \in Word(n)
<1>1. f \o <<>> = f /\ f \in Seq(Limb) /\ Len(f) = n
  BY Tupled
<1> QED
  BY <1>1 DEF Word

(* The bitwise operations on words give words. *)
LEMMA Bitwise3 ==
  ASSUME NEW n \in Nat, NEW x \in Word(n), NEW y \in Word(n)
  PROVE  Xor[x][y] \in Word(n) /\ And[x][y] \in Word(n) /\ Or[x][y] \in Word(n)
<1>1. /\ x \in Seq(Nat) /\ y \in Seq(Nat) /\ DOMAIN x = 1 .. n
      /\ \A i \in 1 .. n : x[i] \in Limb /\ y[i] \in Limb
  BY WordIs
<1>2. Xor[x][y] \in Word(n)
  <2> DEFINE f == [i \in 1 .. n |-> XorLimb(x[i], y[i])]
  <2>1. Xor[x][y] = f \o <<>>
    BY <1>1 DEF Xor
  <2>2. f = [i \in 1 .. n |-> f[i]] /\ \A i \in 1 .. n : f[i] \in Limb
    BY <1>1, LimbOps
  <2> HIDE DEF f
  <2> QED
    BY <2>1, <2>2, WordMade
<1>3. And[x][y] \in Word(n)
  <2> DEFINE f == [i \in 1 .. n |-> AndLimb(x[i], y[i])]
  <2>1. And[x][y] = f \o <<>>
    BY <1>1 DEF And
  <2>2. f = [i \in 1 .. n |-> f[i]] /\ \A i \in 1 .. n : f[i] \in Limb
    BY <1>1, LimbOps
  <2> HIDE DEF f
  <2> QED
    BY <2>1, <2>2, WordMade
<1>4. Or[x][y] \in Word(n)
  <2> DEFINE f == [i \in 1 .. n |-> OrLimb(x[i], y[i])]
  <2>1. Or[x][y] = f \o <<>>
    BY <1>1 DEF Or
  <2>2. f = [i \in 1 .. n |-> f[i]] /\ \A i \in 1 .. n : f[i] \in Limb
    BY <1>1, LimbOps
  <2> HIDE DEF f
  <2> QED
    BY <2>1, <2>2, WordMade
<1> QED
  BY <1>2, <1>3, <1>4

(* A sum reduced to a limb, and the carry. *)
LEMMA Reduced ==
  ASSUME NEW c \in Int
  PROVE  c % size \in Limb /\ c \div size \in Int
<1>1. c % 65536 \in 0 .. 65535
  BY SMT
<1>2. c \div 65536 \in Int
  BY SMT
<1> QED
  BY <1>1, <1>2 DEF Limb, top, size

(* The carries of a sum, limb after limb from the last. *)
Carries(c, x, y, n) ==
  c = [i \in 1 .. n + 1 |-> IF i > n THEN 0 ELSE (x[i] + y[i] + c[i + 1]) \div size]

(* The sum of any two words has carries ... *)
LEMMA CarriesExist ==
  ASSUME NEW n \in Nat, NEW x \in Word(n), NEW y \in Word(n)
  PROVE  \E c : Carries(c, x, y, n)
<1> DEFINE step == [c \in Int |-> [i \in Nat |-> (x[i] + y[i] + c) \div size]]
           s == [k \in 1 .. n |-> n + 1 - k]
<1>1. PICK v : Runs(v, step, 0, s, n)
  BY RunExists
<1>a. \A k \in 1 .. n : s[k] = n + 1 - k
  OBVIOUS
<1>b. \A e \in Int : \A i \in 1 .. n : step[e][i] = (x[i] + y[i] + e) \div size
  OBVIOUS
<1> HIDE DEF s, step
<1>2. v[0] = 0 /\ \A k \in 1 .. n : v[k] = step[v[k - 1]][s[k]]
  BY <1>1 DEF Runs
<1>3. \A i \in 1 .. n : x[i] \in Nat /\ y[i] \in Nat
  BY WordIs
<1>4. ASSUME NEW k \in 1 .. n, v[k - 1] \in Int
      PROVE  v[k] = (x[n + 1 - k] + y[n + 1 - k] + v[k - 1]) \div size /\ v[k] \in Int
  <2>1. s[k] = n + 1 - k /\ n + 1 - k \in 1 .. n
    BY <1>a
  <2>2. v[k] = (x[n + 1 - k] + y[n + 1 - k] + v[k - 1]) \div size
    BY <1>2, <1>4, <1>b, <2>1
  <2>3. x[n + 1 - k] + y[n + 1 - k] + v[k - 1] \in Int
    BY <1>3, <1>4, <2>1
  <2> QED
    BY <2>2, <2>3, Reduced
<1> DEFINE S == {k \in 0 .. n : v[k] \in Int}
<1>5. 0 \in S /\ \A k \in 1 .. n : k - 1 \in S => k \in S
  BY <1>2, <1>4
<1>6. \A k \in 0 .. n : v[k] \in Int
  <2> HIDE DEF S
  <2>1. 0 .. n \subseteq S
    BY <1>5, InductionTo
  <2> QED
    BY <2>1 DEF S
<1> DEFINE c == [i \in 1 .. n + 1 |-> v[n + 1 - i]]
<1>7. ASSUME NEW i \in 1 .. n + 1
      PROVE  c[i] = IF i > n THEN 0 ELSE (x[i] + y[i] + c[i + 1]) \div size
  <2>1. CASE i > n
    BY <1>2, <2>1
  <2>2. CASE ~(i > n)
    <3>1. PICK k \in 1 .. n : k = n + 1 - i /\ i = n + 1 - k /\ k - 1 = n + 1 - (i + 1)
      BY <2>2
    <3>2. c[i] = v[k] /\ c[i + 1] = v[k - 1]
      BY <3>1
    <3> QED
      BY <1>4, <1>6, <2>2, <3>1, <3>2
  <2> QED
    BY <2>1, <2>2
<1>8. Carries(c, x, y, n)
  BY <1>7 DEF Carries
<1> QED
  BY <1>8

(* ... that are numbers, whatever limb they leave. *)
LEMMA CarriesAreInts ==
  ASSUME NEW n \in Nat, NEW x \in Word(n), NEW y \in Word(n), NEW c, Carries(c, x, y, n)
  PROVE  \A i \in 1 .. n + 1 : c[i] \in Int
<1>1. \A i \in 1 .. n + 1 : c[i] = IF i > n THEN 0 ELSE (x[i] + y[i] + c[i + 1]) \div size
  BY DEF Carries
<1>2. \A i \in 1 .. n : x[i] \in Nat /\ y[i] \in Nat
  BY WordIs
<1> DEFINE S == {k \in 0 .. n : c[n + 1 - k] \in Int}
<1>3. 0 \in S
  BY <1>1
<1>4. ASSUME NEW k \in 1 .. n, k - 1 \in S
      PROVE  k \in S
  <2>1. PICK i \in 1 .. n : i = n + 1 - k /\ i + 1 = n + 1 - (k - 1)
    OBVIOUS
  <2>2. c[i + 1] \in Int
    BY <1>4, <2>1
  <2>3. x[i] + y[i] + c[i + 1] \in Int
    BY <1>2, <2>2
  <2>4. c[i] \in Int
    BY <1>1, <2>1, <2>3, Reduced
  <2> QED
    BY <2>1, <2>4
<1>5. 0 .. n \subseteq S
  <2> HIDE DEF S
  <2> QED
    BY <1>3, <1>4, InductionTo
<1>6. ASSUME NEW i \in 1 .. n + 1
      PROVE  c[i] \in Int
  <2>1. PICK k \in 0 .. n : k = n + 1 - i /\ i = n + 1 - k
    OBVIOUS
  <2> QED
    BY <1>5, <2>1
<1> QED
  BY <1>6

(* The sum of two words, modulo the width, is a word. *)
LEMMA PlusIs ==
  ASSUME NEW n \in Nat, NEW x \in Word(n), NEW y \in Word(n)
  PROVE  Plus[x][y] \in Word(n)
<1>1. x \in Seq(Nat) /\ y \in Seq(Nat) /\ Len(x) = n /\ \A i \in 1 .. n : x[i] \in Nat /\ y[i] \in Nat
  BY WordIs
<1> DEFINE c == CHOOSE e : e = [i \in 1 .. (Len(x) + 1) |->
                  IF i > Len(x) THEN 0 ELSE (x[i] + y[i] + e[i + 1]) \div 65536]
           f == [i \in 1 .. Len(x) |-> (x[i] + y[i] + c[i + 1]) % 65536]
<1>2. Plus[x][y] = f \o <<>>
  <2>1. Plus[x][y] = Added(x, y)
    BY <1>1 DEF Plus
  <2>2. Added(x, y) = f \o <<>>
    BY DEF Added
  <2> QED
    BY <2>1, <2>2
<1>3. c = CHOOSE e : Carries(e, x, y, Len(x))
  BY DEF Carries, size
<1> HIDE DEF c
<1>4. Carries(c, x, y, n)
  BY <1>1, <1>3, CarriesExist
<1>5. \A i \in 1 .. n : c[i + 1] \in Int
  BY <1>4, CarriesAreInts
<1>6. f = [i \in 1 .. n |-> f[i]] /\ \A i \in 1 .. n : f[i] = (x[i] + y[i] + c[i + 1]) % size
  BY <1>1 DEF size
<1> HIDE DEF f
<1>7. ASSUME NEW i \in 1 .. n
      PROVE  f[i] \in Limb
  <2>1. x[i] + y[i] + c[i + 1] \in Int
    BY <1>1, <1>5
  <2> QED
    BY <1>6, <2>1, Reduced
<1> QED
  BY <1>2, <1>6, <1>7, WordMade

-----------------------------------------------------------------------------
(* Words: rotations, shifts and the functions of the rounds. *)

(* Numbers below 65536 are limbs. *)
LEMMA BelowSize ==
  ASSUME NEW g \in Int, g >= 0, g < size
  PROVE  g \in Limb
<1>1. size = top + 1 /\ top \in Nat
  BY SMT DEF size, top
<1> QED
  BY <1>1 DEF Limb

(* A limb split at a power of two, and put together from two. *)
LEMMA SplitAt ==
  ASSUME NEW low \in Limb, NEW left \in Limb, NEW p \in Nat, NEW q \in Nat, p > 0, p * q = size
  PROVE  (low \div p) + ((left % p) * q) \in Limb
<1>1. low \in Int /\ left \in Int /\ low >= 0 /\ low < size /\ size \in Nat
  BY SMT DEF Limb, top, size
<1>2. PICK d \in Int : d = low \div p
  BY <1>1, SMT
<1>3. PICK e \in Int : e = left % p
  BY <1>1, SMT
<1>4. 0 <= e /\ e <= p - 1
  BY <1>1, <1>3, SMT
<1>5. d >= 0
  BY <1>1, <1>2, SMT
<1>6. p * d <= low
  BY <1>1, <1>2, SMT
<1>7. d <= q - 1
  <2>1. SUFFICES ASSUME d >= q
                 PROVE  FALSE
    BY SMT
  <2>2. p * (d - q) >= 0
    BY <2>1, SMT
  <2>3. p * d >= size
    BY <2>2, SMT
  <2> QED
    BY <1>1, <1>6, <2>3, SMT
<1>8. e * q <= (p * q) - q
  <2>1. (p - 1 - e) * q >= 0
    BY <1>4, SMT
  <2> QED
    BY <2>1, SMT
<1>9. e * q >= 0 /\ e * q \in Int
  BY <1>4, SMT
<1>10. d + (e * q) < size /\ d + (e * q) >= 0 /\ d + (e * q) \in Int
  BY <1>1, <1>5, <1>7, <1>8, <1>9, SMT
<1>11. d + (e * q) \in Limb
  BY <1>10, BelowSize
<1> QED
  BY <1>2, <1>3, <1>11

(* Spliced takes a limb across two neighbouring ones. *)
LEMMA SplicedIs ==
  ASSUME NEW low \in Limb, NEW left \in Limb, NEW by \in 0 .. 15
  PROVE  Spliced(low, left, by) \in Limb
<1>1. PICK p, q : p = 2 ^ by /\ q = 2 ^ (16 - by)
  OBVIOUS
<1>2. p \in Nat /\ p > 0 /\ q \in Nat /\ p * q = size
  <2>1. CASE by = 0
    <3>1. 16 - by = 16
      BY <2>1
    <3>2. p = 1 /\ q = 65536
      BY <1>1, <2>1, <3>1
    <3> QED
      BY <3>2, SMT DEF size
  <2>2. CASE by = 1
    <3>1. 16 - by = 15
      BY <2>2
    <3>2. p = 2 /\ q = 32768
      BY <1>1, <2>2, <3>1
    <3> QED
      BY <3>2, SMT DEF size
  <2>3. CASE by = 2
    <3>1. 16 - by = 14
      BY <2>3
    <3>2. p = 4 /\ q = 16384
      BY <1>1, <2>3, <3>1
    <3> QED
      BY <3>2, SMT DEF size
  <2>4. CASE by = 3
    <3>1. 16 - by = 13
      BY <2>4
    <3>2. p = 8 /\ q = 8192
      BY <1>1, <2>4, <3>1
    <3> QED
      BY <3>2, SMT DEF size
  <2>5. CASE by = 4
    <3>1. 16 - by = 12
      BY <2>5
    <3>2. p = 16 /\ q = 4096
      BY <1>1, <2>5, <3>1
    <3> QED
      BY <3>2, SMT DEF size
  <2>6. CASE by = 5
    <3>1. 16 - by = 11
      BY <2>6
    <3>2. p = 32 /\ q = 2048
      BY <1>1, <2>6, <3>1
    <3> QED
      BY <3>2, SMT DEF size
  <2>7. CASE by = 6
    <3>1. 16 - by = 10
      BY <2>7
    <3>2. p = 64 /\ q = 1024
      BY <1>1, <2>7, <3>1
    <3> QED
      BY <3>2, SMT DEF size
  <2>8. CASE by = 7
    <3>1. 16 - by = 9
      BY <2>8
    <3>2. p = 128 /\ q = 512
      BY <1>1, <2>8, <3>1
    <3> QED
      BY <3>2, SMT DEF size
  <2>9. CASE by = 8
    <3>1. 16 - by = 8
      BY <2>9
    <3>2. p = 256 /\ q = 256
      BY <1>1, <2>9, <3>1
    <3> QED
      BY <3>2, SMT DEF size
  <2>10. CASE by = 9
    <3>1. 16 - by = 7
      BY <2>10
    <3>2. p = 512 /\ q = 128
      BY <1>1, <2>10, <3>1
    <3> QED
      BY <3>2, SMT DEF size
  <2>11. CASE by = 10
    <3>1. 16 - by = 6
      BY <2>11
    <3>2. p = 1024 /\ q = 64
      BY <1>1, <2>11, <3>1
    <3> QED
      BY <3>2, SMT DEF size
  <2>12. CASE by = 11
    <3>1. 16 - by = 5
      BY <2>12
    <3>2. p = 2048 /\ q = 32
      BY <1>1, <2>12, <3>1
    <3> QED
      BY <3>2, SMT DEF size
  <2>13. CASE by = 12
    <3>1. 16 - by = 4
      BY <2>13
    <3>2. p = 4096 /\ q = 16
      BY <1>1, <2>13, <3>1
    <3> QED
      BY <3>2, SMT DEF size
  <2>14. CASE by = 13
    <3>1. 16 - by = 3
      BY <2>14
    <3>2. p = 8192 /\ q = 8
      BY <1>1, <2>14, <3>1
    <3> QED
      BY <3>2, SMT DEF size
  <2>15. CASE by = 14
    <3>1. 16 - by = 2
      BY <2>15
    <3>2. p = 16384 /\ q = 4
      BY <1>1, <2>15, <3>1
    <3> QED
      BY <3>2, SMT DEF size
  <2>16. CASE by = 15
    <3>1. 16 - by = 1
      BY <2>16
    <3>2. p = 32768 /\ q = 2
      BY <1>1, <2>16, <3>1
    <3> QED
      BY <3>2, SMT DEF size
  <2> QED
    BY <2>1, <2>2, <2>3, <2>4, <2>5, <2>6, <2>7, <2>8, <2>9, <2>10, <2>11, <2>12, <2>13, <2>14, <2>15, <2>16
<1> QED
  BY <1>1, <1>2, SplitAt DEF Spliced

(* A place modulo n, counted from one. *)
LEMMA Remainder ==
  ASSUME NEW a \in Int, NEW n \in Nat, n > 0
  PROVE  (a % n) + 1 \in 1 .. n
<1>1. a % n \in 0 .. n - 1
  OBVIOUS
<1> QED
  BY <1>1

(* A rotated word is a word. *)
LEMMA RotRIs ==
  ASSUME NEW n \in Nat, n > 0, NEW x \in Word(n), NEW by \in Nat
  PROVE  RotR[x][by] \in Word(n)
<1>1. x \in Seq(Nat) /\ Len(x) = n /\ DOMAIN x = 1 .. n /\ \A i \in 1 .. n : x[i] \in Limb
  BY WordIs
<1>2. by % 16 \in 0 .. 15 /\ by \div 16 \in Int
  OBVIOUS
<1> DEFINE f == [i \in 1 .. n |-> Spliced(x[((i - by \div 16 - 1) % n) + 1],
                                        x[((i - by \div 16 - 2) % n) + 1], by % 16)]
<1>3. RotR[x][by] = f \o <<>>
  BY <1>1 DEF RotR
<1>4. ASSUME NEW i \in 1 .. n
      PROVE  f[i] \in Limb
  <2>1. PICK p, q, r : /\ p = ((i - by \div 16 - 1) % n) + 1 /\ q = ((i - by \div 16 - 2) % n) + 1
                       /\ r = by % 16
    OBVIOUS
  <2>2. i - by \div 16 - 1 \in Int /\ i - by \div 16 - 2 \in Int
    BY <1>2
  <2>3. p \in 1 .. n /\ q \in 1 .. n
    BY <2>1, <2>2, Remainder
  <2>4. f[i] = Spliced(x[p], x[q], r)
    BY <2>1
  <2> QED
    BY <1>1, <1>2, <2>1, <2>3, <2>4, SplicedIs
<1>5. f = [i \in 1 .. n |-> f[i]]
  OBVIOUS
<1> HIDE DEF f
<1> QED
  BY <1>3, <1>4, <1>5, WordMade

(* A shifted word is a word. *)
LEMMA ShiftRIs ==
  ASSUME NEW n \in Nat, NEW x \in Word(n), NEW by \in 0 .. 15
  PROVE  ShiftR[x][by] \in Word(n)
<1>1. x \in Seq(Nat) /\ Len(x) = n /\ DOMAIN x = 1 .. n /\ \A i \in 1 .. n : x[i] \in Limb
  BY WordIs
<1> DEFINE f == [i \in 1 .. n |-> Spliced(x[i], IF i = 1 THEN 0 ELSE x[i - 1], by)]
<1>2. ShiftR[x][by] = f \o <<>>
  BY <1>1 DEF ShiftR
<1>3. ASSUME NEW i \in 1 .. n
      PROVE  f[i] \in Limb
  <2>1. PICK left \in Limb : left = IF i = 1 THEN 0 ELSE x[i - 1]
    <3>1. 0 \in Limb
      BY SMT DEF Limb, top
    <3>2. i = 1 \/ i - 1 \in 1 .. n
      OBVIOUS
    <3> QED
      BY <1>1, <3>1, <3>2
  <2>2. f[i] = Spliced(x[i], left, by)
    BY <2>1
  <2> QED
    BY <1>1, <2>2, SplicedIs
<1>4. f = [i \in 1 .. n |-> f[i]]
  OBVIOUS
<1> HIDE DEF f
<1> QED
  BY <1>2, <1>3, <1>4, WordMade

(* Ch and Maj give words. *)
LEMMA Mixes ==
  ASSUME NEW n \in Nat, n > 0, NEW x \in Word(n), NEW y \in Word(n), NEW z \in Word(n)
  PROVE  Ch(x, y, z) \in Word(n) /\ Maj(x, y, z) \in Word(n)
<1>1. Xor[y][z] \in Word(n)
  BY Bitwise3
<1>2. And[x][Xor[y][z]] \in Word(n)
  BY <1>1, Bitwise3
<1>3. Ch(x, y, z) \in Word(n)
  BY <1>2, Bitwise3 DEF Ch
<1>4. Or[x][y] \in Word(n) /\ And[x][y] \in Word(n)
  BY Bitwise3
<1>5. And[Or[x][y]][z] \in Word(n)
  BY <1>4, Bitwise3
<1> QED
  BY <1>3, <1>4, <1>5, Bitwise3 DEF Maj

(* The shift counts of a Sigma or Gamma function. *)
Shifts(by) == by[1] \in Nat /\ by[2] \in Nat /\ by[3] \in Nat

(* The Sigma and Gamma functions give words. *)
LEMMA SigmaIs ==
  ASSUME NEW n \in Nat, n > 0, NEW x \in Word(n), NEW by, Shifts(by)
  PROVE  Sigma(by, x) \in Word(n) /\ (by[3] < 16 => Gamma(by, x) \in Word(n))
<1>1. RotR[x][by[1]] \in Word(n) /\ RotR[x][by[2]] \in Word(n) /\ RotR[x][by[3]] \in Word(n)
  BY RotRIs DEF Shifts
<1>2. Xor[RotR[x][by[1]]][RotR[x][by[2]]] \in Word(n)
  BY <1>1, Bitwise3
<1>3. Sigma(by, x) \in Word(n)
  BY <1>1, <1>2, Bitwise3 DEF Sigma
<1>4. ASSUME by[3] < 16
      PROVE  Gamma(by, x) \in Word(n)
  <2>1. by[3] \in 0 .. 15
    BY <1>4 DEF Shifts
  <2>2. ShiftR[x][by[3]] \in Word(n)
    BY <2>1, ShiftRIs
  <2> QED
    BY <1>2, <2>2, Bitwise3 DEF Gamma
<1> QED
  BY <1>3, <1>4

-----------------------------------------------------------------------------
(* The constants and the parameters of the two algorithms. *)

(* Sequences of limbs of length n make a sequence of words. *)
LEMMA WordsFrom ==
  ASSUME NEW s \in Seq(Seq(Limb)), NEW n \in Nat, \A i \in 1 .. Len(s) : Len(s[i]) = n
  PROVE  s \in Seq(Word(n))
<1>1. \A i \in 1 .. Len(s) : s[i] \in Seq(Limb)
  OBVIOUS
<1>2. \A i \in 1 .. Len(s) : s[i] \in Word(n)
  BY <1>1 DEF Word
<1>3. s \in [1 .. Len(s) -> Word(n)]
  BY <1>2
<1> QED
  BY <1>3

(* A sequence of words is one of sequences of numbers. *)
LEMMA WordsAre ==
  ASSUME NEW n \in Nat, NEW s \in Seq(Word(n))
  PROVE  s \in Seq(Seq(Nat)) /\ \A i \in 1 .. Len(s) : s[i] \in Word(n) /\ s[i] \in Seq(Nat)
<1>1. Len(s) \in Nat /\ \A i \in 1 .. Len(s) : s[i] \in Word(n)
  OBVIOUS
<1>2. \A i \in 1 .. Len(s) : s[i] \in Seq(Nat)
  BY <1>1, WordIs
<1>3. s \in [1 .. Len(s) -> Seq(Nat)]
  BY <1>2
<1> QED
  BY <1>1, <1>2, <1>3

(* The parameters of the two algorithms. *)
Algs == {Sha256, Sha512}

(* What the proofs use of the parameters: blocks of 64 or 128 bytes. *)
LEMMA AlgFacts ==
  ASSUME NEW alg \in Algs
  PROVE  /\ alg.limbs \in {2, 4} /\ alg.block = 32 * alg.limbs /\ alg.room = alg.block - (4 * alg.limbs)
         /\ alg.rounds \in 16 .. 80
         /\ Shifts(alg.Sigma0) /\ Shifts(alg.Sigma1) /\ Shifts(alg.Gamma0) /\ Shifts(alg.Gamma1)
         /\ alg.Gamma0[3] < 16 /\ alg.Gamma1[3] < 16
  BY DEF Algs, Sha256, Sha512, Shifts

(* The elements and the length of two sequences joined ... *)
LEMMA TwoParts ==
  ASSUME NEW T, NEW s \in Seq(T), NEW t \in Seq(T)
  PROVE  s \o t \in Seq(T) /\ Len(s \o t) = Len(s) + Len(t)
  OBVIOUS

(* ... and of the five parts the constants are listed in. *)
LEMMA FiveParts ==
  ASSUME NEW T, NEW a \in Seq(T), NEW b \in Seq(T), NEW c \in Seq(T), NEW d \in Seq(T), NEW e \in Seq(T),
         Len(a) = 16, Len(b) = 16, Len(c) = 16, Len(d) = 16, Len(e) = 16
  PROVE  a \o b \o c \o d \o e \in Seq(T) /\ Len(a \o b \o c \o d \o e) = 80
<1>1. a \o b \in Seq(T) /\ Len(a \o b) = 32
  <2>1. a \o b \in Seq(T) /\ Len(a \o b) = Len(a) + Len(b)
    BY TwoParts
  <2> QED
    BY <2>1
<1>2. a \o b \o c \in Seq(T) /\ Len(a \o b \o c) = 48
  BY <1>1
<1>3. a \o b \o c \o d \in Seq(T) /\ Len(a \o b \o c \o d) = 64
  BY <1>2
<1> QED
  BY <1>3

(* K has 80 words of 64 bits. *)
LEMMA KWords == K \in Seq(Word(4)) /\ Len(K) = 80
<1>1. K0 \in Seq(Word(4)) /\ Len(K0) = 16
  <2>1. K0 \in Seq(Seq(Limb)) /\ Len(K0) = 16
    BY DEF K0, Limb, top
  <2>2. \A i \in 1 .. Len(K0) : Len(K0[i]) = 4
    BY DEF K0
  <2> QED
    BY <2>1, <2>2, WordsFrom
<1>2. K16 \in Seq(Word(4)) /\ Len(K16) = 16
  <2>1. K16 \in Seq(Seq(Limb)) /\ Len(K16) = 16
    BY DEF K16, Limb, top
  <2>2. \A i \in 1 .. Len(K16) : Len(K16[i]) = 4
    BY DEF K16
  <2> QED
    BY <2>1, <2>2, WordsFrom
<1>3. K32 \in Seq(Word(4)) /\ Len(K32) = 16
  <2>1. K32 \in Seq(Seq(Limb)) /\ Len(K32) = 16
    BY DEF K32, Limb, top
  <2>2. \A i \in 1 .. Len(K32) : Len(K32[i]) = 4
    BY DEF K32
  <2> QED
    BY <2>1, <2>2, WordsFrom
<1>4. K48 \in Seq(Word(4)) /\ Len(K48) = 16
  <2>1. K48 \in Seq(Seq(Limb)) /\ Len(K48) = 16
    BY DEF K48, Limb, top
  <2>2. \A i \in 1 .. Len(K48) : Len(K48[i]) = 4
    BY DEF K48
  <2> QED
    BY <2>1, <2>2, WordsFrom
<1>5. K64 \in Seq(Word(4)) /\ Len(K64) = 16
  <2>1. K64 \in Seq(Seq(Limb)) /\ Len(K64) = 16
    BY DEF K64, Limb, top
  <2>2. \A i \in 1 .. Len(K64) : Len(K64[i]) = 4
    BY DEF K64
  <2> QED
    BY <2>1, <2>2, WordsFrom
<1> QED
  BY <1>1, <1>2, <1>3, <1>4, <1>5, FiveParts DEF K

(* Narrow keeps the upper limbs of 64-bit words. *)
LEMMA Narrowed ==
  ASSUME NEW alg, alg.limbs \in {2, 4}, NEW words \in Seq(Word(4))
  PROVE  Narrow(alg, words) \in Seq(Word(alg.limbs)) /\ Len(Narrow(alg, words)) = Len(words)
<1> DEFINE f == [i \in 1 .. Len(words) |-> SubSeq(words[i], 1, alg.limbs)]
<1>1. Narrow(alg, words) = f \o <<>>
  BY DEF Narrow
<1>2. ASSUME NEW i \in 1 .. Len(words)
      PROVE  f[i] \in Word(alg.limbs)
  <2>1. PICK w \in Word(4) : w = words[i]
    OBVIOUS
  <2>2. \A l \in 1 .. 4 : w[l] \in Limb
    BY WordIs
  <2>3. PICK m \in Nat : m = alg.limbs /\ m \in 1 .. 4
    OBVIOUS
  <2>4. SubSeq(w, 1, m) \in Seq(Limb) /\ Len(SubSeq(w, 1, m)) = m
    <3>1. \A l \in 1 .. m : w[l] \in Limb
      BY <2>2, <2>3
    <3> QED
      BY <2>3, <3>1, SubSeqProperties
  <2> QED
    BY <2>1, <2>3, <2>4 DEF Word
<1>3. f = [i \in 1 .. Len(words) |-> f[i]] /\ Len(words) \in Nat
  OBVIOUS
<1> HIDE DEF f
<1> QED
  BY <1>1, <1>2, <1>3, Tupled

(* The round constants are words of the algorithm. *)
LEMMA KOfIs ==
  ASSUME NEW alg \in Algs
  PROVE  KOf(alg) \in Seq(Word(alg.limbs)) /\ Len(KOf(alg)) = 80
<1>1. CASE alg.limbs = 4
  BY <1>1, KWords DEF KOf
<1>2. CASE alg.limbs # 4
  <2>1. alg.limbs = 2 /\ Sha256.limbs = 2
    BY <1>2, AlgFacts DEF Sha256
  <2>2. K256 \in Seq(Word(2)) /\ Len(K256) = 80
    BY <2>1, KWords, Narrowed DEF K256
  <2> QED
    BY <1>2, <2>1, <2>2 DEF KOf
<1> QED
  BY <1>1, <1>2

(* The states of an algorithm. *)
States(alg) == {s \in Seq(Word(alg.limbs)) : Len(s) = 8}

(* The initial hash values are a state of the algorithm. *)
LEMMA FirstState ==
  ASSUME NEW alg \in Algs
  PROVE  Narrow(alg, InitialState) \in States(alg)
<1>1. InitialState \in Seq(Seq(Limb)) /\ Len(InitialState) = 8
  BY DEF InitialState, Limb, top
<1>2. \A i \in 1 .. Len(InitialState) : Len(InitialState[i]) = 4
  BY DEF InitialState
<1>3. InitialState \in Seq(Word(4))
  BY <1>1, <1>2, WordsFrom
<1> QED
  BY <1>1, <1>3, AlgFacts, Narrowed DEF States

(* The blocks of an algorithm. *)
Block(alg) == {b \in Seq(Byte) : Len(b) = alg.block}

(* Two bytes make a limb. *)
LEMMA ByteLimb ==
  ASSUME NEW a \in Byte, NEW b \in Byte
  PROVE  (256 * a) + b \in Limb
  BY PlaceOf

(* A block is loaded as sixteen words. *)
LEMMA Loaded ==
  ASSUME NEW alg \in Algs, NEW b \in Block(alg)
  PROVE  Load(alg, b) \in Seq(Word(alg.limbs)) /\ Len(Load(alg, b)) = 16
<1> DEFINE n == alg.limbs
           At(i, l) == 2 * n * (i - 1) + 2 * l
           g(i) == [l \in 1 .. n |-> 256 * b[2 * n * (i - 1) + 2 * l - 1] + b[2 * n * (i - 1) + 2 * l]]
           f == [i \in 1 .. 16 |-> g(i) \o <<>>]
<1>1. n \in {2, 4} /\ alg.block = 32 * n
  BY AlgFacts
<1>2. b \in Seq(Byte) /\ \A k \in 1 .. 32 * n : b[k] \in Byte
  BY <1>1 DEF Block
<1>3. Load(alg, b) = f \o <<>>
  BY DEF Load
<1>4. ASSUME NEW i \in 1 .. 16
      PROVE  g(i) \o <<>> \in Word(n)
  <2> DEFINE h == g(i)
  <2>1. ASSUME NEW l \in 1 .. n
        PROVE  h[l] \in Limb
    <3>1. PICK p : p = At(i, l)
      OBVIOUS
    <3>2. p \in 1 .. 32 * n /\ p - 1 \in 1 .. 32 * n
      <4>1. CASE n = 2
        BY <3>1, <4>1
      <4>2. CASE n = 4
        BY <3>1, <4>2
      <4> QED
        BY <1>1, <4>1, <4>2
    <3>3. h[l] = (256 * b[p - 1]) + b[p]
      <4>1. 2 * n * (i - 1) + 2 * l - 1 = p - 1
        BY <1>1, <3>1
      <4> QED
        BY <3>1, <4>1
    <3>4. b[p - 1] \in Byte /\ b[p] \in Byte
      BY <1>2, <3>2
    <3> QED
      BY <3>3, <3>4, ByteLimb
  <2>2. h = [l \in 1 .. n |-> h[l]] /\ n \in Nat
    BY <1>1
  <2> HIDE DEF h
  <2>3. h \o <<>> \in Word(n)
    BY <2>1, <2>2, WordMade
  <2> QED
    BY <2>3 DEF h
<1>5. \A i \in 1 .. 16 : f[i] \in Word(n)
  BY <1>4
<1>6. f = [i \in 1 .. 16 |-> f[i]]
  OBVIOUS
<1> HIDE DEF f, n
<1>7. f \o <<>> \in Seq(Word(n)) /\ Len(f \o <<>>) = 16
  BY <1>5, <1>6, Tupled
<1> QED
  BY <1>3, <1>7 DEF n

-----------------------------------------------------------------------------
(* The compression function. *)

(* The schedule with k words after the first sixteen. *)
ScheduleWords(alg, k) == {w \in Seq(Word(alg.limbs)) : Len(w) = 16 + k}
NextScheduled(alg, w, i) ==
  Plus[Plus[Gamma(alg.Gamma1, w[i - 2])][w[i - 7]]][Plus[Gamma(alg.Gamma0, w[i - 15])][w[i - 16]]]

(* The schedule extends them to one word for each round. *)
LEMMA Scheduled ==
  ASSUME NEW alg \in Algs, NEW b \in Block(alg)
  PROVE  Schedule(alg, b) \in ScheduleWords(alg, alg.rounds - 16)
<1> DEFINE n == alg.limbs
           m == alg.rounds - 16
           step == [w \in Seq(Seq(Nat)) |-> [i \in Nat |->
                      Append(w, Plus[Plus[Gamma(alg.Gamma1, w[i - 2])][w[i - 7]]]
                                    [Plus[Gamma(alg.Gamma0, w[i - 15])][w[i - 16]]])]]
           s == [i \in 1 .. m |-> i + 16]
           J == [k \in 0 .. m |-> ScheduleWords(alg, k)]
<1>1. /\ n \in Nat /\ n > 0 /\ m \in Nat
      /\ Shifts(alg.Gamma0) /\ Shifts(alg.Gamma1) /\ alg.Gamma0[3] < 16 /\ alg.Gamma1[3] < 16
  BY AlgFacts
<1>2. Schedule(alg, b) = Along(step, Load(alg, b), s)
  BY DEF Schedule
<1>3. s \in Seq(Nat) /\ Len(s) = m /\ \A k \in 1 .. m : s[k] = k + 16
  BY <1>1
<1>4. Load(alg, b) \in ScheduleWords(alg, 0)
  BY Loaded DEF ScheduleWords
<1>5. \A w \in Seq(Seq(Nat)) : \A i \in Nat : step[w][i] = Append(w, NextScheduled(alg, w, i))
  BY DEF NextScheduled
<1>6. J[0] = ScheduleWords(alg, 0) /\ J[m] = ScheduleWords(alg, m)
      /\ \A k \in 1 .. m : J[k - 1] = ScheduleWords(alg, k - 1) /\ J[k] = ScheduleWords(alg, k)
  BY <1>1
<1> HIDE DEF n, m, step, s, J
<1>7. ASSUME NEW k \in 1 .. m, NEW w \in ScheduleWords(alg, k - 1), NEW i, i = k + 16
      PROVE  Append(w, NextScheduled(alg, w, i)) \in ScheduleWords(alg, k) /\ w \in Seq(Seq(Nat)) /\ i \in Nat
  <2>1. w \in Seq(Word(n)) /\ Len(w) = i - 1 /\ i \in Nat
    BY <1>7 DEF ScheduleWords, n
  <2>2. i - 2 \in 1 .. i - 1 /\ i - 7 \in 1 .. i - 1 /\ i - 15 \in 1 .. i - 1 /\ i - 16 \in 1 .. i - 1
    BY <1>7
  <2>3. w[i - 2] \in Word(n) /\ w[i - 7] \in Word(n) /\ w[i - 15] \in Word(n) /\ w[i - 16] \in Word(n)
    BY <2>1, <2>2
  <2>4. Gamma(alg.Gamma1, w[i - 2]) \in Word(n) /\ Gamma(alg.Gamma0, w[i - 15]) \in Word(n)
    BY <1>1, <2>3, SigmaIs
  <2>5. /\ Plus[Gamma(alg.Gamma1, w[i - 2])][w[i - 7]] \in Word(n)
        /\ Plus[Gamma(alg.Gamma0, w[i - 15])][w[i - 16]] \in Word(n)
    BY <1>1, <2>3, <2>4, PlusIs
  <2>6. NextScheduled(alg, w, i) \in Word(n)
    BY <1>1, <2>5, PlusIs DEF NextScheduled
  <2>7. Append(w, NextScheduled(alg, w, i)) \in Seq(Word(n)) /\ Len(Append(w, NextScheduled(alg, w, i))) = Len(w) + 1
    BY <2>1, <2>6
  <2>8. Len(w) + 1 = 16 + k
    BY <1>7, <2>1
  <2> QED
    BY <1>1, <2>1, <2>7, <2>8, WordsAre DEF ScheduleWords, n
<1>8. \A k \in 1 .. Len(s) : \A w \in J[k - 1] : step[w][s[k]] \in J[k]
  <2> TAKE k \in 1 .. Len(s)
  <2> TAKE w \in J[k - 1]
  <2>1. PICK i : i = k + 16
    OBVIOUS
  <2>2. k \in 1 .. m /\ w \in ScheduleWords(alg, k - 1) /\ s[k] = i
    BY <1>3, <1>6, <2>1
  <2>3. step[w][i] \in ScheduleWords(alg, k)
    BY <1>5, <1>7, <2>1, <2>2
  <2> QED
    BY <1>6, <2>2, <2>3
<1>9. Along(step, Load(alg, b), s) \in J[Len(s)]
  BY <1>3, <1>4, <1>6, <1>8, AlongInvariant
<1> QED
  BY <1>2, <1>3, <1>6, <1>9 DEF m

(* What a state of eight words is. *)
LEMMA StateIs ==
  ASSUME NEW alg \in Algs, NEW s \in States(alg)
  PROVE  /\ s \in Seq(Seq(Nat)) /\ Len(s) = 8 /\ DOMAIN s = 1 .. 8
         /\ \A i \in 1 .. 8 : s[i] \in Word(alg.limbs)
<1>1. PICK n \in Nat : n = alg.limbs
  BY AlgFacts
<1>2. s \in Seq(Word(n)) /\ Len(s) = 8
  BY <1>1 DEF States
<1>3. s \in Seq(Seq(Nat)) /\ \A i \in 1 .. Len(s) : s[i] \in Word(n)
  BY <1>2, WordsAre
<1>4. DOMAIN s = 1 .. 8
  BY <1>2
<1> QED
  BY <1>1, <1>2, <1>3, <1>4

(* A round takes a state to a state. *)
LEMMA RoundIs ==
  ASSUME NEW alg \in Algs, NEW s \in States(alg), NEW kw \in Word(alg.limbs)
  PROVE  Rnd(alg, s, kw) \in States(alg)
<1> DEFINE n == alg.limbs
<1>1. n \in Nat /\ n > 0 /\ Shifts(alg.Sigma0) /\ Shifts(alg.Sigma1)
  BY AlgFacts
<1>2. s \in Seq(Seq(Nat)) /\ \A i \in 1 .. 8 : s[i] \in Word(n)
  BY StateIs
<1> HIDE DEF n
<1>3. /\ s[1] \in Word(n) /\ s[2] \in Word(n) /\ s[3] \in Word(n) /\ s[4] \in Word(n)
      /\ s[5] \in Word(n) /\ s[6] \in Word(n) /\ s[7] \in Word(n) /\ s[8] \in Word(n)
  BY <1>2
<1>4. /\ Sigma(alg.Sigma1, s[5]) \in Word(n) /\ Sigma(alg.Sigma0, s[1]) \in Word(n)
      /\ Ch(s[5], s[6], s[7]) \in Word(n) /\ Maj(s[1], s[2], s[3]) \in Word(n)
  BY <1>1, <1>3, SigmaIs, Mixes
<1> DEFINE t0 == Plus[Plus[s[8]][Sigma(alg.Sigma1, s[5])]][Plus[Ch(s[5], s[6], s[7])][kw]]
           t1 == Plus[Sigma(alg.Sigma0, s[1])][Maj(s[1], s[2], s[3])]
<1>5. kw \in Word(n)
  BY DEF n
<1>6. Plus[s[8]][Sigma(alg.Sigma1, s[5])] \in Word(n) /\ Plus[Ch(s[5], s[6], s[7])][kw] \in Word(n)
  BY <1>1, <1>3, <1>4, <1>5, PlusIs
<1>7. t0 \in Word(n) /\ t1 \in Word(n)
  BY <1>1, <1>4, <1>6, PlusIs
<1>8. Rnd(alg, s, kw) = Moved[s][t0][t1]
  BY DEF Rnd
<1> HIDE DEF t0, t1
<1>9. Plus[t0][t1] \in Word(n) /\ Plus[s[4]][t0] \in Word(n)
  BY <1>1, <1>3, <1>7, PlusIs
<1>10. t0 \in Seq(Nat) /\ t1 \in Seq(Nat)
  BY <1>1, <1>7, WordIs
<1>11. Moved[s][t0][t1] = <<Plus[t0][t1], s[1], s[2], s[3], Plus[s[4]][t0], s[5], s[6], s[7]>>
  BY <1>2, <1>10 DEF Moved
<1> QED
  BY <1>3, <1>8, <1>9, <1>11 DEF States, n

(* So do all the rounds with the addition at the end. *)
LEMMA CompressedIs ==
  ASSUME NEW alg \in Algs, NEW state \in States(alg), NEW w \in ScheduleWords(alg, alg.rounds - 16)
  PROVE  Compressed(alg, state, w) \in States(alg)
<1> DEFINE n == alg.limbs
           m == alg.rounds
           step == [s \in Seq(Seq(Nat)) |-> [i \in Nat |-> Rnd(alg, s, Plus[KOf(alg)[i]][w[i]])]]
           s == [i \in 1 .. m |-> i]
           J == [k \in 0 .. m |-> States(alg)]
<1>1. n \in Nat /\ m \in 16 .. 80 /\ w \in Seq(Word(n)) /\ Len(w) = m
  <2>1. alg.limbs \in Nat /\ alg.rounds \in 16 .. 80
    BY AlgFacts
  <2>2. w \in Seq(Word(n)) /\ Len(w) = 16 + (alg.rounds - 16)
    BY DEF ScheduleWords
  <2>3. 16 + (alg.rounds - 16) = alg.rounds
    BY <2>1
  <2> QED
    BY <2>1, <2>2, <2>3
<1>2. KOf(alg) \in Seq(Word(n)) /\ Len(KOf(alg)) = 80
  BY KOfIs
<1>3. Compressed(alg, state, w) = Along(step, state, s)
  BY DEF Compressed
<1>4. s \in Seq(Nat) /\ Len(s) = m /\ \A k \in 1 .. m : s[k] = k
  BY <1>1
<1>5. \A x \in Seq(Seq(Nat)) : \A i \in Nat : step[x][i] = Rnd(alg, x, Plus[KOf(alg)[i]][w[i]])
  OBVIOUS
<1>6. \A k \in 0 .. m : J[k] = States(alg)
  OBVIOUS
<1> HIDE DEF n, m, step, s, J
<1>7. ASSUME NEW k \in 1 .. m, NEW x \in States(alg)
      PROVE  step[x][k] \in States(alg)
  <2>1. KOf(alg)[k] \in Word(n) /\ w[k] \in Word(n)
    <3>1. PICK ks : ks = KOf(alg)
      OBVIOUS
    <3>2. m \in Nat /\ m <= 80
      BY ONLY <1>1
    <3>3. ks \in Seq(Word(n)) /\ w \in Seq(Word(n)) /\ k \in 1 .. Len(ks) /\ k \in 1 .. Len(w)
      <4>1. w \in Seq(Word(n)) /\ Len(w) = m
        BY ONLY <1>1
      <4>2. k \in Int /\ 1 <= k /\ k <= m
        BY <3>2
      <4>3. ks \in Seq(Word(n)) /\ Len(ks) = 80
        BY ONLY <1>2, <3>1
      <4> QED
        BY ONLY <3>2, <4>1, <4>2, <4>3
    <3>4. ks[k] \in Word(n)
      BY ONLY <3>3, ElementOfSeq
    <3>5. w[k] \in Word(n)
      BY ONLY <3>3, ElementOfSeq
    <3> QED
      BY <3>1, <3>4, <3>5
  <2>2. Plus[KOf(alg)[k]][w[k]] \in Word(n)
    BY <1>1, <2>1, PlusIs
  <2>3. Rnd(alg, x, Plus[KOf(alg)[k]][w[k]]) \in States(alg)
    BY <2>2, RoundIs DEF n
  <2>4. x \in Seq(Seq(Nat)) /\ k \in Nat
    BY StateIs
  <2> QED
    BY <1>5, <2>3, <2>4
<1>8. \A k \in 1 .. Len(s) : \A x \in J[k - 1] : step[x][s[k]] \in J[k]
  <2> TAKE k \in 1 .. Len(s)
  <2>1. k \in 1 .. m /\ s[k] = k /\ k - 1 \in 0 .. m /\ k \in 0 .. m
    BY <1>1, <1>4
  <2> QED
    BY <1>6, <1>7, <2>1
<1>9. state \in J[0] /\ J[Len(s)] = States(alg)
  BY <1>1, <1>4, <1>6
<1> QED
  BY <1>3, <1>4, <1>8, <1>9, AlongInvariant

(* compress takes a state and a block to a state: no word, of either       *)
(* width, outgrows its limbs.                                              *)
LEMMA CompressIs ==
  ASSUME NEW alg \in Algs, NEW state \in States(alg), NEW b \in Block(alg)
  PROVE  compress[alg][state][b] \in States(alg)
<1> DEFINE x == state
           y == Compressed(alg, state, Schedule(alg, b))
           f == [i \in 1 .. 8 |-> Plus[x[i]][y[i]]]
<1>1. b \in Seq(Nat)
  <2>1. b \in Seq(Byte)
    BY DEF Block
  <2>2. \A i \in 1 .. Len(b) : b[i] \in Nat
    <3>1. \A k \in Byte : k \in Nat
      BY DEF Byte
    <3> QED
      BY <2>1, <3>1
  <2> QED
    BY <2>1, <2>2
<1>2. x \in Seq(Seq(Nat)) /\ DOMAIN x = 1 .. 8 /\ \A i \in 1 .. 8 : x[i] \in Word(alg.limbs)
  BY StateIs
<1>3. y \in States(alg)
  BY Scheduled, CompressedIs
<1>4. compress[alg][state][b] = Sums[x][y]
  BY <1>1, <1>2 DEF compress, Algs
<1> HIDE DEF y
<1>5. y \in Seq(Seq(Nat)) /\ \A i \in 1 .. 8 : y[i] \in Word(alg.limbs)
  BY <1>3, StateIs
<1>6. Sums[x][y] = f \o <<>>
  BY <1>2, <1>5 DEF Sums
<1>7. f = [i \in 1 .. 8 |-> f[i]] /\ \A i \in 1 .. 8 : f[i] = Plus[x[i]][y[i]]
  OBVIOUS
<1> HIDE DEF f
<1>8. \A i \in 1 .. 8 : f[i] \in Word(alg.limbs)
  <2>1. alg.limbs \in Nat
    BY AlgFacts
  <2> QED
    BY <1>2, <1>5, <1>7, <2>1, PlusIs
<1>9. f \o <<>> \in Seq(Word(alg.limbs)) /\ Len(f \o <<>>) = 8
  BY <1>7, <1>8, Tupled
<1> QED
  BY <1>4, <1>6, <1>9 DEF States

-----------------------------------------------------------------------------
(* Parts of a sequence. *)

(* The bytes after the first a up to the one at b. *)
Part(s, a, b) == SubSeq(s, a + 1, b)
IsPart(u, T, s, a, b) == u \in Seq(T) /\ Len(u) = b - a /\ \A i \in 1 .. b - a : u[i] = s[a + i]
IsJoin(w, T, s, t) ==
    /\ w \in Seq(T) /\ Len(w) = Len(s) + Len(t)
    /\ \A i \in 1 .. Len(s) : w[i] = s[i]
    /\ \A i \in 1 .. Len(t) : w[Len(s) + i] = t[i]

(* Sequences of one length with equal elements are equal. *)
LEMMA SameSeq ==
  ASSUME NEW T, NEW s \in Seq(T), NEW t \in Seq(T), Len(s) = Len(t), \A i \in 1 .. Len(s) : s[i] = t[i]
  PROVE  s = t
  OBVIOUS

(* The elements of a part. *)
LEMMA PartIs ==
  ASSUME NEW T, NEW s \in Seq(T), NEW a \in Nat, NEW b \in Nat, a <= b, b <= Len(s)
  PROVE  IsPart(Part(s, a, b), T, s, a, b)
<1>1. \A i \in (a + 1) .. b : s[i] \in T
  OBVIOUS
<1>2. PICK m \in Int : m = a + 1
  OBVIOUS
<1>3. /\ SubSeq(s, m, b) \in Seq(T)
      /\ Len(SubSeq(s, m, b)) = IF m <= b THEN b - m + 1 ELSE 0
      /\ \A i \in 1 .. b - m + 1 : SubSeq(s, m, b)[i] = s[m + i - 1]
  BY <1>1, <1>2, SubSeqProperties
<1>4. \A i \in 1 .. b - a : SubSeq(s, m, b)[i] = s[a + i]
  <2> TAKE i \in 1 .. b - a
  <2>1. i \in 1 .. b - m + 1 /\ m + i - 1 = a + i
    BY <1>2
  <2> QED
    BY <1>3, <2>1
<1>5. Len(SubSeq(s, m, b)) = b - a
  BY <1>2, <1>3
<1> QED
  BY <1>2, <1>3, <1>4, <1>5 DEF Part, IsPart

(* The elements of two sequences joined. *)
LEMMA JoinIs ==
  ASSUME NEW T, NEW s \in Seq(T), NEW t \in Seq(T)
  PROVE  IsJoin(s \o t, T, s, t)
  BY DEF IsJoin

(* Neighbouring parts joined. *)
LEMMA PartsJoin ==
  ASSUME NEW T, NEW s \in Seq(T), NEW a \in Nat, NEW b \in Nat, NEW c \in Nat, a <= b, b <= c, c <= Len(s)
  PROVE  Part(s, a, b) \o Part(s, b, c) = Part(s, a, c)
<1>1. PICK u, v, w : u = Part(s, a, b) /\ v = Part(s, b, c) /\ w = Part(s, a, c)
  OBVIOUS
<1>2. u \in Seq(T) /\ Len(u) = b - a /\ \A i \in 1 .. b - a : u[i] = s[a + i]
  <2>1. IsPart(u, T, s, a, b)
    BY <1>1, PartIs
  <2> QED
    BY <2>1 DEF IsPart
<1>3. v \in Seq(T) /\ Len(v) = c - b /\ \A i \in 1 .. c - b : v[i] = s[b + i]
  <2>1. IsPart(v, T, s, b, c)
    BY <1>1, PartIs
  <2> QED
    BY <2>1 DEF IsPart
<1>4. w \in Seq(T) /\ Len(w) = c - a /\ \A i \in 1 .. c - a : w[i] = s[a + i]
  <2>1. IsPart(w, T, s, a, c)
    BY <1>1, PartIs
  <2> QED
    BY <2>1 DEF IsPart
<1>5. /\ u \o v \in Seq(T) /\ Len(u \o v) = c - a
      /\ \A i \in 1 .. b - a : (u \o v)[i] = u[i]
      /\ \A i \in 1 .. c - b : (u \o v)[b - a + i] = v[i]
  <2>1. IsJoin(u \o v, T, u, v)
    BY <1>2, <1>3, JoinIs
  <2>2. (b - a) + (c - b) = c - a
    OBVIOUS
  <2> QED
    BY <1>2, <1>3, <2>1, <2>2 DEF IsJoin
<1>6. ASSUME NEW i \in 1 .. c - a
      PROVE  (u \o v)[i] = w[i]
  <2>0. i <= b - a \/ i > b - a
    OBVIOUS
  <2>1. CASE i <= b - a
    BY <1>2, <1>4, <1>5, <2>1
  <2>2. CASE i > b - a
    <3>1. PICK j \in 1 .. c - b : j = i - (b - a) /\ i = b - a + j /\ a + i = b + j
      BY <2>2
    <3>2. (u \o v)[i] = v[j] /\ v[j] = s[b + j] /\ w[i] = s[a + i]
      BY <1>3, <1>4, <1>5, <3>1
    <3> QED
      BY <3>1, <3>2
  <2> QED
    BY <2>0, <2>1, <2>2
<1>7. u \o v = w
  BY <1>4, <1>5, <1>6, SameSeq
<1> QED
  BY <1>1, <1>7

(* A part of what is left of a sequence is a part of the sequence. *)
LEMMA PartOfRest ==
  ASSUME NEW T, NEW s \in Seq(T), NEW p \in Nat, NEW a \in Nat, NEW b \in Nat, a <= b, p + b <= Len(s),
         NEW c, c = p + a, NEW d, d = p + b
  PROVE  Part(Part(s, p, Len(s)), a, b) = Part(s, c, d)
<1>1. Len(s) \in Nat /\ c \in Nat /\ d \in Nat
  OBVIOUS
<1>2. PICK n \in Nat : n = Len(s)
  BY <1>1
<1>3. PICK r, u, v : r = Part(s, p, n) /\ u = Part(r, a, b) /\ v = Part(s, c, d)
  OBVIOUS
<1>4. r \in Seq(T) /\ Len(r) = n - p /\ \A i \in 1 .. n - p : r[i] = s[p + i]
  <2>1. IsPart(r, T, s, p, n)
    BY <1>2, <1>3, PartIs
  <2> QED
    BY <2>1 DEF IsPart
<1>5. u \in Seq(T) /\ Len(u) = b - a /\ \A i \in 1 .. b - a : u[i] = r[a + i]
  <2>1. b <= Len(r)
    BY <1>2, <1>4
  <2> QED
    <3>1. IsPart(u, T, r, a, b)
      BY <1>3, <1>4, <2>1, PartIs
    <3> QED
      BY <3>1 DEF IsPart
<1>6. v \in Seq(T) /\ Len(v) = b - a /\ \A i \in 1 .. b - a : v[i] = s[c + i]
  <2>1. c <= d /\ d <= Len(s) /\ d - c = b - a
    OBVIOUS
  <2>2. v \in Seq(T) /\ Len(v) = d - c /\ \A i \in 1 .. d - c : v[i] = s[c + i]
    <3>1. IsPart(v, T, s, c, d)
      BY <1>1, <1>3, <2>1, PartIs
    <3> QED
      BY <3>1 DEF IsPart
  <2> QED
    BY <2>1, <2>2
<1>7. ASSUME NEW i \in 1 .. b - a
      PROVE  u[i] = v[i]
  <2>1. PICK j \in 1 .. n - p : j = a + i /\ p + j = c + i
    BY <1>2
  <2> QED
    BY <1>4, <1>5, <1>6, <2>1
<1>8. u = v
  BY <1>5, <1>6, <1>7, SameSeq
<1> QED
  BY <1>2, <1>3, <1>8

(* The parts of a sequence with something after it. *)
LEMMA PartHead ==
  ASSUME NEW T, NEW s \in Seq(T), NEW t \in Seq(T), NEW a \in Nat, NEW b \in Nat, a <= b, b <= Len(s)
  PROVE  Part(s \o t, a, b) = Part(s, a, b)
<1>1. PICK r : r = s \o t
  OBVIOUS
<1>2. r \in Seq(T) /\ Len(r) = Len(s) + Len(t) /\ \A i \in 1 .. Len(s) : r[i] = s[i]
  BY <1>1, JoinIs DEF IsJoin
<1>3. b <= Len(r)
  BY <1>2
<1>4. PICK u, v : u = Part(r, a, b) /\ v = Part(s, a, b)
  OBVIOUS
<1>5. u \in Seq(T) /\ Len(u) = b - a /\ \A i \in 1 .. b - a : u[i] = r[a + i]
  <2>1. IsPart(u, T, r, a, b)
    BY <1>2, <1>3, <1>4, PartIs
  <2> QED
    BY <2>1 DEF IsPart
<1>6. v \in Seq(T) /\ Len(v) = b - a /\ \A i \in 1 .. b - a : v[i] = s[a + i]
  <2>1. IsPart(v, T, s, a, b)
    BY <1>4, PartIs
  <2> QED
    BY <2>1 DEF IsPart
<1>7. \A i \in 1 .. b - a : r[a + i] = s[a + i]
  <2> TAKE i \in 1 .. b - a
  <2>1. a + i \in 1 .. Len(s)
    OBVIOUS
  <2> QED
    BY <1>2, <2>1
<1>8. u = v
  BY <1>5, <1>6, <1>7, SameSeq
<1> QED
  BY <1>1, <1>4, <1>8

(* The last part takes in all that is appended. *)
LEMMA PartTail ==
  ASSUME NEW T, NEW s \in Seq(T), NEW t \in Seq(T), NEW a \in Nat, a <= Len(s),
         NEW c, c = Len(s) + Len(t)
  PROVE  Part(s \o t, a, c) = Part(s, a, Len(s)) \o t
<1>1. PICK r, n, m : r = s \o t /\ n = Len(s) /\ m = Len(t)
  OBVIOUS
<1>2. /\ n \in Nat /\ m \in Nat /\ r \in Seq(T) /\ Len(r) = n + m
      /\ \A i \in 1 .. n : r[i] = s[i]
      /\ \A i \in 1 .. m : r[n + i] = t[i]
  BY <1>1, JoinIs DEF IsJoin
<1>3. PICK u, v, w : u = Part(r, a, c) /\ v = Part(s, a, n) /\ w = v \o t
  OBVIOUS
<1>4. u \in Seq(T) /\ Len(u) = c - a /\ \A i \in 1 .. c - a : u[i] = r[a + i]
  <2>1. c \in Nat /\ a <= c /\ c <= Len(r)
    BY <1>1, <1>2
  <2> QED
    <3>1. IsPart(u, T, r, a, c)
      BY <1>2, <1>3, <2>1, PartIs
    <3> QED
      BY <3>1 DEF IsPart
<1>5. v \in Seq(T) /\ Len(v) = n - a /\ \A i \in 1 .. n - a : v[i] = s[a + i]
  <2>1. IsPart(v, T, s, a, n)
    BY <1>1, <1>2, <1>3, PartIs
  <2> QED
    BY <2>1 DEF IsPart
<1>6. /\ w \in Seq(T) /\ Len(w) = c - a
      /\ \A i \in 1 .. n - a : w[i] = v[i]
      /\ \A i \in 1 .. m : w[n - a + i] = t[i]
  <2>1. IsJoin(w, T, v, t)
    BY <1>3, <1>5, JoinIs
  <2>2. (n - a) + m = c - a
    BY <1>1, <1>2
  <2> QED
    BY <1>1, <1>5, <2>1, <2>2 DEF IsJoin
<1>7. ASSUME NEW i \in 1 .. c - a
      PROVE  u[i] = w[i]
  <2>1. CASE i <= n - a
    <3>1. i \in 1 .. n - a /\ a + i \in 1 .. n
      BY <1>1, <1>2, <2>1
    <3> QED
      BY <1>2, <1>4, <1>5, <1>6, <3>1
  <2>2. CASE i > n - a
    <3>1. PICK j \in 1 .. m : j = i - (n - a) /\ i = n - a + j /\ a + i = n + j
      <4>1. PICK j \in Int : j = i - (n - a)
        BY <1>2
      <4>2. c - a = (n - a) + m
        BY <1>1, <1>2
      <4>3. j \in 1 .. m /\ i = n - a + j /\ a + i = n + j
        BY <1>2, <2>2, <4>1, <4>2
      <4> QED
        BY <4>1, <4>3
    <3>2. u[i] = r[a + i] /\ r[n + j] = t[j] /\ w[n - a + j] = t[j]
      BY <1>2, <1>4, <1>6, <3>1
    <3> QED
      BY <3>1, <3>2
  <2> QED
    BY <1>1, <1>2, <2>1, <2>2
<1>8. u = w
  BY <1>4, <1>6, <1>7, SameSeq
<1> QED
  BY <1>1, <1>3, <1>8

(* An empty part. *)
LEMMA PartNone ==
  ASSUME NEW T, NEW s \in Seq(T), NEW a \in Nat, a <= Len(s)
  PROVE  Part(s, a, a) = <<>>
<1>1. Part(s, a, a) \in Seq(T) /\ Len(Part(s, a, a)) = 0
  <2>1. Part(s, a, a) \in Seq(T) /\ Len(Part(s, a, a)) = a - a
    BY PartIs DEF IsPart
  <2>2. a - a = 0
    OBVIOUS
  <2> QED
    BY <2>1, <2>2
<1> QED
  BY <1>1

-----------------------------------------------------------------------------
(* The blocks of a message, compressed one after the other. *)

(* Bytes are numbers. *)
LEMMA BytesAre ==
  ASSUME NEW b \in Seq(Byte)
  PROVE  b \in Seq(Nat)
<1>1. \A k \in Byte : k \in Nat
  BY DEF Byte
<1> QED
  BY <1>1

(* Block k of a message, and the state after its first q blocks. *)
BlockAt(alg, m, k) == SubSeq(m, alg.block * (k - 1) + 1, alg.block * k)
ChainStep(alg, m) == [s \in Seq(Seq(Nat)) |-> [k \in Nat |-> compress[alg][s][BlockAt(alg, m, k)]]]
Upto(q) == [k \in 1 .. q |-> k]
Chain(alg, m, q) == Along(ChainStep(alg, m), Narrow(alg, InitialState), Upto(q))

(* The numbers from one to q. *)
LEMMA UptoIs ==
  ASSUME NEW q \in Nat
  PROVE  Upto(q) \in Seq(Nat) /\ Len(Upto(q)) = q /\ \A k \in 1 .. q : Upto(q)[k] = k
  BY DEF Upto

(* The block sizes. *)
LEMMA BlockSize ==
  ASSUME NEW alg \in Algs
  PROVE  alg.block \in Nat /\ alg.block \in {64, 128} /\ alg.block > 0
  BY AlgFacts

(* Block k is the part between two multiples of the block size. *)
LEMMA BlockIsPart ==
  ASSUME NEW alg \in Algs, NEW m, NEW k \in Nat, k > 0, NEW a, a = alg.block * (k - 1), NEW b, b = alg.block * k
  PROVE  BlockAt(alg, m, k) = Part(m, a, b) /\ a \in Nat /\ b \in Nat /\ b = a + alg.block /\ a <= b
<1>1. alg.block \in Nat
  BY BlockSize
<1>2. alg.block * k = (alg.block * (k - 1)) + alg.block
  BY <1>1, SMT
<1>3. k - 1 \in Nat
  OBVIOUS
<1>4. alg.block * (k - 1) \in Nat
  BY <1>1, <1>3, SMT
<1>5. a \in Nat /\ b \in Nat /\ b = a + alg.block /\ a <= b
  BY <1>1, <1>2, <1>4
<1>6. BlockAt(alg, m, k) = Part(m, a, b)
  BY DEF BlockAt, Part
<1> QED
  BY <1>5, <1>6

(* A block that lies in the message has the size and the bytes of one. *)
LEMMA BlockIs ==
  ASSUME NEW alg \in Algs, NEW m \in Seq(Byte), NEW k \in Nat, k > 0, alg.block * k <= Len(m)
  PROVE  BlockAt(alg, m, k) \in Block(alg)
<1>1. PICK a, b : a = alg.block * (k - 1) /\ b = alg.block * k
  OBVIOUS
<1>2. BlockAt(alg, m, k) = Part(m, a, b) /\ a \in Nat /\ b \in Nat /\ b = a + alg.block /\ a <= b
  BY <1>1, BlockIsPart
<1>3. IsPart(Part(m, a, b), Byte, m, a, b)
  BY <1>1, <1>2, PartIs
<1>4. b - a = alg.block
  BY <1>2, BlockSize
<1> QED
  BY <1>2, <1>3, <1>4 DEF IsPart, Block

(* A step of the chain compresses one block. *)
LEMMA StepIs ==
  ASSUME NEW alg \in Algs, NEW m \in Seq(Byte), NEW k \in Nat, k > 0, alg.block * k <= Len(m),
         NEW s \in States(alg)
  PROVE  ChainStep(alg, m)[s][k] = compress[alg][s][BlockAt(alg, m, k)] /\ ChainStep(alg, m)[s][k] \in States(alg)
<1>1. s \in Seq(Seq(Nat))
  BY StateIs
<1>2. ChainStep(alg, m)[s][k] = compress[alg][s][BlockAt(alg, m, k)]
  BY <1>1 DEF ChainStep
<1>3. compress[alg][s][BlockAt(alg, m, k)] \in States(alg)
  BY BlockIs, CompressIs
<1> QED
  BY <1>2, <1>3

(* If q blocks lie in the message, each of the first q does. *)
LEMMA Within1 ==
  ASSUME NEW alg \in Algs, NEW q \in Nat, NEW l \in Nat, alg.block * q <= l, NEW k \in 1 .. q
  PROVE  alg.block * k <= l /\ k \in Nat /\ k > 0
<1>1. alg.block \in Nat
  BY BlockSize
<1>2. alg.block * (q - k) >= 0
  BY <1>1, SMT
<1>3. alg.block * k <= alg.block * q
  BY <1>1, <1>2, SMT
<1>4. alg.block * k \in Int /\ alg.block * q \in Int
  BY <1>1, SMT
<1> QED
  BY <1>3, <1>4

(* The chain goes through states of the algorithm. *)
LEMMA ChainIs ==
  ASSUME NEW alg \in Algs, NEW m \in Seq(Byte), NEW q \in Nat, alg.block * q <= Len(m)
  PROVE  Chain(alg, m, q) \in States(alg)
<1> DEFINE step == ChainStep(alg, m)
           s == Upto(q)
           J == [k \in 0 .. q |-> States(alg)]
<1>1. s \in Seq(Nat) /\ Len(s) = q /\ \A k \in 1 .. q : s[k] = k
  BY UptoIs
<1>2. \A k \in 0 .. q : J[k] = States(alg)
  OBVIOUS
<1>3. ASSUME NEW k \in 1 .. q, NEW x \in States(alg)
      PROVE  step[x][k] \in States(alg)
  <2>1. alg.block * k <= Len(m) /\ k \in Nat /\ k > 0
    BY Within1
  <2> QED
    BY <2>1, StepIs
<1> HIDE DEF J, s, step
<1>4. \A k \in 1 .. Len(s) : \A x \in J[k - 1] : step[x][s[k]] \in J[k]
  <2> TAKE k \in 1 .. Len(s)
  <2>1. k \in 1 .. q /\ s[k] = k /\ k - 1 \in 0 .. q /\ k \in 0 .. q
    BY <1>1
  <2> QED
    BY <1>2, <1>3, <2>1
<1>5. Narrow(alg, InitialState) \in J[0] /\ J[Len(s)] = States(alg)
  BY <1>1, <1>2, FirstState
<1> QED
  BY <1>1, <1>4, <1>5, AlongInvariant DEF Chain, step, s

(* Messages that agree on their first q blocks have the same state. *)
LEMMA ChainExtends ==
  ASSUME NEW alg \in Algs, NEW m \in Seq(Byte), NEW t \in Seq(Byte), NEW q \in Nat, alg.block * q <= Len(m)
  PROVE  Chain(alg, m \o t, q) = Chain(alg, m, q)
<1> DEFINE f == ChainStep(alg, m)
           g == ChainStep(alg, m \o t)
           s == Upto(q)
<1>1. s \in Seq(Nat) /\ Len(s) = q /\ \A k \in 1 .. q : s[k] = k
  BY UptoIs
<1>2. PICK u : u = m \o t
  OBVIOUS
<1>3. u \in Seq(Byte) /\ Len(m) \in Nat /\ Len(u) >= Len(m)
  BY <1>2
<1>4. ASSUME NEW k \in 1 .. q, NEW x \in States(alg)
      PROVE  f[x][k] \in States(alg) /\ f[x][k] = g[x][k]
  <2>1. alg.block * k <= Len(m) /\ k \in Nat /\ k > 0
    BY <1>3, Within1
  <2>2. alg.block * k <= Len(u)
    <3>1. alg.block * k \in Int
      BY BlockSize
    <3>2. Len(u) \in Int
      BY <1>3
    <3> QED
      BY <1>3, <2>1, <3>1, <3>2
  <2>3. BlockAt(alg, u, k) = BlockAt(alg, m, k)
    <3>1. PICK a, b : a = alg.block * (k - 1) /\ b = alg.block * k
      OBVIOUS
    <3>2. BlockAt(alg, m, k) = Part(m, a, b) /\ a \in Nat /\ b \in Nat /\ b = a + alg.block /\ a <= b
      BY <2>1, <3>1, BlockIsPart
    <3>3. BlockAt(alg, u, k) = Part(u, a, b)
      BY <2>1, <3>1, BlockIsPart
    <3>4. Part(m \o t, a, b) = Part(m, a, b)
      BY <2>1, <3>1, <3>2, PartHead
    <3> QED
      BY <1>2, <3>2, <3>3, <3>4
  <2>4. ChainStep(alg, m)[x][k] = compress[alg][x][BlockAt(alg, m, k)] /\ ChainStep(alg, m)[x][k] \in States(alg)
    BY <2>1, StepIs
  <2>5. ChainStep(alg, u)[x][k] = compress[alg][x][BlockAt(alg, u, k)]
    BY <1>3, <2>1, <2>2, StepIs
  <2> QED
    BY <1>2, <2>3, <2>4, <2>5
<1> HIDE DEF f, g, s
<1>5. \A k \in 1 .. Len(s) : \A x \in States(alg) : f[x][s[k]] \in States(alg) /\ f[x][s[k]] = g[x][s[k]]
  BY <1>1, <1>4
<1>6. Along(f, Narrow(alg, InitialState), s) = Along(g, Narrow(alg, InitialState), s)
  <2>1. PICK I, first : I = States(alg) /\ first = Narrow(alg, InitialState)
    OBVIOUS
  <2>2. first \in I
    BY <2>1, FirstState
  <2>3. Agree(f, g, I, s, s)
    BY <1>5, <2>1 DEF Agree
  <2>4. s \in Seq(Nat) /\ Len(s) = Len(s)
    BY <1>1
  <2>5. Along(f, first, s) = Along(g, first, s)
    BY ONLY <2>2, <2>3, <2>4, AlongAgree
  <2> QED
    BY <2>1, <2>5
<1> QED
  BY <1>6 DEF Chain, f, g, s

(* One more block, one more step. *)
LEMMA ChainNext ==
  ASSUME NEW alg \in Algs, NEW m \in Seq(Byte), NEW q \in Nat, alg.block * q <= Len(m)
  PROVE  Chain(alg, m, q + 1) = compress[alg][Chain(alg, m, q)][BlockAt(alg, m, q + 1)]
<1> DEFINE step == ChainStep(alg, m)
           s == Upto(q)
           t == Upto(q + 1)
<1>1. s \in Seq(Nat) /\ Len(s) = q /\ \A k \in 1 .. q : s[k] = k
  BY UptoIs
<1>2. t \in Seq(Nat) /\ Len(t) = q + 1 /\ \A k \in 1 .. q + 1 : t[k] = k
  BY UptoIs
<1>3. PICK x : x = Chain(alg, m, q)
  OBVIOUS
<1>4. x \in Seq(Seq(Nat))
  BY <1>3, ChainIs, StateIs
<1>5. step[x][q + 1] = compress[alg][x][BlockAt(alg, m, q + 1)]
  BY <1>4 DEF ChainStep
<1> HIDE DEF step, s, t
<1>6. Len(t) = Len(s) + 1 /\ (\A k \in 1 .. Len(s) : t[k] = s[k]) /\ t[Len(t)] = q + 1
  BY <1>1, <1>2
<1>7. Along(step, Narrow(alg, InitialState), t) = step[Along(step, Narrow(alg, InitialState), s)][t[Len(t)]]
  BY <1>1, <1>2, <1>6, AlongAppend
<1>8. Along(step, Narrow(alg, InitialState), s) = x /\ Along(step, Narrow(alg, InitialState), t) = Chain(alg, m, q + 1)
  BY <1>3 DEF Chain, step, s, t
<1> QED
  BY <1>3, <1>5, <1>6, <1>7, <1>8

(* Without a block the chain is at the initial values. *)
LEMMA ChainNothing ==
  ASSUME NEW alg, NEW m
  PROVE  Chain(alg, m, 0) = Narrow(alg, InitialState)
<1>1. Upto(0) = <<>>
  BY DEF Upto
<1> QED
  BY <1>1, AlongNothing DEF Chain

-----------------------------------------------------------------------------
(* Where a hash state stands in a message. *)

(* After p bytes of a message, q of its blocks compressed. *)
Within(alg, st, all, p, q) ==
    /\ p \in Nat /\ q \in Nat /\ p <= Len(all)
    /\ alg.block * q <= p /\ p < (alg.block * q) + alg.block
    /\ st = [state |-> Chain(alg, all, q), length |-> 8 * (alg.block * q), buf |-> Part(all, alg.block * q, p)]

(* The types and lengths of a state within a message. *)
LEMMA WithinIs ==
  ASSUME NEW alg \in Algs, NEW all \in Seq(Byte), NEW st, NEW p, NEW q, Within(alg, st, all, p, q)
  PROVE  /\ st \in HashState /\ st.state \in States(alg)
         /\ st.buf \in Seq(Byte) /\ Len(st.buf) = p - (alg.block * q)
<1>1. p \in Nat /\ q \in Nat /\ p <= Len(all) /\ alg.block * q <= p /\ alg.block \in Nat
  BY BlockSize DEF Within
<1>2. PICK a : a = alg.block * q
  OBVIOUS
<1>3. a \in Nat /\ 8 * a \in Nat
  <2>1. alg.block * q \in Nat
    BY <1>1, SMT
  <2> QED
    BY <1>2, <2>1
<1>4. st = [state |-> Chain(alg, all, q), length |-> 8 * a, buf |-> Part(all, a, p)]
  BY <1>2 DEF Within
<1>5. Chain(alg, all, q) \in States(alg)
  <2>1. alg.block * q <= Len(all)
    BY <1>1, <1>2, <1>3
  <2> QED
    BY <1>1, <2>1, ChainIs
<1>6. IsPart(Part(all, a, p), Byte, all, a, p)
  BY <1>1, <1>2, <1>3, PartIs
<1>7. Part(all, a, p) \in Seq(Byte) /\ Len(Part(all, a, p)) = p - a /\ Part(all, a, p) \in Seq(Nat)
  BY <1>6, BytesAre DEF IsPart
<1>8. Chain(alg, all, q) \in Seq(Seq(Nat))
  BY <1>5, StateIs
<1>9. st \in HashState
  BY <1>3, <1>4, <1>7, <1>8 DEF HashState
<1> QED
  BY <1>2, <1>4, <1>5, <1>7, <1>9

(* One turn of process takes the rest of a block or of the message. *)
LEMMA TurnWithin ==
  ASSUME NEW alg \in Algs, NEW all \in Seq(Byte), NEW st, NEW p, NEW q, Within(alg, st, all, p, q),
         p < Len(all)
  PROVE  \E st2, p2, q2 :
           /\ Turn(alg, <<st, Part(all, p, Len(all))>>) = <<st2, Part(all, p2, Len(all))>>
           /\ Within(alg, st2, all, p2, q2)
           /\ p2 = Len(all) \/ q2 = q + 1
<1>1. PICK size1 \in Nat : size1 = Len(all)
  OBVIOUS
<1>2. PICK block \in Nat : block = alg.block /\ block > 0
  BY BlockSize
<1>3. PICK a \in Nat : a = alg.block * q
  <2>1. alg.block * q \in Nat
    BY <1>2, SMT DEF Within
  <2> QED
    BY <2>1
<1>4. p \in Nat /\ q \in Nat /\ a <= p /\ p < a + block /\ p < size1
  BY <1>1, <1>2, <1>3 DEF Within
<1>5. st = [state |-> Chain(alg, all, q), length |-> 8 * a, buf |-> Part(all, a, p)]
  BY <1>3 DEF Within
<1>6. st \in HashState /\ st.state \in States(alg) /\ st.buf = Part(all, a, p) /\ Len(st.buf) = p - a
  BY <1>3, <1>5, WithinIs
<1>7. PICK rest : rest = Part(all, p, size1)
  OBVIOUS
<1>8. IsPart(rest, Byte, all, p, size1)
  BY <1>1, <1>4, <1>7, PartIs
<1>9. rest \in Seq(Byte) /\ Len(rest) = size1 - p
  BY <1>8 DEF IsPart
<1>10. PICK n \in Nat : /\ n = IF Len(rest) < alg.block - Len(st.buf) THEN Len(rest) ELSE alg.block - Len(st.buf)
                        /\ n = IF size1 - p < block - (p - a) THEN size1 - p ELSE block - (p - a)
  <2>1. Len(rest) < alg.block - Len(st.buf) <=> size1 - p < block - (p - a)
    BY <1>2, <1>6, <1>9
  <2>2. size1 - p \in Nat /\ block - (p - a) \in Nat
    BY <1>4
  <2> QED
    BY <1>2, <1>6, <1>9, <2>1, <2>2
<1>11. PICK p2 \in Nat : p2 = p + n
  BY <1>4
<1>12. p <= p2 /\ p2 <= size1 /\ a <= p2 /\ p2 <= a + block
  BY <1>4, <1>10, <1>11
<1>13. PICK filled : filled = st.buf \o SubSeq(rest, 1, n)
  OBVIOUS
<1>14. filled = Part(all, a, p2)
  <2>1. SubSeq(rest, 1, n) = Part(rest, 0, n)
    BY DEF Part
  <2>2. Part(Part(all, p, Len(all)), 0, n) = Part(all, p, p2)
    <3>1. 0 <= n /\ p + n <= Len(all) /\ p = p + 0
      BY <1>1, <1>4, <1>11, <1>12
    <3> QED
      BY <1>4, <1>11, <3>1, PartOfRest
  <2>3. Part(all, a, p) \o Part(all, p, p2) = Part(all, a, p2)
    BY <1>1, <1>4, <1>12, PartsJoin
  <2> QED
    BY <1>1, <1>6, <1>7, <1>13, <2>1, <2>2, <2>3
<1>15. filled \in Seq(Byte) /\ Len(filled) = p2 - a
  <2>1. IsPart(filled, Byte, all, a, p2)
    BY <1>1, <1>12, <1>14, PartIs
  <2> QED
    BY <2>1 DEF IsPart
<1>16. SubSeq(rest, n + 1, Len(rest)) = Part(all, p2, size1)
  <2>1. SubSeq(rest, n + 1, Len(rest)) = Part(rest, n, Len(rest))
    BY DEF Part
  <2>2. PICK l \in Nat : l = Len(rest) /\ p + l = size1 /\ n <= l
    BY <1>4, <1>9, <1>10
  <2>3. Part(Part(all, p, Len(all)), n, l) = Part(all, p2, size1)
    <3>1. p2 = p + n /\ size1 = p + l /\ p + l <= Len(all)
      BY <1>1, <1>4, <1>11, <2>2
    <3>2. n \in Nat /\ l \in Nat /\ p \in Nat /\ n <= l
      BY <1>4, <2>2
    <3> QED
      BY ONLY all \in Seq(Byte), <3>1, <3>2, PartOfRest
  <2> QED
    BY <1>1, <1>7, <2>1, <2>2, <2>3
<1>17. PICK t : t = <<st, rest>>
  OBVIOUS
<1>18. Turn(alg, t) = IF Len(filled) = alg.block
                      THEN <<Absorbed[alg][st][filled], SubSeq(rest, n + 1, Len(rest))>>
                      ELSE <<[st EXCEPT !.buf = filled], SubSeq(rest, n + 1, Len(rest))>>
  <2>1. t[1] = st /\ t[2] = rest
    BY <1>17
  <2> QED
    BY <1>10, <1>13, <2>1 DEF Turn
<1>19. CASE Len(filled) = alg.block
  <2>1. p2 = a + block
    BY <1>2, <1>4, <1>12, <1>15, <1>19
  <2>2. PICK q2 \in Nat : q2 = q + 1 /\ q2 > 0 /\ q2 - 1 = q
    BY <1>4
  <2>3. BlockAt(alg, all, q2) = Part(all, a, p2) /\ p2 = alg.block * q2
    <3>1. a = alg.block * (q2 - 1)
      BY <1>3, <2>2
    <3>2. alg.block * q2 = a + block
      <4>1. PICK b : b = alg.block * q2
        OBVIOUS
      <4> QED
        BY <1>2, <2>2, <3>1, <4>1, BlockIsPart
    <3> QED
      BY <2>1, <2>2, <3>1, <3>2, BlockIsPart
  <2>4. filled \in Seq(Nat)
    BY <1>15, BytesAre
  <2>5. PICK st2 : st2 = Absorbed[alg][st][filled]
    OBVIOUS
  <2>6. st2 = [state |-> compress[alg][st.state][filled], length |-> st.length + 8 * alg.block, buf |-> <<>>]
    BY <1>6, <2>4, <2>5 DEF Absorbed, Algs
  <2>7. Chain(alg, all, q + 1) = compress[alg][Chain(alg, all, q)][BlockAt(alg, all, q + 1)]
    <3>1. alg.block * q <= Len(all)
      BY <1>1, <1>3, <1>4
    <3> QED
      BY <1>4, <3>1, ChainNext
  <2>8. compress[alg][st.state][filled] = Chain(alg, all, q2)
    BY <1>5, <1>14, <2>2, <2>3, <2>7
  <2>9. st.length + 8 * alg.block = 8 * (alg.block * q2)
    <3>1. st.length = 8 * a
      BY <1>5
    <3> QED
      BY <1>2, <2>1, <2>3, <3>1
  <2>10. Part(all, p2, p2) = <<>>
    BY <1>1, <1>12, PartNone
  <2>11. Within(alg, st2, all, p2, q2)
    <3>1. alg.block * q2 <= p2 /\ p2 < (alg.block * q2) + alg.block
      BY <1>2, <2>3
    <3>2. st2 = [state |-> Chain(alg, all, q2), length |-> 8 * (alg.block * q2), buf |-> Part(all, alg.block * q2, p2)]
      BY <2>3, <2>6, <2>8, <2>9, <2>10
    <3> QED
      BY <1>1, <1>12, <3>1, <3>2 DEF Within
  <2>12. Turn(alg, t) = <<st2, Part(all, p2, Len(all))>>
    BY <1>1, <1>16, <1>18, <1>19, <2>5
  <2> QED
    BY <1>1, <1>7, <1>17, <2>2, <2>11, <2>12
<1>20. CASE Len(filled) # alg.block
  <2>1. p2 = size1 /\ p2 < a + block
    BY <1>2, <1>4, <1>10, <1>11, <1>12, <1>15, <1>20, SMTT(30)
  <2>2. PICK st2 : st2 = [st EXCEPT !.buf = filled]
    OBVIOUS
  <2>3. st2 = [state |-> Chain(alg, all, q), length |-> 8 * a, buf |-> filled]
    BY <1>5, <2>2
  <2>4. Within(alg, st2, all, p2, q)
    BY <1>1, <1>2, <1>3, <1>4, <1>12, <1>14, <2>1, <2>3 DEF Within
  <2>5. Turn(alg, t) = <<st2, Part(all, p2, Len(all))>>
    BY <1>1, <1>16, <1>18, <1>20, <2>2
  <2> QED
    BY <1>1, <1>7, <1>17, <2>1, <2>4, <2>5
<1> QED
  BY <1>19, <1>20

-----------------------------------------------------------------------------
(* process: the loop over the input. *)

(* The value of process's loop when all is taken, or n blocks compressed. *)
Reached(alg, all, n, t) ==
  \E st, p, q :
    /\ Within(alg, st, all, p, q)
    /\ t = <<st, Part(all, p, Len(all))>>
    /\ p = Len(all) \/ q >= n

(* The loop goes on from pairs of a state and the rest of the input. *)
LEMMA ReachedIs ==
  ASSUME NEW alg \in Algs, NEW all \in Seq(Byte), NEW n, NEW t, Reached(alg, all, n, t)
  PROVE  t \in HashState \X Seq(Nat)
<1>1. PICK st, p, q : Within(alg, st, all, p, q) /\ t = <<st, Part(all, p, Len(all))>>
  BY DEF Reached
<1>2. p \in Nat /\ p <= Len(all) /\ Len(all) \in Nat
  BY <1>1 DEF Within
<1>3. IsPart(Part(all, p, Len(all)), Byte, all, p, Len(all))
  BY <1>2, PartIs
<1>4. Part(all, p, Len(all)) \in Seq(Nat)
  BY <1>3, BytesAre DEF IsPart
<1>5. st \in HashState
  BY <1>1, WithinIs
<1> QED
  BY <1>1, <1>4, <1>5

(* A turn keeps what Reached says: the next count of blocks, or all of it. *)
LEMMA TurnReached ==
  ASSUME NEW alg \in Algs, NEW all \in Seq(Byte), NEW n \in Nat, NEW t, Reached(alg, all, n, t)
  PROVE  Reached(alg, all, n + 1, IF t[2] = <<>> THEN t ELSE Turn(alg, t))
<1>1. PICK st, p, q : /\ Within(alg, st, all, p, q) /\ t = <<st, Part(all, p, Len(all))>>
                      /\ p = Len(all) \/ q >= n
  BY DEF Reached
<1>2. p \in Nat /\ q \in Nat /\ p <= Len(all) /\ Len(all) \in Nat
  BY <1>1 DEF Within
<1>3. t[2] = Part(all, p, Len(all))
  BY <1>1
<1>4. CASE p = Len(all)
  <2>1. t[2] = <<>>
    BY <1>2, <1>3, <1>4, PartNone
  <2> QED
    BY <1>1, <1>4, <2>1 DEF Reached
<1>5. CASE p < Len(all)
  <2>1. IsPart(t[2], Byte, all, p, Len(all))
    BY <1>2, <1>3, PartIs
  <2>2. t[2] # <<>>
    <3>1. Len(t[2]) = Len(all) - p
      BY <2>1 DEF IsPart
    <3>2. Len(t[2]) # 0
      BY <1>2, <1>5, <3>1
    <3> QED
      BY <3>2
  <2>3. PICK st2, p2, q2 : /\ Turn(alg, <<st, Part(all, p, Len(all))>>) = <<st2, Part(all, p2, Len(all))>>
                           /\ Within(alg, st2, all, p2, q2)
                           /\ p2 = Len(all) \/ q2 = q + 1
    BY <1>1, <1>5, TurnWithin
  <2>4. p2 = Len(all) \/ q2 >= n + 1
    BY <1>1, <1>2, <1>5, <2>3
  <2> QED
    BY <1>1, <2>2, <2>3, <2>4 DEF Reached
<1> QED
  BY <1>2, <1>4, <1>5

(* The turns process may take are enough to come to the end. *)
LEMMA Enough ==
  ASSUME NEW block \in Nat, block > 0, NEW q \in Nat, NEW p \in Nat, NEW l \in Nat, p <= l,
         p < (block * q) + block, NEW d, d = (l - p) \div block, NEW q2 \in Nat, q2 >= q + (d + 2), block * q2 <= l
  PROVE  FALSE
<1>1. PICK r \in Nat : r = l - p
  OBVIOUS
<1>2. d \in Int
  BY <1>1, SMT
<1>3. r < block * (d + 1)
  BY <1>1, SMT
<1>4. block * (q2 - (q + (d + 2))) >= 0
  BY <1>2, SMT
<1>5. l < block * (q + (d + 2))
  <2>1. block * (q + (d + 2)) = (block * q) + block + (block * (d + 1))
    BY <1>2, SMT
  <2>2. block * (d + 1) \in Int /\ block * q \in Int
    BY <1>2, SMT
  <2> QED
    BY <1>1, <1>3, <2>1, <2>2
<1>6. block * q2 >= block * (q + (d + 2))
  BY <1>2, <1>4, SMT
<1>7. block * q2 \in Int /\ block * (q + (d + 2)) \in Int
  BY <1>2, SMT
<1> QED
  BY <1>5, <1>6, <1>7

(* process leaves the state at the end of the bytes it is given. *)
LEMMA ProcessWithin ==
  ASSUME NEW alg \in Algs, NEW all \in Seq(Byte), NEW st, NEW p, NEW q, Within(alg, st, all, p, q),
         NEW in, in = Part(all, p, Len(all))
  PROVE  \E q2 : Within(alg, process[alg][st][in], all, Len(all), q2)
<1> DEFINE step == [t \in HashState \X Seq(Nat) |-> [k \in Nat |-> IF t[2] = <<>> THEN t ELSE Turn(alg, t)]]
           M == Len(in) \div alg.block + 2
           s == [k \in 1 .. M |-> k]
           J == [k \in 0 .. M |-> {t \in HashState \X Seq(Nat) : Reached(alg, all, q + k, t)}]
<1>1. /\ p \in Nat /\ q \in Nat /\ p <= Len(all) /\ Len(all) \in Nat
      /\ p < (alg.block * q) + alg.block /\ alg.block \in Nat /\ alg.block > 0
  BY BlockSize DEF Within
<1>2. in \in Seq(Byte) /\ in \in Seq(Nat) /\ Len(in) = Len(all) - p
  <2>1. IsPart(in, Byte, all, p, Len(all))
    BY <1>1, PartIs
  <2> QED
    BY <2>1, BytesAre DEF IsPart
<1>3. PICK d \in Nat : d = Len(in) \div alg.block
  <2>1. PICK l \in Nat : l = Len(in)
    <3>1. Len(in) \in Nat
      BY <1>2, LenProperties
    <3> QED
      BY <3>1
  <2>2. l \div alg.block \in Int
    BY <1>1, <2>1, SMT
  <2>3. l \div alg.block >= 0
    BY <1>1, <2>1, SMT
  <2> QED
    BY <2>1, <2>2, <2>3
<1>4. M = d + 2 /\ M \in Nat
  BY <1>3
<1>5. s \in Seq(Nat) /\ Len(s) = M /\ \A k \in 1 .. M : s[k] = k
  BY <1>4
<1>6. PICK first : first = <<st, in>>
  OBVIOUS
<1>7. st \in HashState
  BY WithinIs
<1>8. process[alg][st][in] = Along(step, first, s)[1]
  BY <1>2, <1>6, <1>7 DEF process, Algs
<1>9. ASSUME NEW t \in HashState \X Seq(Nat), NEW k \in Nat
      PROVE  step[t][k] = IF t[2] = <<>> THEN t ELSE Turn(alg, t)
  OBVIOUS
<1>10. \A k \in 0 .. M : J[k] = {t \in HashState \X Seq(Nat) : Reached(alg, all, q + k, t)}
  OBVIOUS
<1> HIDE DEF step, M, s, J
<1>11. first \in J[0]
  <2>1. Reached(alg, all, q, first)
    BY <1>1, <1>6 DEF Reached
  <2>2. q + 0 = q /\ 0 \in 0 .. M
    BY <1>1, <1>4
  <2> QED
    BY <1>10, <2>1, <2>2, ReachedIs
<1>12. \A k \in 1 .. Len(s) : \A t \in J[k - 1] : step[t][s[k]] \in J[k]
  <2> TAKE k \in 1 .. Len(s)
  <2> TAKE t \in J[k - 1]
  <2>1. k \in Nat /\ s[k] = k /\ k - 1 \in 0 .. M /\ k \in 0 .. M
    BY <1>4, <1>5
  <2>2. PICK n \in Nat : n = q + (k - 1) /\ n + 1 = q + k
    BY <1>1, <2>1
  <2>3. t \in HashState \X Seq(Nat) /\ Reached(alg, all, n, t)
    BY <1>10, <2>1, <2>2
  <2>4. Reached(alg, all, n + 1, step[t][k])
    BY <1>9, <2>1, <2>3, TurnReached
  <2> QED
    BY <1>10, <2>1, <2>2, <2>4, ReachedIs
<1>13. Along(step, first, s) \in J[M]
  BY <1>5, <1>11, <1>12, AlongInvariant
<1>14. PICK t : t = Along(step, first, s) /\ Reached(alg, all, q + (d + 2), t)
  BY <1>4, <1>10, <1>13
<1>15. PICK st2, p2, q2 : /\ Within(alg, st2, all, p2, q2) /\ t = <<st2, Part(all, p2, Len(all))>>
                          /\ p2 = Len(all) \/ q2 >= q + (d + 2)
  BY <1>14 DEF Reached
<1>16. p2 = Len(all)
  <2>1. SUFFICES ASSUME q2 >= q + (d + 2)
                 PROVE  FALSE
    BY <1>15
  <2>2. p2 \in Nat /\ q2 \in Nat /\ p2 <= Len(all) /\ alg.block * q2 <= p2
    BY <1>15 DEF Within
  <2>3. alg.block * q2 <= Len(all)
    <3>1. alg.block * q2 \in Int
      BY <1>1, <2>2, SMT
    <3> QED
      BY <1>1, <2>2, <3>1
  <2>4. d = (Len(all) - p) \div alg.block
    BY <1>2, <1>3
  <2> QED
    BY <1>1, <2>1, <2>2, <2>3, <2>4, Enough
<1>17. process[alg][st][in] = st2
  BY <1>8, <1>14, <1>15
<1> QED
  BY <1>15, <1>16, <1>17

-----------------------------------------------------------------------------
(* done: the padding in one block or two. *)

(* The two bytes that padding starts with or consists of. *)
LEMMA SmallBytes == 0 \in Byte /\ 128 \in Byte
  BY DEF Byte

(* ZeroBytes. *)
LEMMA ZeroIs ==
  ASSUME NEW n \in Nat
  PROVE  ZeroBytes(n) \in Seq(Byte) /\ Len(ZeroBytes(n)) = n /\ \A k \in 1 .. n : ZeroBytes(n)[k] = 0
<1> DEFINE f == [k \in 1 .. n |-> 0]
<1>1. f = [k \in 1 .. n |-> f[k]] /\ \A k \in 1 .. n : f[k] = 0
  OBVIOUS
<1>2. ZeroBytes(n) = f \o <<>>
  BY DEF ZeroBytes
<1> HIDE DEF f
<1>3. f \o <<>> = f /\ f \in Seq(Byte) /\ Len(f) = n
  BY <1>1, SmallBytes, Tupled
<1> QED
  BY <1>1, <1>2, <1>3

(* Zeros joined are zeros. *)
LEMMA ZeroJoin ==
  ASSUME NEW a \in Nat, NEW b \in Nat, NEW c, c = a + b
  PROVE  ZeroBytes(a) \o ZeroBytes(b) = ZeroBytes(c)
<1>1. PICK u, v, w : u = ZeroBytes(a) /\ v = ZeroBytes(b) /\ w = ZeroBytes(c)
  OBVIOUS
<1>2. u \in Seq(Byte) /\ Len(u) = a /\ \A k \in 1 .. a : u[k] = 0
  BY <1>1, ZeroIs
<1>3. v \in Seq(Byte) /\ Len(v) = b /\ \A k \in 1 .. b : v[k] = 0
  BY <1>1, ZeroIs
<1>4. w \in Seq(Byte) /\ Len(w) = c /\ \A k \in 1 .. c : w[k] = 0
  BY <1>1, ZeroIs
<1>5. PICK x : x = u \o v
  OBVIOUS
<1>6. IsJoin(x, Byte, u, v)
  BY <1>2, <1>3, <1>5, JoinIs
<1>7. x \in Seq(Byte) /\ Len(x) = c /\ (\A k \in 1 .. a : x[k] = u[k]) /\ \A k \in 1 .. b : x[a + k] = v[k]
  BY <1>2, <1>3, <1>6 DEF IsJoin
<1>8. ASSUME NEW k \in 1 .. c
      PROVE  x[k] = w[k]
  <2>1. CASE k <= a
    BY <1>2, <1>4, <1>7, <2>1
  <2>2. CASE k > a
    <3>1. PICK j \in 1 .. b : j = k - a /\ k = a + j
      BY <2>2
    <3> QED
      BY <1>3, <1>4, <1>7, <3>1
  <2>3. k <= a \/ k > a
    OBVIOUS
  <2> QED
    BY <2>1, <2>2, <2>3
<1>9. x = w
  BY <1>4, <1>7, <1>8, SameSeq
<1> QED
  BY <1>1, <1>5, <1>9

(* Four bytes of a number ... *)
LEMMA FourIs ==
  ASSUME NEW n \in Nat
  PROVE  FourBytes(n) \in Seq(Byte) /\ Len(FourBytes(n)) = 4
<1>1. \A c \in Int : c % 256 \in Byte
  BY DEF Byte
<1>2. PICK x, y, z : x = n \div 16777216 /\ y = n \div 65536 /\ z = n \div 256
  OBVIOUS
<1>3. x \in Int /\ y \in Int /\ z \in Int
  BY <1>2, SMT
<1>4. x % 256 \in Byte /\ y % 256 \in Byte /\ z % 256 \in Byte /\ n % 256 \in Byte
  BY <1>1, <1>3
<1>5. FourBytes(n) = <<x % 256, y % 256, z % 256, n % 256>>
  BY <1>2 DEF FourBytes
<1> QED
  BY <1>4, <1>5

(* ... and the eight of the length. *)
LEMMA LengthIs ==
  ASSUME NEW n \in Nat
  PROVE  LengthBytes(n) \in Seq(Byte) /\ Len(LengthBytes(n)) = 8
<1>1. PICK h \in Nat : h = (n \div 65536) \div 65536
  <2>1. PICK g \in Nat : g = n \div 65536
    BY SMT
  <2>2. PICK e \in Nat : e = g \div 65536
    BY SMT
  <2> QED
    BY <2>1, <2>2
<1>2. PICK u, v : u = FourBytes(h) /\ v = FourBytes(n)
  OBVIOUS
<1>3. u \in Seq(Byte) /\ Len(u) = 4 /\ v \in Seq(Byte) /\ Len(v) = 4
  BY <1>2, FourIs
<1>4. u \o v \in Seq(Byte) /\ Len(u \o v) = 4 + 4
  BY <1>3, TwoParts
<1>5. LengthBytes(n) = u \o v
  BY <1>1, <1>2 DEF LengthBytes
<1> QED
  BY <1>4, <1>5

(* One or two steps. *)
LEMMA AlongOne ==
  ASSUME NEW step, NEW first
  PROVE  Along(step, first, Upto(1)) = step[first][1]
<1>1. Upto(0) = <<>> /\ Upto(0) \in Seq(Nat) /\ Len(Upto(0)) = 0
  BY DEF Upto
<1>2. Upto(1) \in Seq(Nat) /\ Len(Upto(1)) = 1 /\ \A k \in 1 .. 1 : Upto(1)[k] = k
  BY UptoIs
<1>3. PICK s, t : s = Upto(0) /\ t = Upto(1)
  OBVIOUS
<1>4. Len(t) = Len(s) + 1 /\ (\A k \in 1 .. Len(s) : t[k] = s[k]) /\ t[Len(t)] = 1
  <2>1. Len(s) = 0 /\ Len(t) = 1
    BY <1>1, <1>2, <1>3
  <2>2. t[1] = 1
    BY <1>2, <1>3
  <2> QED
    BY <2>1, <2>2
<1>5. Along(step, first, t) = step[Along(step, first, s)][t[Len(t)]]
  BY <1>1, <1>2, <1>3, <1>4, AlongAppend
<1> QED
  BY <1>1, <1>3, <1>4, <1>5, AlongNothing

(* Two steps. *)
LEMMA AlongTwo ==
  ASSUME NEW step, NEW first
  PROVE  Along(step, first, Upto(2)) = step[step[first][1]][2]
<1>1. Upto(1) \in Seq(Nat) /\ Len(Upto(1)) = 1 /\ \A k \in 1 .. 1 : Upto(1)[k] = k
  BY UptoIs
<1>2. Upto(2) \in Seq(Nat) /\ Len(Upto(2)) = 2 /\ \A k \in 1 .. 2 : Upto(2)[k] = k
  BY UptoIs
<1>3. PICK s, t : s = Upto(1) /\ t = Upto(2)
  OBVIOUS
<1>4. Len(t) = Len(s) + 1 /\ (\A k \in 1 .. Len(s) : t[k] = s[k]) /\ t[Len(t)] = 2
  BY <1>1, <1>2, <1>3
<1>5. Along(step, first, t) = step[Along(step, first, s)][t[Len(t)]]
  BY <1>1, <1>2, <1>3, <1>4, AlongAppend
<1> QED
  BY <1>3, <1>4, <1>5, AlongOne

(* Ended compresses the one or the two blocks of the padding. *)
LEMMA EndedOne ==
  ASSUME NEW alg \in Algs, NEW state \in States(alg), NEW b \in Seq(Byte), NEW bits \in Nat
  PROVE  Ended[alg][state][<<b>>][bits] = WordBytes[alg][compress[alg][state][b \o LengthBytes(bits)]]
<1>1. PICK blocks : blocks = <<b>>
  OBVIOUS
<1>2. blocks \in Seq(Seq(Nat)) /\ Len(blocks) = 1 /\ blocks[1] = b /\ DOMAIN blocks = 1 .. 1
  <2>1. b \in Seq(Nat)
    BY BytesAre
  <2> QED
    BY <1>1, <2>1
<1>3. state \in Seq(Seq(Nat))
  BY StateIs
<1> DEFINE step == [s \in Seq(Seq(Nat)) |-> [k \in Nat |->
                       compress[alg][s][IF k = Len(blocks) THEN blocks[k] \o LengthBytes(bits) ELSE blocks[k]]]]
<1>4. Ended[alg][state][blocks][bits] = WordBytes[alg][Along(step, state, [k \in DOMAIN blocks |-> k])]
  BY <1>2, <1>3 DEF Ended, Algs
<1>5. [k \in DOMAIN blocks |-> k] = Upto(1)
  BY <1>2 DEF Upto
<1>6. step[state][1] = compress[alg][state][b \o LengthBytes(bits)]
  BY <1>2, <1>3
<1> HIDE DEF step
<1> QED
  BY <1>1, <1>4, <1>5, <1>6, AlongOne

(* ... or both blocks of it. *)
LEMMA EndedTwo ==
  ASSUME NEW alg \in Algs, NEW state \in States(alg), NEW a \in Block(alg), NEW b \in Seq(Byte), NEW bits \in Nat
  PROVE  Ended[alg][state][<<a, b>>][bits] =
           WordBytes[alg][compress[alg][compress[alg][state][a]][b \o LengthBytes(bits)]]
<1>1. PICK blocks : blocks = <<a, b>>
  OBVIOUS
<1>2. /\ blocks \in Seq(Seq(Nat)) /\ Len(blocks) = 2 /\ DOMAIN blocks = 1 .. 2
      /\ blocks[1] = a /\ blocks[2] = b
  <2>1. a \in Seq(Nat) /\ b \in Seq(Nat)
    BY BytesAre DEF Block
  <2> QED
    BY <1>1, <2>1
<1>3. PICK next : next = compress[alg][state][a]
  OBVIOUS
<1>4. state \in Seq(Seq(Nat)) /\ next \in Seq(Seq(Nat))
  BY <1>3, CompressIs, StateIs
<1> DEFINE step == [s \in Seq(Seq(Nat)) |-> [k \in Nat |->
                       compress[alg][s][IF k = Len(blocks) THEN blocks[k] \o LengthBytes(bits) ELSE blocks[k]]]]
<1>5. Ended[alg][state][blocks][bits] = WordBytes[alg][Along(step, state, [k \in DOMAIN blocks |-> k])]
  BY <1>2, <1>4 DEF Ended, Algs
<1>6. [k \in DOMAIN blocks |-> k] = Upto(2)
  BY <1>2 DEF Upto
<1>7. step[state][1] = next
  BY <1>2, <1>3, <1>4
<1>8. step[next][2] = compress[alg][next][b \o LengthBytes(bits)]
  BY <1>2, <1>4
<1> HIDE DEF step
<1> QED
  BY <1>1, <1>3, <1>5, <1>6, <1>7, <1>8, AlongTwo

-----------------------------------------------------------------------------
(* The frame that FIPS 180 puts around a message. *)

(* Remainders and quotients of whole blocks and a rest ... *)
LEMMA Rest64 ==
  ASSUME NEW q \in Nat, NEW e \in 0 .. 63
  PROVE  ((64 * q) + e) % 64 = e
  BY SMT

(* ... for each block size: with a literal divisor ... *)
LEMMA Rest128 ==
  ASSUME NEW q \in Nat, NEW e \in 0 .. 127
  PROVE  ((128 * q) + e) % 128 = e
  BY SMT

(* ... the provers find them, ... *)
LEMMA Quotient64 ==
  ASSUME NEW q \in Nat
  PROVE  (64 * q) \div 64 = q
  BY SMT

(* ... with a variable one they do not. *)
LEMMA Quotient128 ==
  ASSUME NEW q \in Nat
  PROVE  (128 * q) \div 128 = q
  BY SMT
(* The zeros of the frame of r bytes and whole blocks. *)
Sum2(block, q, r) == (block * q) + r
ZeroCount(block, n, tail) == (block - ((n + tail) % block)) % block
ZerosLeft(block, r, tail) == IF r + tail <= block THEN block - (r + tail) ELSE (2 * block) - (r + tail)

(* How many zeros fill up the last block of 64 bytes ... *)
LEMMA Zeros64 ==
  ASSUME NEW q \in Nat, NEW r \in 0 .. 63, NEW tail \in {9, 17}
  PROVE  ZeroCount(64, Sum2(64, q, r), tail) = ZerosLeft(64, r, tail)
<1>1. ASSUME r + tail <= 64
      PROVE  (64 - ((((64 * q) + r) + tail) % 64)) % 64 = 64 - (r + tail)
  BY <1>1, SMT
<1>2. ASSUME r + tail > 64
      PROVE  (64 - ((((64 * q) + r) + tail) % 64)) % 64 = 128 - (r + tail)
  BY <1>2, SMT
<1>3. r + tail <= 64 \/ r + tail > 64
  BY SMT
<1> QED
  BY <1>1, <1>2, <1>3 DEF ZeroCount, Sum2, ZerosLeft

(* ... and of 128 bytes. *)
LEMMA Zeros128 ==
  ASSUME NEW q \in Nat, NEW r \in 0 .. 127, NEW tail \in {9, 17}
  PROVE  ZeroCount(128, Sum2(128, q, r), tail) = ZerosLeft(128, r, tail)
<1>1. ASSUME r + tail <= 128
      PROVE  (128 - ((((128 * q) + r) + tail) % 128)) % 128 = 128 - (r + tail)
  BY <1>1, SMT
<1>2. ASSUME r + tail > 128
      PROVE  (128 - ((((128 * q) + r) + tail) % 128)) % 128 = 256 - (r + tail)
  BY <1>2, SMT
<1>3. r + tail <= 128 \/ r + tail > 128
  BY SMT
<1> QED
  BY <1>1, <1>2, <1>3 DEF ZeroCount, Sum2, ZerosLeft

(* A number of whole blocks. *)
LEMMA WholeBlocks ==
  ASSUME NEW alg \in Algs, NEW q \in Nat, NEW n, n = alg.block * q
  PROVE  n \div alg.block = q
<1>1. CASE alg.block = 64
  BY <1>1, Quotient64
<1>2. CASE alg.block = 128
  BY <1>2, Quotient128
<1> QED
  BY <1>1, <1>2, BlockSize

(* The bytes of padding that must fit: the one bit and the length. *)
Trailer(alg) == IF alg.limbs = 4 THEN 17 ELSE 9

(* What Framed appends: the one bit, zeros, the length. *)
Frame(n, bits) == <<128>> \o ZeroBytes(n) \o LengthBytes(bits)

(* The bytes of the frame. *)
LEMMA FrameIs ==
  ASSUME NEW n \in Nat, NEW bits \in Nat
  PROVE  Frame(n, bits) \in Seq(Byte) /\ Len(Frame(n, bits)) = n + 9
<1>1. PICK o, z, l : o = <<128>> /\ z = ZeroBytes(n) /\ l = LengthBytes(bits)
  OBVIOUS
<1>2. o \in Seq(Byte) /\ Len(o) = 1
  BY <1>1, SmallBytes
<1>3. z \in Seq(Byte) /\ Len(z) = n /\ l \in Seq(Byte) /\ Len(l) = 8
  BY <1>1, ZeroIs, LengthIs
<1>4. o \o z \in Seq(Byte) /\ Len(o \o z) = 1 + n
  BY <1>2, <1>3, TwoParts
<1>5. (o \o z) \o l \in Seq(Byte) /\ Len((o \o z) \o l) = (1 + n) + 8
  <2>1. PICK x : x = o \o z
    OBVIOUS
  <2>2. x \in Seq(Byte) /\ Len(x) = 1 + n
    BY <1>4, <2>1
  <2>3. x \o l \in Seq(Byte) /\ Len(x \o l) = Len(x) + Len(l)
    BY <1>3, <2>2, TwoParts
  <2> QED
    BY <1>3, <2>1, <2>2, <2>3
<1>6. (1 + n) + 8 = n + 9
  OBVIOUS
<1> QED
  BY <1>1, <1>5, <1>6 DEF Frame

(* The padding of FIPS 180 in terms of the r bytes after the last whole    *)
(* block: it fits behind them, or takes one more block.                    *)
LEMMA FramedIs ==
  ASSUME NEW alg \in Algs, NEW m \in Seq(Byte), NEW q \in Nat, NEW r \in Nat, r < alg.block,
         Len(m) = (alg.block * q) + r, NEW n,
         n = IF r + Trailer(alg) <= alg.block THEN alg.block - (r + 9) ELSE (2 * alg.block) - (r + 9)
  PROVE  Framed(alg, m) = m \o Frame(n, 8 * Len(m)) /\ n \in Nat
<1>1. PICK tail \in Nat : tail = Trailer(alg) /\ tail \in {9, 17} /\ tail < alg.block
  BY BlockSize, SMTT(30) DEF Trailer
<1>2. alg.block \in Nat /\ alg.block > 0
  BY BlockSize
<1>3. PICK l \in Nat : l = Len(m)
  OBVIOUS
<1>4. PICK zeros : zeros = (alg.block - ((l + tail) % alg.block)) % alg.block
  OBVIOUS
<1>5. zeros \in Nat /\ n = zeros + (tail - 9)
  <2>1. CASE alg.block = 64
    <3>1. l = (64 * q) + r /\ r \in 0 .. 63
      BY <1>3, <2>1
    <3>2. zeros = IF r + tail <= 64 THEN 64 - (r + tail) ELSE 128 - (r + tail)
      <4>1. zeros = ZeroCount(64, Sum2(64, q, r), tail)
        BY <1>4, <2>1, <3>1 DEF ZeroCount, Sum2
      <4>2. tail \in {9, 17} /\ r \in 0 .. 63
        BY <1>1, <3>1
      <4>3. ZeroCount(64, Sum2(64, q, r), tail) = ZerosLeft(64, r, tail)
        BY <4>2, Zeros64
      <4> QED
        BY <4>1, <4>3 DEF ZerosLeft
    <3>3. n = IF r + tail <= 64 THEN 64 - (r + 9) ELSE 128 - (r + 9)
      BY <1>1, <2>1
    <3> QED
      BY ONLY <1>1, <3>1, <3>2, <3>3
  <2>2. CASE alg.block = 128
    <3>1. l = (128 * q) + r /\ r \in 0 .. 127
      BY <1>3, <2>2
    <3>2. zeros = IF r + tail <= 128 THEN 128 - (r + tail) ELSE 256 - (r + tail)
      <4>1. zeros = ZeroCount(128, Sum2(128, q, r), tail)
        BY <1>4, <2>2, <3>1 DEF ZeroCount, Sum2
      <4>2. tail \in {9, 17} /\ r \in 0 .. 127
        BY <1>1, <3>1
      <4>3. ZeroCount(128, Sum2(128, q, r), tail) = ZerosLeft(128, r, tail)
        BY <4>2, Zeros128
      <4> QED
        BY <4>1, <4>3 DEF ZerosLeft
    <3>3. n = IF r + tail <= 128 THEN 128 - (r + 9) ELSE 256 - (r + 9)
      BY <1>1, <2>2
    <3> QED
      BY ONLY <1>1, <3>1, <3>2, <3>3
  <2> QED
    BY <2>1, <2>2, BlockSize
<1>6. n \in Nat
  BY <1>1, <1>5
<1>7. PICK o, z, e : o = <<128>> /\ z = ZeroBytes(n) /\ e = LengthBytes(8 * l)
  OBVIOUS
<1>8. Framed(alg, m) = ((m \o o) \o z) \o e
  BY <1>1, <1>3, <1>4, <1>5, <1>7 DEF Framed, Trailer
<1>9. o \in Seq(Byte) /\ z \in Seq(Byte) /\ e \in Seq(Byte)
  <2>1. 8 * l \in Nat
    OBVIOUS
  <2> QED
    BY <1>6, <1>7, <2>1, SmallBytes, ZeroIs, LengthIs
<1>10. ((m \o o) \o z) \o e = m \o ((o \o z) \o e)
  BY ONLY m \in Seq(Byte), <1>9, SMT
<1> QED
  BY <1>3, <1>6, <1>7, <1>8, <1>10 DEF Frame

-----------------------------------------------------------------------------
(* done gives the digest of the message. *)

(* The block that t completes. *)
IsSum(n, a, b) == n = a + b

Succeeds(k, q) == k = q + 1
Completes(alg, m, t, q, a) ==
  a = alg.block * q /\ a <= Len(m) /\ Len(m) + Len(t) = a + alg.block

(* One more block. *)
LEMMA OneMore ==
  ASSUME NEW b \in Nat, NEW q \in Nat
  PROVE  b * (q + 1) = (b * q) + b /\ b * q \in Nat
  BY SMT

(* Where block k ends. *)
LEMMA BlockEnds ==
  ASSUME NEW alg \in Algs, NEW q \in Nat, NEW k, Succeeds(k, q)
  PROVE  alg.block * k = (alg.block * q) + alg.block /\ k \in Nat /\ k > 0 /\ k - 1 = q
<1>1. k = q + 1 /\ k \in Nat /\ k > 0 /\ k - 1 = q
  BY DEF Succeeds
<1>2. alg.block * (q + 1) = (alg.block * q) + alg.block
  <2>1. alg.block \in Nat
    BY BlockSize
  <2> QED
    BY <2>1, OneMore
<1> QED
  BY <1>1, <1>2

(* A message and the bytes t that complete its next block: one more        *)
(* compression.                                                            *)
LEMMA LastBlock ==
  ASSUME NEW alg \in Algs, NEW m \in Seq(Byte), NEW q \in Nat, NEW k, Succeeds(k, q),
         NEW t \in Seq(Byte), NEW a, Completes(alg, m, t, q, a)
  PROVE  /\ Chain(alg, m \o t, k) = compress[alg][Chain(alg, m, q)][Part(m, a, Len(m)) \o t]
         /\ Len(m \o t) = alg.block * k /\ m \o t \in Seq(Byte)
         /\ Part(m, a, Len(m)) \o t \in Block(alg)
<1>1. PICK u : u = m \o t
  OBVIOUS
<1>2. u \in Seq(Byte) /\ Len(u) = Len(m) + Len(t)
  BY <1>1, TwoParts
<1>3. k \in Nat /\ k = q + 1 /\ k > 0 /\ k - 1 = q
  BY DEF Succeeds
<1>4. PICK b : b = alg.block * k
  OBVIOUS
<1>5. BlockAt(alg, u, k) = Part(u, a, b) /\ a \in Nat /\ b \in Nat /\ b = a + alg.block /\ a <= b
  <2>1. a = alg.block * q /\ alg.block \in Nat
    BY BlockSize DEF Completes
  <2>2. alg.block * q \in Nat
    BY <2>1, SMT
  <2>3. b = (alg.block * q) + alg.block
    BY <1>4, BlockEnds
  <2>4. BlockAt(alg, u, k) = Part(u, a, b)
    BY <1>3, <1>4, <2>1 DEF BlockAt, Part
  <2> QED
    BY <2>1, <2>2, <2>3, <2>4
<1>6. b = Len(m) + Len(t) /\ Len(u) = b /\ a <= Len(m) /\ a = alg.block * q
  BY <1>2, <1>5 DEF Completes
<1>7. Part(m \o t, a, b) = Part(m, a, Len(m)) \o t
  BY <1>5, <1>6, PartTail
<1>8. Chain(alg, m \o t, q) = Chain(alg, m, q)
  <2>1. alg.block * q <= Len(m)
    BY <1>6
  <2> QED
    BY <2>1, ChainExtends
<1>9. Chain(alg, u, q + 1) = compress[alg][Chain(alg, u, q)][BlockAt(alg, u, q + 1)]
  <2>1. alg.block * q <= Len(u)
    BY <1>5, <1>6
  <2> QED
    BY <1>2, <2>1, ChainNext
<1>10. BlockAt(alg, u, k) \in Block(alg)
  <2>1. alg.block * k <= Len(u)
    BY <1>4, <1>5, <1>6
  <2> QED
    BY <1>2, <1>3, <2>1, BlockIs
<1> QED
  BY <1>1, <1>2, <1>3, <1>4, <1>5, <1>6, <1>7, <1>8, <1>9, <1>10

(* Sequences joined in another order. *)
LEMMA ThreeJoined ==
  ASSUME NEW a \in Seq(Byte), NEW b \in Seq(Byte), NEW c \in Seq(Byte)
  PROVE  (a \o b) \o c = a \o (b \o c)
  BY SMT

(* The digest of a message framed in q blocks. *)
LEMMA WholeIs ==
  ASSUME NEW alg, NEW m, NEW all, all = Framed(alg, m), NEW q, q = Len(all) \div alg.block
  PROVE  WholeDigest(alg, m) = WordBytes[alg][Chain(alg, all, q)]
  BY DEF WholeDigest, Chain, ChainStep, Upto, BlockAt

(* The frame in two blocks. *)
FrontHalf(a) == <<128>> \o ZeroBytes(a)
BackHalf(b, bits) == ZeroBytes(b) \o LengthBytes(bits)

(* When the length does not fit, the frame falls in two. *)
LEMMA FrameSplits ==
  ASSUME NEW a \in Nat, NEW b \in Nat, NEW n, IsSum(n, a, b), NEW bits \in Nat
  PROVE  Frame(n, bits) = FrontHalf(a) \o BackHalf(b, bits)
<1>1. PICK o, y, z, e : o = <<128>> /\ y = ZeroBytes(a) /\ z = ZeroBytes(b) /\ e = LengthBytes(bits)
  OBVIOUS
<1>2. o \in Seq(Byte) /\ y \in Seq(Byte) /\ z \in Seq(Byte) /\ e \in Seq(Byte)
  BY <1>1, SmallBytes, ZeroIs, LengthIs
<1>3. ZeroBytes(n) = y \o z
  BY <1>1, ZeroJoin DEF IsSum
<1>4. (o \o (y \o z)) \o e = (o \o y) \o (z \o e)
  BY ONLY <1>2, SMTT(30)
<1> QED
  BY <1>1, <1>3, <1>4 DEF Frame, FrontHalf, BackHalf

(* done gives the digest of the whole message. *)
LEMMA DoneIsWhole ==
  ASSUME NEW alg \in Algs, NEW m \in Seq(Byte), NEW st, NEW q, Within(alg, st, m, Len(m), q)
  PROVE  done(alg, st) = WholeDigest(alg, m)
<1>1. PICK l \in Nat : l = Len(m)
  OBVIOUS
<1>2. PICK block \in Nat : block = alg.block /\ block \in {64, 128}
  BY BlockSize
<1>3. PICK a \in Nat : a = alg.block * q
  <2>1. alg.block * q \in Nat
    BY <1>2, SMT DEF Within
  <2> QED
    BY <2>1
<1>4. q \in Nat /\ a <= l /\ l < a + block
  BY <1>1, <1>2, <1>3 DEF Within
<1>5. PICK r \in Nat : r = l - a /\ r < block /\ l = a + r
  BY <1>4
<1>6. st = [state |-> Chain(alg, m, q), length |-> 8 * a, buf |-> Part(m, a, l)]
  BY <1>1, <1>3 DEF Within
<1>7. PICK buf, chain : buf = st.buf /\ chain = st.state
  OBVIOUS
<1>8. chain \in States(alg) /\ buf \in Seq(Byte) /\ Len(buf) = r
  BY <1>1, <1>3, <1>5, <1>7, WithinIs
<1>9. buf = Part(m, a, l) /\ chain = Chain(alg, m, q)
  BY <1>6, <1>7
<1>10. PICK bits \in Nat : bits = 8 * l
  OBVIOUS
<1>11. st.length + 8 * Len(st.buf) = bits
  BY <1>5, <1>6, <1>7, <1>8, <1>10
<1>12. PICK o, one : o = <<128>> /\ one = buf \o o
  OBVIOUS
<1>13. o \in Seq(Byte) /\ Len(o) = 1 /\ one \in Seq(Byte) /\ Len(one) = r + 1
  <2>1. o \in Seq(Byte) /\ Len(o) = 1
    BY <1>12, SmallBytes
  <2>2. one \in Seq(Byte) /\ Len(one) = Len(buf) + Len(o)
    BY <1>8, <1>12, <2>1, TwoParts
  <2> QED
    BY <1>8, <2>1, <2>2
<1>14. Len(one) > alg.room <=> r + Trailer(alg) > block
  <2>1. alg.limbs \in {2, 4} /\ alg.room = alg.block - (4 * alg.limbs)
    BY AlgFacts
  <2> QED
    BY <1>2, <1>13, <2>1 DEF Trailer
<1>15. done(alg, st) = Ended[alg][chain][Padding(alg, st)][bits]
  BY <1>7, <1>11 DEF done
<1>16. PICK n : n = IF r + Trailer(alg) <= alg.block THEN alg.block - (r + 9) ELSE (2 * alg.block) - (r + 9)
  OBVIOUS
<1>17. Framed(alg, m) = m \o Frame(n, bits) /\ n \in Nat
  <2>1. r < alg.block /\ Len(m) = (alg.block * q) + r
    BY <1>1, <1>2, <1>3, <1>5
  <2>2. Framed(alg, m) = m \o Frame(n, 8 * Len(m)) /\ n \in Nat
    BY <1>4, <1>5, <1>16, <2>1, FramedIs
  <2> QED
    BY <1>1, <1>10, <2>2
<1>18. PICK f, e : f = Frame(n, bits) /\ e = LengthBytes(bits)
  OBVIOUS
<1>19. f \in Seq(Byte) /\ Len(f) = n + 9 /\ e \in Seq(Byte) /\ Len(e) = 8
  BY <1>17, <1>18, FrameIs, LengthIs
<1>20. r + Trailer(alg) \in Nat /\ Trailer(alg) \in {9, 17}
  BY DEF Trailer
<1>30. PICK k \in Nat : k = q + 1
  BY <1>4
<1>31. Succeeds(k, q)
  BY <1>30 DEF Succeeds
<1>21. CASE r + Trailer(alg) <= block
  <2>1. n = block - (r + 9) /\ Len(m) + Len(f) = a + alg.block
    BY <1>1, <1>2, <1>5, <1>16, <1>19, <1>21, SMTT(30)
  <2>2. PICK z : z = ZeroBytes(n)
    OBVIOUS
  <2>3. z \in Seq(Byte)
    BY <1>17, <2>2, ZeroIs
  <2>4. Padding(alg, st) = <<one \o z>>
    <3>1. ~(Len(one) > alg.room)
      BY <1>2, <1>14, <1>20, <1>21
    <3>2. alg.block - 8 - Len(one) = n
      BY ONLY <1>2, <1>5, <1>13, <2>1
    <3> QED
      BY <1>7, <1>12, <2>2, <3>1, <3>2 DEF Padding
  <2>5. one \o z \in Seq(Byte)
    BY <1>13, <2>3, TwoParts
  <2>6. done(alg, st) = WordBytes[alg][compress[alg][chain][(one \o z) \o e]]
    <3>1. PICK b : b = one \o z
      OBVIOUS
    <3>2. b \in Seq(Byte)
      BY <2>5, <3>1
    <3>3. Ended[alg][chain][<<b>>][bits] = WordBytes[alg][compress[alg][chain][b \o LengthBytes(bits)]]
      BY <1>8, <3>2, EndedOne
    <3> QED
      BY <1>15, <1>18, <2>4, <3>1, <3>3
  <2>7. f = (o \o z) \o e
    BY <1>12, <1>18, <2>2 DEF Frame
  <2>8. ((buf \o o) \o z) \o e = buf \o ((o \o z) \o e)
    <3>1. buf \in Seq(Byte) /\ o \in Seq(Byte) /\ z \in Seq(Byte) /\ e \in Seq(Byte)
      BY <1>8, <1>13, <1>19, <2>3
    <3>2. (one \o z) \o e = one \o (z \o e)
      BY ONLY <1>13, <3>1, ThreeJoined
    <3>3. PICK v : v = z \o e
      OBVIOUS
    <3>4. v \in Seq(Byte)
      BY <3>1, <3>3, TwoParts
    <3>5. (buf \o o) \o v = buf \o (o \o v)
      BY ONLY <3>1, <3>4, ThreeJoined
    <3>6. (o \o z) \o e = o \o (z \o e)
      BY ONLY <3>1, ThreeJoined
    <3> QED
      BY <1>12, <3>2, <3>3, <3>5, <3>6
  <2>9. /\ Chain(alg, m \o f, k) = compress[alg][Chain(alg, m, q)][Part(m, a, Len(m)) \o f]
        /\ Len(m \o f) = alg.block * k
    <3>1. Completes(alg, m, f, q, a)
      BY <1>1, <1>3, <1>4, <2>1 DEF Completes
    <3> QED
      BY <1>31, <1>4, <1>19, <3>1, LastBlock
  <2>10. Len(m \o f) \div alg.block = k
    BY <2>9, WholeBlocks
  <2>11. WholeDigest(alg, m) = WordBytes[alg][Chain(alg, m \o f, k)]
    BY <1>17, <1>18, <2>10, WholeIs
  <2> QED
    BY <1>1, <1>9, <1>12, <2>6, <2>7, <2>8, <2>9, <2>11
<1>22. CASE r + Trailer(alg) > block
  <2>1. PICK z1 \in Nat, z2 \in Nat : z1 = block - (r + 1) /\ z2 = block - 8 /\ n = z1 + z2
    <3>1. PICK z1, z2 : z1 = block - (r + 1) /\ z2 = block - 8
      OBVIOUS
    <3>2. n = (2 * block) - (r + 9)
      BY <1>2, <1>16, <1>20, <1>22
    <3>3. z1 \in Nat /\ z2 \in Nat
      BY ONLY <1>2, <1>5, <3>1, SMTT(30)
    <3>4. n = z1 + z2
      BY ONLY <1>2, <1>5, <3>1, <3>2
    <3> QED
      BY <3>1, <3>3, <3>4
  <2>2. PICK y, z : y = ZeroBytes(z1) /\ z = ZeroBytes(z2)
    OBVIOUS
  <2>3. y \in Seq(Byte) /\ Len(y) = z1 /\ z \in Seq(Byte) /\ Len(z) = z2
    BY <2>2, ZeroIs
  <2>4. Padding(alg, st) = <<one \o y, z>>
    <3>1. Len(one) > alg.room
      BY <1>14, <1>22
    <3>2. alg.block - Len(one) = z1 /\ alg.block - 8 = z2
      BY <1>2, <1>13, <2>1
    <3> QED
      BY <1>7, <1>12, <2>2, <3>1, <3>2 DEF Padding
  <2>5. PICK t1, t2 : t1 = o \o y /\ t2 = z \o e
    OBVIOUS
  <2>6. t1 \in Seq(Byte) /\ Len(t1) = 1 + z1 /\ t2 \in Seq(Byte) /\ Len(t2) = z2 + 8
    <3>1. t1 \in Seq(Byte) /\ Len(t1) = Len(o) + Len(y)
      BY <1>13, <2>3, <2>5, TwoParts
    <3>2. t2 \in Seq(Byte) /\ Len(t2) = Len(z) + Len(e)
      BY <1>19, <2>3, <2>5, TwoParts
    <3> QED
      BY <1>13, <1>19, <2>3, <3>1, <3>2
  <2>7. f = t1 \o t2
    <3>1. Frame(n, bits) = FrontHalf(z1) \o BackHalf(z2, bits)
      <4>1. IsSum(n, z1, z2)
        BY <2>1 DEF IsSum
      <4>2. z1 \in Nat /\ z2 \in Nat /\ bits \in Nat
        BY <2>1
      <4> QED
        BY ONLY <4>1, <4>2, FrameSplits
    <3> QED
      BY <1>12, <1>18, <2>2, <2>5, <3>1 DEF FrontHalf, BackHalf
  <2>8. PICK m1 : m1 = m \o t1
    OBVIOUS
  <2>9. /\ Chain(alg, m1, k) = compress[alg][Chain(alg, m, q)][Part(m, a, Len(m)) \o t1]
        /\ Len(m1) = alg.block * k /\ m1 \in Seq(Byte)
        /\ Part(m, a, Len(m)) \o t1 \in Block(alg)
    <3>1. Completes(alg, m, t1, q, a)
      <4>1. Len(m) = a + r /\ Len(t1) = 1 + (block - (r + 1))
        BY <1>1, <1>5, <2>1, <2>6
      <4>2. (a + r) + (1 + (block - (r + 1))) = a + block
        BY ONLY <1>2, <1>5, a \in Nat, SMT
      <4> QED
        BY <1>1, <1>2, <1>3, <1>4, <4>1, <4>2 DEF Completes
    <3> QED
      BY <1>31, <1>4, <2>6, <2>8, <3>1, LastBlock
  <2>10. one \o y = buf \o t1
    <3>1. (buf \o o) \o y = buf \o (o \o y)
      BY ONLY <1>8, <1>13, <2>3, ThreeJoined
    <3> QED
      BY <1>12, <2>5, <3>1
  <2>11. done(alg, st) = WordBytes[alg][compress[alg][compress[alg][chain][buf \o t1]][z \o e]]
    <3>1. buf \o t1 \in Block(alg)
      BY <1>1, <1>9, <2>9
    <3> QED
      <4>1. PICK b1 : b1 = buf \o t1
        OBVIOUS
      <4>2. b1 \in Block(alg) /\ Padding(alg, st) = <<b1, z>>
        BY <2>4, <2>10, <3>1, <4>1
      <4>3. Ended[alg][chain][<<b1, z>>][bits] =
              WordBytes[alg][compress[alg][compress[alg][chain][b1]][z \o LengthBytes(bits)]]
        BY <1>8, <2>3, <4>2, EndedTwo
      <4> QED
        BY <1>15, <1>18, <4>1, <4>2, <4>3
  <2>12. PICK b, k2 : b = alg.block * k /\ k2 = k + 1
    OBVIOUS
  <2>13. Len(m1) = b /\ Len(m1) + Len(t2) = b + alg.block /\ b \in Nat
    <3>1. Len(m1) = b /\ b \in Nat
      BY <2>9, <2>12, LenProperties
    <3>2. Len(t2) = (block - 8) + 8
      BY <2>1, <2>6
    <3>3. (block - 8) + 8 = block
      BY ONLY <1>2
    <3> QED
      BY <1>2, <3>1, <3>2, <3>3
  <2>14. /\ Chain(alg, m1 \o t2, k2) = compress[alg][Chain(alg, m1, k)][Part(m1, b, Len(m1)) \o t2]
         /\ Len(m1 \o t2) = alg.block * k2 /\ k2 \in Nat
    <3>1. Completes(alg, m1, t2, k, b)
      BY <2>12, <2>13 DEF Completes
    <3>2. Succeeds(k2, k) /\ k2 \in Nat
      BY <2>12 DEF Succeeds
    <3> QED
      BY <2>6, <2>9, <3>1, <3>2, LastBlock
  <2>15. Part(m1, b, Len(m1)) \o t2 = t2
    <3>1. Part(m1, b, Len(m1)) = <<>>
      BY <2>9, <2>12, <2>13, PartNone
    <3> QED
      BY <2>6, <3>1, ConcatEmptySeq
  <2>16. m \o f = m1 \o t2
    <3>1. m \o (t1 \o t2) = (m \o t1) \o t2
      BY ONLY m \in Seq(Byte), <2>6, ThreeJoined
    <3> QED
      BY <2>7, <2>8, <3>1
  <2>17. Len(m \o f) \div alg.block = k2
    BY <2>14, <2>16, WholeBlocks
  <2>18. WholeDigest(alg, m) = WordBytes[alg][Chain(alg, m \o f, k2)]
    BY <1>17, <1>18, <2>17, WholeIs
  <2> QED
    BY <1>1, <1>9, <2>5, <2>9, <2>11, <2>12, <2>14, <2>15, <2>16, <2>18
<1> QED
  BY <1>2, <1>20, <1>21, <1>22

-----------------------------------------------------------------------------
(* The stream. *)

(* What holds of a stream of the bytes fed. *)
Streaming ==
  /\ fed \in Seq(Byte)
  /\ hashing = None => fed = <<>> /\ digest = None
  /\ hashing # None => hashing \in Algs /\ \E q : Within(hashing, md, fed, Len(fed), q)
  /\ digest # None => hashing # None /\ digest = WholeDigest(hashing, fed)

(* What was appended is the rest after what was there. *)
LEMMA Appended ==
  ASSUME NEW s \in Seq(Byte), NEW t \in Seq(Byte)
  PROVE  t = Part(s \o t, Len(s), Len(s \o t))
<1>1. PICK a, c : a = Len(s) /\ c = Len(s) + Len(t)
  OBVIOUS
<1>2. a \in Nat /\ a <= Len(s)
  BY <1>1
<1>3. Len(s \o t) = c
  BY <1>1, TwoParts
<1>4. Part(s \o t, a, c) = Part(s, a, Len(s)) \o t
  BY <1>1, <1>2, PartTail
<1>5. Part(s, a, a) = <<>>
  BY <1>2, PartNone
<1>6. <<>> \o t = t
  BY ConcatEmptySeq
<1> QED
  BY <1>1, <1>3, <1>4, <1>5, <1>6

(* init starts at the beginning of any message. *)
LEMMA InitWithin ==
  ASSUME NEW alg \in Algs
  PROVE  Within(alg, init(alg), <<>>, Len(<<>>), 0)
<1>1. <<>> \in Seq(Byte) /\ Len(<<>>) = 0
  OBVIOUS
<1>2. alg.block * 0 = 0 /\ 8 * 0 = 0
  BY BlockSize
<1>3. Part(<<>>, 0, 0) = <<>>
  <2>1. PICK e : e = <<>>
    OBVIOUS
  <2>2. e \in Seq(Byte) /\ Len(e) = 0
    BY <2>1
  <2>3. Part(e, 0, 0) = <<>>
    <3>1. 0 \in Nat /\ 0 <= Len(e)
      BY <2>2
    <3> QED
      BY ONLY <2>2, <3>1, PartNone
  <2> QED
    BY <2>1, <2>3
<1>4. Chain(alg, <<>>, 0) = Narrow(alg, InitialState)
  BY ChainNothing
<1> QED
  BY <1>1, <1>2, <1>3, <1>4, BlockSize DEF Within, init

(* More of the message does not change where the stream stands in it. *)
LEMMA WithinExtends ==
  ASSUME NEW alg \in Algs, NEW m \in Seq(Byte), NEW t \in Seq(Byte), NEW st, NEW p, NEW q,
         Within(alg, st, m, p, q)
  PROVE  Within(alg, st, m \o t, p, q)
<1>1. PICK a \in Nat : a = alg.block * q
  <2>1. alg.block * q \in Nat
    BY BlockSize, SMT DEF Within
  <2> QED
    BY <2>1
<1>2. p \in Nat /\ q \in Nat /\ a <= p /\ p <= Len(m) /\ p < a + alg.block
  BY <1>1 DEF Within
<1>3. m \o t \in Seq(Byte) /\ Len(m \o t) = Len(m) + Len(t)
  BY TwoParts
<1>4. Len(m) \in Nat /\ Len(t) \in Nat
  OBVIOUS
<1>5. p <= Len(m \o t)
  BY <1>2, <1>3, <1>4
<1>6. Chain(alg, m \o t, q) = Chain(alg, m, q)
  <2>1. alg.block * q <= Len(m)
    BY <1>1, <1>2, <1>4
  <2> QED
    BY <1>2, <2>1, ChainExtends
<1>7. Part(m \o t, a, p) = Part(m, a, p)
  BY <1>2, PartHead
<1> QED
  BY <1>1, <1>2, <1>5, <1>6, <1>7 DEF Within

(* The bytes of the message. *)
LEMMA MessageIs == Message \in Seq(Byte)
  BY MessageAssumption DEF Byte

(* A hash begins. *)
LEMMA BeginStreaming ==
  ASSUME Streaming, NEW alg \in Algs, Begin(alg)
  PROVE  Streaming'
<1>1. hashing' = alg /\ md' = init(alg) /\ fed' = <<>> /\ digest' = None
  BY DEF Begin, Streaming
<1>2. Within(alg, init(alg), <<>>, Len(<<>>), 0)
  BY InitWithin
<1>3. <<>> \in Seq(Byte)
  OBVIOUS
<1> QED
  BY <1>1, <1>2, <1>3 DEF Streaming

(* process is given a piece of any length. *)
LEMMA FeedStreaming ==
  ASSUME Streaming, NEW n \in PieceLengths, Feed(n)
  PROVE  Streaming'
<1>1. hashing # None /\ digest = None /\ hashing \in Algs /\ fed \in Seq(Byte)
  BY DEF Feed, Streaming
<1>2. PICK q : Within(hashing, md, fed, Len(fed), q)
  BY <1>1 DEF Streaming
<1>3. PICK a \in Nat, b \in Nat : a = Len(fed) /\ b = Len(fed) + n /\ a <= b /\ b <= Len(Message)
  <2>1. n \in Nat /\ Len(fed) \in Nat /\ Len(fed) + n <= Len(Message)
    BY <1>1, PieceLengthsAssumption DEF Feed
  <2> QED
    BY <2>1
<1>4. PICK piece : piece = Part(Message, a, b)
  OBVIOUS
<1>5. piece \in Seq(Byte)
  BY <1>3, <1>4, MessageIs, PartIs DEF IsPart
<1>6. /\ md' = process[hashing][md][piece] /\ fed' = fed \o piece
      /\ hashing' = hashing /\ digest' = digest
  BY <1>3, <1>4 DEF Feed, Part
<1>7. PICK all : all = fed \o piece
  OBVIOUS
<1>8. all \in Seq(Byte) /\ Len(all) = Len(fed) + Len(piece)
  BY <1>1, <1>5, <1>7, TwoParts
<1>9. Within(hashing, md, all, a, q)
  BY <1>1, <1>2, <1>3, <1>5, <1>7, WithinExtends
<1>10. piece = Part(all, a, Len(all))
  <2>1. piece = Part(fed \o piece, Len(fed), Len(fed \o piece))
    BY <1>1, <1>5, Appended
  <2> QED
    BY <1>3, <1>7, <2>1
<1>11. PICK q2 : Within(hashing, process[hashing][md][piece], all, Len(all), q2)
  BY <1>1, <1>8, <1>9, <1>10, ProcessWithin
<1> QED
  BY <1>1, <1>6, <1>7, <1>8, <1>11 DEF Streaming

(* done is asked for the digest. *)
LEMMA FinishStreaming ==
  ASSUME Streaming, Finish
  PROVE  Streaming'
<1>1. hashing # None /\ hashing \in Algs /\ fed \in Seq(Byte) /\ digest' = done(hashing, md)
  BY DEF Finish, Streaming
<1>2. PICK q : Within(hashing, md, fed, Len(fed), q)
  BY <1>1 DEF Streaming
<1>3. done(hashing, md) = WholeDigest(hashing, fed)
  BY <1>1, <1>2, DoneIsWhole
<1>4. hashing' = hashing /\ md' = md /\ fed' = fed
  BY DEF Finish
<1> QED
  BY <1>1, <1>2, <1>3, <1>4 DEF Streaming

(***************************************************************************)
(* The inductive invariant: after any pieces, the state of sha256.cu and   *)
(* sha512.cu is the compression of the whole blocks of what was fed, its   *)
(* buf the bytes after them, its length the bits compressed.               *)
(***************************************************************************)
THEOREM HashIsStreaming == HashSpec => []Streaming
<1>1. HashInit => Streaming
  BY DEF HashInit, Streaming, None
<1>2. Streaming /\ [Hash]_hashVars => Streaming'
  <2> SUFFICES ASSUME Streaming, [Hash]_hashVars PROVE Streaming'
    OBVIOUS
  <2>1. ASSUME NEW alg \in {Sha256, Sha512}, Begin(alg)
        PROVE  Streaming'
    BY <2>1, BeginStreaming DEF Algs
  <2>2. ASSUME NEW n \in PieceLengths, Feed(n)
        PROVE  Streaming'
    BY <2>2, FeedStreaming
  <2>3. ASSUME Finish
        PROVE  Streaming'
    BY <2>3, FinishStreaming
  <2>4. ASSUME UNCHANGED hashVars
        PROVE  Streaming'
    BY <2>4 DEF hashVars, Streaming
  <2> QED
    BY <2>1, <2>2, <2>3, <2>4 DEF Hash
<1> QED
  BY <1>1, <1>2, PTL DEF HashSpec

(***************************************************************************)
(* The digest does not depend on how the message was cut into pieces: for  *)
(* every message, every list of lengths given to sha256_process or         *)
(* sha512_process and any number of calls, done returns what FIPS 180      *)
(* defines on the whole message.                                           *)
(***************************************************************************)
THEOREM EveryDigestIsWhole == HashSpec => []DigestsAreWhole
<1>1. Streaming => DigestsAreWhole
  BY DEF Streaming, DigestsAreWhole
<1> QED
  BY <1>1, HashIsStreaming, PTL
=============================================================================
