----------------------------- MODULE KeysProofs -----------------------------
(***************************************************************************)
(* Proofs about those who make and keep keys, for any number of threads,   *)
(* launches, keys, counters and sealed data: the seeds the vanity kernel   *)
(* walks through, the Base58 text of any bytes, the bytes of a public key, *)
(* the lines the kernel prints, and the signing enclave.                   *)
(***************************************************************************)
EXTENDS VanityKernel, SgxSigning, FoldProofs, FiniteSetTheorems

-----------------------------------------------------------------------------
(* The seeds of a vanity kernel thread. *)

(* Bytes and seeds. *)
Byte == 0 .. 255
Seed == {b \in Seq(Byte) : Len(b) = SeedBytes}

(* The first f of n elements are x, the next is not. *)
Begins(b, n, f, x) == f \in 0 .. n /\ (\A m \in 1 .. f : b[m] = x) /\ (f < n => b[f + 1] # x)

LEMMA BeginsCounts ==
  ASSUME NEW n \in Nat, NEW b, DOMAIN b = 1 .. n, NEW x, NEW f, Begins(b, n, f, x)
  PROVE  {k \in DOMAIN b : \A m \in 1 .. k : b[m] = x} = 1 .. f
         /\ Cardinality({k \in DOMAIN b : \A m \in 1 .. k : b[m] = x}) = f
<1>1. f \in 0 .. n /\ (\A m \in 1 .. f : b[m] = x) /\ (f < n => b[f + 1] # x)
  BY DEF Begins
<1>2. {k \in DOMAIN b : \A m \in 1 .. k : b[m] = x} = 1 .. f
  <2>1. ASSUME NEW k \in 1 .. n, \A m \in 1 .. k : b[m] = x
        PROVE  k \in 1 .. f
    <3>1. k > f => f + 1 \in 1 .. k /\ f < n
      BY <1>1
    <3> QED
      BY <1>1, <2>1, <3>1
  <2>2. ASSUME NEW k \in 1 .. f
        PROVE  k \in 1 .. n /\ \A m \in 1 .. k : b[m] = x
    BY <1>1
  <2> QED
    BY <2>1, <2>2
<1>3. Cardinality(1 .. f) = f
  BY <1>1, FS_Interval
<1> QED
  BY <1>2, <1>3

LEMMA SomeBegin ==
  ASSUME NEW n \in Nat, NEW b, NEW x
  PROVE  \E f \in 0 .. n : Begins(b, n, f, x)
<1>1. CASE \A m \in 1 .. n : b[m] = x
  BY <1>1 DEF Begins
<1>2. CASE ~(\A m \in 1 .. n : b[m] = x)
  <2> DEFINE S == {m \in 1 .. n : b[m] # x}
  <2>1. S \subseteq Nat /\ S # {}
    BY <1>2
  <2>2. PICK j \in S : \A m \in S : j <= m
    <3> HIDE DEF S
    <3> QED
      BY <2>1, Least
  <2>3. j \in 1 .. n /\ b[j] # x /\ \A m \in 1 .. j - 1 : b[m] = x
    BY <2>2
  <2>4. PICK f : f = j - 1
    OBVIOUS
  <2>5. f \in 0 .. n /\ f < n /\ f + 1 = j
    BY <2>3, <2>4
  <2>6. Begins(b, n, f, x)
    BY <2>3, <2>4, <2>5 DEF Begins
  <2> QED
    BY <2>5, <2>6
<1> QED
  BY <1>1, <1>2

(* The prefix of bytes 255. *)
Prefix(bytes) == {k \in DOMAIN bytes : \A m \in 1 .. k : bytes[m] = 255}
IsPrefix(bytes, n, f) == Begins(bytes, n, f, 255) /\ Prefix(bytes) = 1 .. f

(* It ends before the first byte that is not 255. *)
LEMMA PrefixIs ==
  ASSUME NEW n \in Nat, NEW b, DOMAIN b = 1 .. n
  PROVE  \E f \in 0 .. n : IsPrefix(b, n, f) /\ Cardinality(Prefix(b)) = f
<1>1. PICK f \in 0 .. n : Begins(b, n, f, 255)
  BY SomeBegin
<1>2. Prefix(b) = 1 .. f /\ Cardinality(Prefix(b)) = f
  BY <1>1, BeginsCounts DEF Prefix
<1> QED
  BY <1>1, <1>2 DEF IsPrefix

(* The bytes with the carry ended at byte f + 1, and what they count. *)
CarriedTo(bytes, f) == [k \in DOMAIN bytes |-> IF k <= f THEN 0 ELSE IF k = f + 1 THEN bytes[k] + 1 ELSE bytes[k]]
Count(b) == LowBytes(b) + 16777216 * b[4]

(* The bytes of a seed. *)
LEMMA SeedIs ==
  ASSUME NEW b \in Seed
  PROVE  /\ SeedBytes \in Nat /\ SeedBytes >= 4 /\ DOMAIN b = 1 .. SeedBytes
         /\ \A k \in 1 .. SeedBytes : b[k] \in Byte
         /\ b[1] \in Byte /\ b[2] \in Byte /\ b[3] \in Byte /\ b[4] \in Byte
  BY SeedAssumption DEF Seed

(* The next seed is one: the carry goes through the bytes 255 in front. *)
LEMMA IncrementIs ==
  ASSUME NEW b \in Seed
  PROVE  Increment(b) \in Seed /\ \E f \in 0 .. SeedBytes : IsPrefix(b, SeedBytes, f) /\ Increment(b) = CarriedTo(b, f)
<1>1. /\ SeedBytes \in Nat /\ SeedBytes >= 4 /\ DOMAIN b = 1 .. SeedBytes
      /\ \A k \in 1 .. SeedBytes : b[k] \in Byte
  BY SeedIs
<1>2. PICK f \in 0 .. SeedBytes : IsPrefix(b, SeedBytes, f) /\ Cardinality(Prefix(b)) = f
  BY <1>1, PrefixIs
<1>3. Increment(b) = CarriedTo(b, f) \o <<>>
  BY <1>2 DEF Increment, CarriedTo, Prefix
<1> DEFINE g == CarriedTo(b, f)
<1>4. g = [k \in 1 .. SeedBytes |-> g[k]] /\ \A k \in 1 .. SeedBytes : g[k] \in Byte
  <2>1. g = [k \in 1 .. SeedBytes |-> g[k]]
    BY <1>1 DEF CarriedTo
  <2>2. ASSUME NEW k \in 1 .. SeedBytes
        PROVE  g[k] \in Byte
    <3>1. k = f + 1 => b[k] # 255
      BY <1>1, <1>2 DEF IsPrefix, Begins
    <3>2. g[k] = IF k <= f THEN 0 ELSE IF k = f + 1 THEN b[k] + 1 ELSE b[k]
      BY <1>1 DEF CarriedTo
    <3>3. b[k] \in Byte
      BY <1>1
    <3> HIDE DEF g
    <3> QED
      BY <3>1, <3>2, <3>3 DEF Byte
  <2> QED
    BY <2>1, <2>2
<1> HIDE DEF g
<1>5. g \o <<>> = g /\ g \in Seq(Byte) /\ Len(g) = SeedBytes
  BY <1>1, <1>4, Tupled
<1> QED
  BY <1>2, <1>3, <1>5 DEF Seed, g

(* The count goes up by one, whatever byte the carry ends at. *)
LEMMA CountIs ==
  ASSUME NEW b \in Seed
  PROVE  Count(b) \in Nat /\ Count(Increment(b)) = (Count(b) + 1) % 4294967296
         /\ LowBytes(Increment(b)) = (LowBytes(b) + 1) % 16777216
<1>1. /\ SeedBytes \in Nat /\ SeedBytes >= 4 /\ DOMAIN b = 1 .. SeedBytes
      /\ b[1] \in Byte /\ b[2] \in Byte /\ b[3] \in Byte /\ b[4] \in Byte
  BY SeedIs
<1>2. PICK f \in 0 .. SeedBytes : IsPrefix(b, SeedBytes, f) /\ Increment(b) = CarriedTo(b, f)
  BY IncrementIs
<1>3. PICK x1, x2, x3, x4 : x1 = b[1] /\ x2 = b[2] /\ x3 = b[3] /\ x4 = b[4]
  OBVIOUS
<1>4. PICK y1, y2, y3, y4 : y1 = Increment(b)[1] /\ y2 = Increment(b)[2] /\ y3 = Increment(b)[3] /\ y4 = Increment(b)[4]
  OBVIOUS
<1>5. x1 \in Byte /\ x2 \in Byte /\ x3 \in Byte /\ x4 \in Byte
  BY <1>1, <1>3
<1>6. /\ y1 = IF 1 <= f THEN 0 ELSE IF f = 0 THEN x1 + 1 ELSE x1
      /\ y2 = IF 2 <= f THEN 0 ELSE IF f = 1 THEN x2 + 1 ELSE x2
      /\ y3 = IF 3 <= f THEN 0 ELSE IF f = 2 THEN x3 + 1 ELSE x3
      /\ y4 = IF 4 <= f THEN 0 ELSE IF f = 3 THEN x4 + 1 ELSE x4
  BY <1>1, <1>2, <1>3, <1>4 DEF CarriedTo
<1>7. /\ 1 <= f => x1 = 255
      /\ 2 <= f => x2 = 255
      /\ 3 <= f => x3 = 255
      /\ 4 <= f => x4 = 255
      /\ f = 0 => x1 # 255
      /\ f = 1 => x2 # 255
      /\ f = 2 => x3 # 255
      /\ f = 3 => x4 # 255
  BY <1>1, <1>2, <1>3 DEF IsPrefix, Begins
<1>8. y1 + 256 * y2 + 65536 * y3 = ((x1 + 256 * x2 + 65536 * x3) + 1) % 16777216
  <2>1. CASE f = 0
    BY <1>5, <1>6, <1>7, <2>1, SMT DEF Byte
  <2>2. CASE f = 1
    BY <1>5, <1>6, <1>7, <2>2, SMT DEF Byte
  <2>3. CASE f = 2
    BY <1>5, <1>6, <1>7, <2>3, SMT DEF Byte
  <2>4. CASE f >= 3
    BY <1>5, <1>6, <1>7, <2>4, SMT DEF Byte
  <2> QED
    BY <1>1, <2>1, <2>2, <2>3, <2>4, SMT
<1>9. (y1 + 256 * y2 + 65536 * y3) + 16777216 * y4 = (((x1 + 256 * x2 + 65536 * x3) + 16777216 * x4) + 1) % 4294967296
  <2>1. CASE f = 0
    BY <1>5, <1>6, <1>7, <2>1, SMT DEF Byte
  <2>2. CASE f = 1
    BY <1>5, <1>6, <1>7, <2>2, SMT DEF Byte
  <2>3. CASE f = 2
    BY <1>5, <1>6, <1>7, <2>3, SMT DEF Byte
  <2>4. CASE f = 3
    BY <1>5, <1>6, <1>7, <2>4, SMT DEF Byte
  <2>5. CASE f >= 4
    BY <1>5, <1>6, <1>7, <2>5, SMT DEF Byte
  <2> QED
    BY <1>1, <2>1, <2>2, <2>3, <2>4, <2>5, SMT
<1>10. (x1 + 256 * x2 + 65536 * x3) + 16777216 * x4 \in Nat
  BY <1>5, SMT DEF Byte
<1> QED
  BY <1>3, <1>4, <1>8, <1>9, <1>10, SMT DEF Count, LowBytes

(* The walk of a launch from its first seed, and the seed that follows it. *)
Path(walk, first) ==
  /\ walk \in Seq(Seed)
  /\ walk # <<>> => walk[1] = first
  /\ \A i \in 2 .. Len(walk) : LowBytes(walk[i]) = (LowBytes(walk[i - 1]) + 1) % 16777216
  /\ \A i \in 1 .. Len(walk) : Count(walk[i]) = (Count(first) + (i - 1)) % 4294967296
GoesOn(walk, first, next) ==
  /\ next \in Seed
  /\ walk = <<>> => next = first
  /\ walk # <<>> => LowBytes(next) = (LowBytes(walk[Len(walk)]) + 1) % 16777216
  /\ Count(next) = (Count(first) + Len(walk)) % 4294967296

(* One step further, modulo 2^32. *)
LEMMA Modular ==
  ASSUME NEW c \in Nat, NEW l \in Nat, NEW v, v = (c + l) % 4294967296
  PROVE  (v + 1) % 4294967296 = (c + (l + 1)) % 4294967296
  BY SMT

(* Four bytes make a number below 2^32. *)
LEMMA FourBytesBelow ==
  ASSUME NEW a \in Byte, NEW b \in Byte, NEW c \in Byte, NEW e \in Byte
  PROVE  /\ (a + 256 * b + 65536 * c) + 16777216 * e \in Nat
         /\ (a + 256 * b + 65536 * c) + 16777216 * e < 4294967296
  BY SMT DEF Byte

(* A walk begins. *)
LEMMA WalkStarts ==
  ASSUME NEW first \in Seed
  PROVE  Path(<<>>, first) /\ GoesOn(<<>>, first, first)
<1>1. Count(first) \in Nat /\ Count(first) < 4294967296
  <2>1. first[1] \in Byte /\ first[2] \in Byte /\ first[3] \in Byte /\ first[4] \in Byte
    BY SeedIs
  <2>2. PICK a, b, c, d4 : a = first[1] /\ b = first[2] /\ c = first[3] /\ d4 = first[4]
    OBVIOUS
  <2>3. a \in Byte /\ b \in Byte /\ c \in Byte /\ d4 \in Byte
    BY <2>1, <2>2
  <2>4. (a + 256 * b + 65536 * c) + 16777216 * d4 \in Nat /\ (a + 256 * b + 65536 * c) + 16777216 * d4 < 4294967296
    BY <2>3, FourBytesBelow, SMT
  <2> QED
    BY <2>2, <2>4, SMT DEF Count, LowBytes
<1>2. (Count(first) + 0) % 4294967296 = Count(first)
  BY <1>1, SMT
<1>3. <<>> \in Seq(Seed) /\ Len(<<>>) = 0
  OBVIOUS
<1>4. Path(<<>>, first)
  BY <1>3, SMT DEF Path
<1>5. GoesOn(<<>>, first, first)
  BY <1>2, <1>3, SMT DEF GoesOn
<1> QED
  BY <1>4, <1>5

(* An attempt adds the seed to the walk and goes on to the next. *)
LEMMA WalkGoesOn ==
  ASSUME NEW first \in Seed, NEW walk, NEW next, Path(walk, first), GoesOn(walk, first, next)
  PROVE  Path(Append(walk, next), first) /\ GoesOn(Append(walk, next), first, Increment(next))
<1>1. walk \in Seq(Seed) /\ next \in Seed
  BY DEF Path, GoesOn
<1>2. PICK l \in Nat : l = Len(walk)
  BY <1>1
<1>3. PICK w : w = Append(walk, next)
  OBVIOUS
<1>4. /\ w \in Seq(Seed) /\ Len(w) = l + 1 /\ w[l + 1] = next /\ w # <<>>
      /\ \A i \in 1 .. l : w[i] = walk[i]
  BY <1>1, <1>2, <1>3
<1>5. w[1] = first
  <2>1. CASE walk = <<>>
    BY <1>2, <1>4, <2>1, SMT DEF GoesOn
  <2>2. CASE walk # <<>>
    <3>1. l > 0
      BY <1>1, <1>2, <2>2
    <3> QED
      BY <1>4, <2>2, <3>1, SMT DEF Path
  <2> QED
    BY <2>1, <2>2
<1>6. ASSUME NEW i \in 2 .. Len(w)
      PROVE  LowBytes(w[i]) = (LowBytes(w[i - 1]) + 1) % 16777216
  <2>1. CASE i <= l
    <3>1. i \in 2 .. Len(walk) /\ w[i] = walk[i] /\ w[i - 1] = walk[i - 1]
      BY <1>2, <1>4, <2>1
    <3> QED
      BY <3>1, SMT DEF Path
  <2>2. CASE i = l + 1
    <3>1. i - 1 = l /\ l > 0 /\ walk # <<>> /\ w[i] = next /\ w[i - 1] = walk[Len(walk)]
      BY <1>1, <1>2, <1>4, <2>2
    <3> QED
      BY <3>1, SMT DEF GoesOn
  <2> QED
    BY <1>2, <1>4, <2>1, <2>2
<1>7. ASSUME NEW i \in 1 .. Len(w)
      PROVE  Count(w[i]) = (Count(first) + (i - 1)) % 4294967296
  <2>1. CASE i <= l
    <3>1. i \in 1 .. Len(walk) /\ w[i] = walk[i]
      BY <1>2, <1>4, <2>1
    <3> QED
      BY <3>1, SMT DEF Path
  <2>2. CASE i = l + 1
    <3>1. i - 1 = Len(walk) /\ w[i] = next
      BY <1>2, <1>4, <2>2
    <3> QED
      BY <3>1, SMT DEF GoesOn
  <2> QED
    BY <1>2, <1>4, <2>1, <2>2
<1>8. Path(w, first)
  BY <1>4, <1>5, <1>6, <1>7, SMT DEF Path
<1>9. Increment(next) \in Seed /\ LowBytes(Increment(next)) = (LowBytes(next) + 1) % 16777216
  BY <1>1, IncrementIs, CountIs, SMT
<1>10. Count(Increment(next)) = (Count(first) + (l + 1)) % 4294967296
  <2>1. Count(next) = (Count(first) + l) % 4294967296 /\ Count(first) \in Nat
    BY <1>2, CountIs, SMT DEF GoesOn
  <2>2. Count(Increment(next)) = (Count(next) + 1) % 4294967296
    BY <1>1, CountIs, SMT
  <2> QED
    BY <2>1, <2>2, Modular, SMT
<1>11. GoesOn(w, first, Increment(next))
  <2>1. w[Len(w)] = next
    BY <1>4
  <2> QED
    BY <1>4, <1>9, <1>10, <2>1, SMT DEF GoesOn
<1> QED
  BY <1>3, <1>8, <1>11

(* Fewer than 2^32 attempts do not come back to a seed. *)
LEMMA Apart ==
  ASSUME NEW c \in Nat, NEW i \in Nat, NEW j \in Nat, i < j, j <= 2147483647
  PROVE  (c + i) % 4294967296 # (c + j) % 4294967296
  BY SMT

(* No seed comes twice in a walk of at most attempts_per_thread steps. *)
LEMMA WalkIsFresh ==
  ASSUME NEW first \in Seed, NEW walk, Path(walk, first), Len(walk) <= attempts_per_thread
  PROVE  \A i, j \in DOMAIN walk : i # j => walk[i] # walk[j]
<1>1. walk \in Seq(Seed) /\ Count(first) \in Nat
  BY CountIs, SMT DEF Path
<1>2. Len(walk) <= 2147483647
  BY <1>1, LaunchAssumption, SMT
<1>3. ASSUME NEW i \in 1 .. Len(walk), NEW j \in 1 .. Len(walk), i < j
      PROVE  walk[i] # walk[j]
  <2>1. /\ Count(walk[i]) = (Count(first) + (i - 1)) % 4294967296
        /\ Count(walk[j]) = (Count(first) + (j - 1)) % 4294967296
    BY SMT DEF Path
  <2>2. i - 1 \in Nat /\ j - 1 \in Nat /\ i - 1 < j - 1
    BY <1>1, <1>3
  <2>3. j - 1 <= 2147483647
    BY <1>1, <1>2, SMT
  <2>4. (Count(first) + (i - 1)) % 4294967296 # (Count(first) + (j - 1)) % 4294967296
    BY <1>1, <2>2, <2>3, Apart, SMT
  <2> QED
    BY <2>1, <2>4, SMT
<1>4. ASSUME NEW i \in DOMAIN walk, NEW j \in DOMAIN walk, i # j
      PROVE  walk[i] # walk[j]
  <2>1. i \in 1 .. Len(walk) /\ j \in 1 .. Len(walk)
    BY <1>1
  <2>2. i < j \/ j < i
    BY <1>1, <1>4, <2>1
  <2> QED
    BY <1>3, <2>1, <2>2
<1> QED
  BY <1>4

(* The seed a launch begins with. *)
First(id, n) == Drawn(id, SeedBytes * (n - 1))

(* One thread: drawn bytes of its generator saved, a attempts made in the  *)
(* launch, the seed to try next, and the walks of its launches.            *)
WalkAt(id, walks, n, a) ==
  /\ Path(walks[n], First(id, n))
  /\ Len(walks[n]) = IF n = Len(walks) THEN a ELSE attempts_per_thread
Scanning(id, drawn, a, next, walks) ==
  /\ drawn \in Nat /\ a \in 0 .. attempts_per_thread /\ next \in Seed
  /\ walks \in Seq(Seq(Seed)) /\ Len(walks) <= MaxLaunches
  /\ walks = <<>> => a = attempts_per_thread
  /\ drawn = SeedBytes * (IF a = attempts_per_thread THEN Len(walks) ELSE Len(walks) - 1)
  /\ \A n \in 1 .. Len(walks) : WalkAt(id, walks, n, a)
  /\ walks # <<>> => GoesOn(walks[Len(walks)], First(id, Len(walks)), next)

(* The bytes of launch l are among those the generator gives. *)
LEMMA BytesOfLaunch ==
  ASSUME NEW b \in Nat, NEW m \in Nat, NEW l \in Nat, l < m, NEW k \in 1 .. b
  PROVE  b * l \in Nat /\ (b * l) + k \in 1 .. (b * m)
<1>1. b * l \in Nat /\ b * m \in Nat
  BY SMT
<1>2. b * (m - l) >= b
  BY SMT
<1>3. b * (m - l) = (b * m) - (b * l)
  BY SMT
<1>4. (b * l) + k <= b * m
  BY <1>1, <1>2, <1>3
<1> QED
  BY <1>1, <1>4

(* What a launch draws is a seed. *)
LEMMA DrawnIs ==
  ASSUME NEW id \in Threads, NEW l \in Nat, l < MaxLaunches
  PROVE  Drawn(id, SeedBytes * l) \in Seed
<1>1. SeedBytes \in Nat /\ MaxLaunches \in Nat
  BY SeedAssumption, LaunchAssumption, SMT
<1>2. PICK p : p = SeedBytes * l
  OBVIOUS
<1> DEFINE f == [k \in 1 .. SeedBytes |-> RandomByte(id, p + k)]
<1>3. ASSUME NEW k \in 1 .. SeedBytes
      PROVE  f[k] \in Byte
  <2>1. p + k \in 1 .. (SeedBytes * MaxLaunches)
    BY <1>1, <1>2, BytesOfLaunch
  <2> QED
    BY <2>1, GeneratorAssumption DEF Byte
<1>4. f = [k \in 1 .. SeedBytes |-> f[k]]
  OBVIOUS
<1>5. Drawn(id, p) = f \o <<>>
  BY DEF Drawn
<1> HIDE DEF f
<1>6. f \o <<>> = f /\ f \in Seq(Byte) /\ Len(f) = SeedBytes
  BY <1>1, <1>3, <1>4, Tupled
<1> QED
  BY <1>2, <1>5, <1>6 DEF Seed

(* So is the empty one. *)
LEMMA IdleIs == Idle \in Seed
<1> DEFINE f == [k \in 1 .. SeedBytes |-> 0]
<1>1. SeedBytes \in Nat /\ 0 \in Byte
  BY SeedAssumption DEF Byte
<1>2. f = [k \in 1 .. SeedBytes |-> f[k]] /\ \A k \in 1 .. SeedBytes : f[k] \in Byte
  BY <1>1
<1>3. Idle = f \o <<>>
  BY DEF Idle
<1> HIDE DEF f
<1> QED
  BY <1>1, <1>2, <1>3, Tupled DEF Seed

(* The constants. *)
LEMMA Attempts == attempts_per_thread \in Nat /\ attempts_per_thread > 0 /\ MaxLaunches \in Nat /\ SeedBytes \in Nat
  BY LaunchAssumption, SeedAssumption, SMT

(* A launch draws the next bytes of the generator. *)
LEMMA DrawScans ==
  ASSUME NEW id \in Threads, NEW drawn, NEW next, NEW walks,
         Scanning(id, drawn, attempts_per_thread, next, walks), Len(walks) < MaxLaunches
  PROVE  Scanning(id, drawn, 0, Drawn(id, drawn), Append(walks, <<>>))
<1>1. /\ drawn \in Nat /\ walks \in Seq(Seq(Seed)) /\ drawn = SeedBytes * Len(walks)
      /\ \A n \in 1 .. Len(walks) : WalkAt(id, walks, n, attempts_per_thread)
  BY Attempts DEF Scanning
<1>2. PICK l \in Nat : l = Len(walks) /\ l < MaxLaunches
  BY <1>1
<1>3. PICK w : w = Append(walks, <<>>)
  OBVIOUS
<1>4. <<>> \in Seq(Seed)
  OBVIOUS
<1>5. /\ w \in Seq(Seq(Seed)) /\ Len(w) = l + 1 /\ w[l + 1] = <<>> /\ w # <<>>
      /\ \A n \in 1 .. l : w[n] = walks[n]
  BY <1>1, <1>2, <1>3, <1>4
<1>6. PICK first : first = Drawn(id, drawn)
  OBVIOUS
<1>7. first \in Seed /\ first = First(id, l + 1)
  <2>1. (l + 1) - 1 = l
    OBVIOUS
  <2>2. Drawn(id, SeedBytes * l) \in Seed
    BY <1>2, DrawnIs
  <2> QED
    BY <1>1, <1>2, <1>6, <2>1, <2>2 DEF First
<1>8. Path(<<>>, first) /\ GoesOn(<<>>, first, first)
  BY <1>7, WalkStarts
<1>9. ASSUME NEW n \in 1 .. Len(w)
      PROVE  WalkAt(id, w, n, 0)
  <2>1. CASE n = l + 1
    <3>1. w[n] = <<>> /\ n = Len(w) /\ Len(w[n]) = 0
      BY <1>5, <2>1
    <3>2. Path(w[n], First(id, n))
      BY <1>7, <1>8, <2>1, <3>1
    <3> QED
      BY <3>1, <3>2 DEF WalkAt
  <2>2. CASE n # l + 1
    <3>1. n \in 1 .. l /\ w[n] = walks[n] /\ n # Len(w)
      BY <1>5, <2>2
    <3>2. WalkAt(id, walks, n, attempts_per_thread)
      BY <1>1, <1>2, <3>1
    <3> QED
      BY <3>1, <3>2 DEF WalkAt
  <2> QED
    BY <2>1, <2>2
<1>10. GoesOn(w[Len(w)], First(id, Len(w)), first)
  BY <1>5, <1>7, <1>8
<1>11. drawn = SeedBytes * (Len(w) - 1)
  <2>1. Len(w) - 1 = l
    BY <1>5
  <2> QED
    BY <1>1, <1>2, <2>1
<1>12. Len(w) <= MaxLaunches /\ 0 \in 0 .. attempts_per_thread /\ 0 # attempts_per_thread
  BY <1>2, <1>5, Attempts
<1> QED
  BY <1>1, <1>3, <1>5, <1>6, <1>7, <1>9, <1>10, <1>11, <1>12 DEF Scanning

(* An attempt; the last one saves the generator. *)
LEMMA AttemptScans ==
  ASSUME NEW id \in Threads, NEW drawn, NEW a, NEW next, NEW walks,
         Scanning(id, drawn, a, next, walks), a < attempts_per_thread
  PROVE  Scanning(id, IF a + 1 = attempts_per_thread THEN Saved(drawn) ELSE drawn, a + 1, Increment(next),
                  [walks EXCEPT ![Len(walks)] = Append(@, next)])
<1>1. /\ drawn \in Nat /\ a \in Nat /\ next \in Seed /\ walks \in Seq(Seq(Seed)) /\ walks # <<>>
      /\ drawn = SeedBytes * (Len(walks) - 1)
      /\ \A n \in 1 .. Len(walks) : WalkAt(id, walks, n, a)
      /\ GoesOn(walks[Len(walks)], First(id, Len(walks)), next) /\ Len(walks) <= MaxLaunches
  BY Attempts DEF Scanning
<1>2. PICK l \in Nat : l = Len(walks) /\ l > 0 /\ l \in 1 .. Len(walks) /\ l - 1 \in Nat /\ l - 1 < MaxLaunches
  BY <1>1, Attempts
<1>3. PICK walk, first : walk = walks[l] /\ first = First(id, l)
  OBVIOUS
<1>4. first \in Seed
  BY <1>2, <1>3, DrawnIs DEF First
<1>5. Path(walk, first) /\ Len(walk) = a /\ GoesOn(walk, first, next) /\ walk \in Seq(Seed)
  BY <1>1, <1>2, <1>3 DEF WalkAt
<1>6. PICK longer, after : longer = Append(walk, next) /\ after = Increment(next)
  OBVIOUS
<1>7. Path(longer, first) /\ GoesOn(longer, first, after)
  BY <1>4, <1>5, <1>6, WalkGoesOn
<1>8. longer \in Seq(Seed) /\ Len(longer) = a + 1
  BY <1>1, <1>5, <1>6
<1>9. PICK w : w = [walks EXCEPT ![Len(walks)] = Append(@, next)]
  OBVIOUS
<1>10. /\ w \in Seq(Seq(Seed)) /\ Len(w) = l /\ w[l] = longer /\ w # <<>>
       /\ \A n \in 1 .. l : n # l => w[n] = walks[n]
  <2>1. w = [walks EXCEPT ![l] = longer]
    BY <1>2, <1>3, <1>6, <1>9
  <2> QED
    BY <1>1, <1>2, <1>8, <2>1
<1>11. ASSUME NEW n \in 1 .. Len(w)
       PROVE  WalkAt(id, w, n, a + 1)
  <2>1. CASE n = l
    BY <1>3, <1>7, <1>8, <1>10, <2>1 DEF WalkAt
  <2>2. CASE n # l
    <3>1. WalkAt(id, walks, n, a) /\ w[n] = walks[n] /\ n # Len(w) /\ n # Len(walks)
      BY <1>1, <1>2, <1>10, <2>2
    <3> QED
      BY <3>1 DEF WalkAt
  <2> QED
    BY <2>1, <2>2
<1>12. PICK saved : saved = IF a + 1 = attempts_per_thread THEN Saved(drawn) ELSE drawn
  OBVIOUS
<1>13. saved \in Nat /\ saved = SeedBytes * (IF a + 1 = attempts_per_thread THEN Len(w) ELSE Len(w) - 1)
  <2>1. SeedBytes * l = (SeedBytes * (l - 1)) + SeedBytes
    BY <1>2, Attempts, SMT
  <2>2. CASE a + 1 = attempts_per_thread
    BY <1>1, <1>2, <1>10, <1>12, <2>1, <2>2, Attempts DEF Saved
  <2>3. CASE a + 1 # attempts_per_thread
    BY <1>1, <1>2, <1>10, <1>12, <2>3
  <2> QED
    BY <2>2, <2>3
<1>14. after \in Seed /\ a + 1 \in 0 .. attempts_per_thread
  <2>1. after \in Seed
    BY <1>1, <1>6, IncrementIs
  <2> QED
    BY <1>1, <2>1, Attempts
<1>15. GoesOn(w[Len(w)], First(id, Len(w)), after)
  BY <1>3, <1>7, <1>10
<1>16. Len(w) <= MaxLaunches
  BY <1>1, <1>2, <1>10
<1> QED
  BY <1>6, <1>9, <1>10, <1>11, <1>12, <1>13, <1>14, <1>15, <1>16 DEF Scanning

(* What a run checks of a thread. *)
LEMMA ScanningIsFresh ==
  ASSUME NEW id \in Threads, NEW drawn, NEW a, NEW next, NEW walks, Scanning(id, drawn, a, next, walks),
         NEW n \in DOMAIN walks
  PROVE  /\ walks[n] # <<>> => walks[n][1] = Drawn(id, SeedBytes * (n - 1))
         /\ \A i \in 2 .. Len(walks[n]) : LowBytes(walks[n][i]) = (LowBytes(walks[n][i - 1]) + 1) % 16777216
         /\ \A i, j \in DOMAIN walks[n] : i # j => walks[n][i] # walks[n][j]
<1>1. n \in 1 .. Len(walks) /\ n - 1 \in Nat /\ n - 1 < MaxLaunches
  <2>1. walks \in Seq(Seq(Seed)) /\ Len(walks) <= MaxLaunches
    BY DEF Scanning
  <2> QED
    BY <2>1, Attempts
<1>2. WalkAt(id, walks, n, a) /\ a \in 0 .. attempts_per_thread
  BY <1>1 DEF Scanning
<1>3. First(id, n) \in Seed
  BY <1>1, DrawnIs DEF First
<1>4. Path(walks[n], First(id, n)) /\ Len(walks[n]) <= attempts_per_thread
  BY <1>2, Attempts DEF WalkAt
<1>5. \A i, j \in DOMAIN walks[n] : i # j => walks[n][i] # walks[n][j]
  BY <1>3, <1>4, WalkIsFresh
<1> QED
  BY <1>4, <1>5, SMT DEF Path, First

(* Every thread. *)
ScanInv ==
  /\ state \in [Threads -> Nat] /\ attempts \in [Threads -> Nat]
  /\ seed \in [Threads -> Seed] /\ tried \in [Threads -> Seq(Seq(Seed))]
  /\ \A id \in Threads : Scanning(id, state[id], attempts[id], seed[id], tried[id])

(* Before the first launch. *)
LEMMA ScanStarts == ScanInit => ScanInv
<1> SUFFICES ASSUME ScanInit PROVE ScanInv
  OBVIOUS
<1>1. <<>> \in Seq(Seq(Seed)) /\ Len(<<>>) = 0
  OBVIOUS
<1>2. ASSUME NEW id \in Threads
      PROVE  Scanning(id, 0, attempts_per_thread, Idle, <<>>)
  <2>1. SeedBytes * 0 = 0
    BY Attempts
  <2> QED
    BY <1>1, <2>1, IdleIs, Attempts DEF Scanning
<1> QED
  BY <1>1, <1>2, IdleIs, Attempts DEF ScanInit, ScanInv

(* A launch touches its own thread alone ... *)
LEMMA DrawKeeps ==
  ASSUME ScanInv, NEW id \in Threads, Draw(id)
  PROVE  ScanInv'
<1>1. Scanning(id, state[id], attempts[id], seed[id], tried[id])
  BY DEF ScanInv
<1>2. /\ attempts[id] = attempts_per_thread /\ Len(tried[id]) < MaxLaunches
      /\ seed' = [seed EXCEPT ![id] = Drawn(id, state[id])] /\ attempts' = [attempts EXCEPT ![id] = 0]
      /\ tried' = [tried EXCEPT ![id] = Append(@, <<>>)] /\ state' = state
  BY DEF Draw
<1>3. PICK drawn, first, walks : drawn = state[id] /\ first = Drawn(id, drawn) /\ walks = Append(tried[id], <<>>)
  OBVIOUS
<1>4. Scanning(id, drawn, 0, first, walks)
  BY <1>1, <1>2, <1>3, DrawScans
<1>5. first \in Seed /\ walks \in Seq(Seq(Seed))
  BY <1>4 DEF Scanning
<1>6. /\ state' \in [Threads -> Nat] /\ attempts' \in [Threads -> Nat]
      /\ seed' \in [Threads -> Seed] /\ tried' \in [Threads -> Seq(Seq(Seed))]
  BY <1>2, <1>3, <1>5 DEF ScanInv
<1>7. ASSUME NEW i \in Threads
      PROVE  Scanning(i, state'[i], attempts'[i], seed'[i], tried'[i])
  <2>1. CASE i = id
    BY <1>2, <1>3, <1>4, <2>1 DEF ScanInv
  <2>2. CASE i # id
    BY <1>2, <2>2 DEF ScanInv
  <2> QED
    BY <2>1, <2>2
<1> QED
  BY <1>6, <1>7 DEF ScanInv

(* ... and so does an attempt. *)
LEMMA AttemptKeeps ==
  ASSUME ScanInv, NEW id \in Threads, Attempt(id)
  PROVE  ScanInv'
<1>1. Scanning(id, state[id], attempts[id], seed[id], tried[id])
  BY DEF ScanInv
<1>2. /\ attempts[id] < attempts_per_thread
      /\ tried' = [tried EXCEPT ![id][Len(tried[id])] = Append(@, seed[id])]
      /\ seed' = [seed EXCEPT ![id] = Increment(@)]
      /\ attempts' = [attempts EXCEPT ![id] = @ + 1]
      /\ state' = [state EXCEPT ![id] = IF attempts[id] + 1 = attempts_per_thread THEN Saved(@) ELSE @]
  BY DEF Attempt
<1>3. PICK drawn, a, next, walks :
        /\ drawn = IF attempts[id] + 1 = attempts_per_thread THEN Saved(state[id]) ELSE state[id]
        /\ a = attempts[id] + 1 /\ next = Increment(seed[id])
        /\ walks = [tried[id] EXCEPT ![Len(tried[id])] = Append(@, seed[id])]
  OBVIOUS
<1>4. Scanning(id, drawn, a, next, walks)
  BY <1>1, <1>2, <1>3, AttemptScans
<1>5. drawn \in Nat /\ a \in Nat /\ next \in Seed /\ walks \in Seq(Seq(Seed))
  BY <1>4, Attempts DEF Scanning
<1>6. /\ state' = [state EXCEPT ![id] = drawn] /\ attempts' = [attempts EXCEPT ![id] = a]
      /\ seed' = [seed EXCEPT ![id] = next] /\ tried' = [tried EXCEPT ![id] = walks]
  BY <1>2, <1>3
<1>7. /\ state' \in [Threads -> Nat] /\ attempts' \in [Threads -> Nat]
      /\ seed' \in [Threads -> Seed] /\ tried' \in [Threads -> Seq(Seq(Seed))]
  BY <1>5, <1>6 DEF ScanInv
<1>8. ASSUME NEW i \in Threads
      PROVE  Scanning(i, state'[i], attempts'[i], seed'[i], tried'[i])
  <2>1. CASE i = id
    BY <1>4, <1>6, <2>1 DEF ScanInv
  <2>2. CASE i # id
    BY <1>6, <2>2 DEF ScanInv
  <2> QED
    BY <2>1, <2>2
<1> QED
  BY <1>7, <1>8 DEF ScanInv

(***************************************************************************)
(* The inductive invariant: where each thread stands in its generator and  *)
(* in the walk of its launch.                                              *)
(***************************************************************************)
THEOREM ScanInvariance == ScanSpec => []ScanInv
<1>1. ScanInv /\ [Scan]_scanVars => ScanInv'
  <2> SUFFICES ASSUME ScanInv, [Scan]_scanVars PROVE ScanInv'
    OBVIOUS
  <2>1. CASE Scan
    BY <2>1, DrawKeeps, AttemptKeeps DEF Scan
  <2>2. CASE UNCHANGED scanVars
    BY <2>2 DEF scanVars, ScanInv
  <2> QED
    BY <2>1, <2>2
<1> QED
  BY <1>1, ScanStarts, PTL DEF ScanSpec

(***************************************************************************)
(* No seed is tried twice in a launch and no byte of the generator starts  *)
(* two, for any number of threads, any generator, any number of attempts   *)
(* an int holds and any number of launches.                                *)
(***************************************************************************)
THEOREM EverySeedIsFresh == ScanSpec => []SeedsAreFresh
<1>1. ScanInv => SeedsAreFresh
  <2> SUFFICES ASSUME ScanInv, NEW id \in Threads, NEW n \in DOMAIN tried[id]
               PROVE  /\ tried[id][n] # <<>> => tried[id][n][1] = Drawn(id, SeedBytes * (n - 1))
                      /\ \A i \in 2 .. Len(tried[id][n]) :
                           LowBytes(tried[id][n][i]) = (LowBytes(tried[id][n][i - 1]) + 1) % 16777216
                      /\ \A i, j \in DOMAIN tried[id][n] : i # j => tried[id][n][i] # tried[id][n][j]
    BY SMT DEF SeedsAreFresh
  <2>1. Scanning(id, state[id], attempts[id], seed[id], tried[id])
    BY DEF ScanInv
  <2> QED
    BY <2>1, ScanningIsFresh, SMT
<1> QED
  BY <1>1, ScanInvariance, PTL

(* The first powers. *)
LEMMA PowerNext ==
  ASSUME NEW b \in Nat, NEW n \in Nat, NEW m, m = n + 1
  PROVE  Power(b, m) = b * Power(b, n)
  BY PowerOf

LEMMA FirstPowers ==
  /\ Power(58, 0) = 1 /\ Power(58, 1) = 58 /\ Power(58, 2) = 3364 /\ Power(58, 3) = 195112
  /\ Power(58, 5) = 656356768 /\ Power(58, 6) = 38068692544 /\ Power(58, 7) = 2207984167552
  /\ Power(58, 9) = 7427658739644928 /\ Power(58, 10) = 430804206899405824
  /\ Power(256, 0) = 1 /\ Power(256, 1) = 256 /\ Power(256, 2) = 65536 /\ Power(256, 3) = 16777216
  /\ Power(256, 4) = 4294967296 /\ Power(256, 5) = 1099511627776 /\ Power(256, 6) = 281474976710656
  /\ Power(256, 7) = 72057594037927936
<1>1. 58 \in Nat /\ 256 \in Nat
  OBVIOUS
<1>2. Power(58, 0) = 1 /\ Power(256, 0) = 1
  BY <1>1, PowerOf
<1>3. Power(58, 1) = 58
  BY <1>2, PowerNext, SMT
<1>4. Power(58, 2) = 3364
  BY <1>3, PowerNext, SMT
<1>5. Power(58, 3) = 195112
  BY <1>4, PowerNext, SMT
<1>6. Power(58, 4) = 11316496
  BY <1>5, PowerNext, SMT
<1>7. Power(58, 5) = 656356768
  BY <1>6, PowerNext, SMT
<1>8. Power(58, 6) = 38068692544
  BY <1>7, PowerNext, SMT
<1>9. Power(58, 7) = 2207984167552
  BY <1>8, PowerNext, SMT
<1>10. Power(58, 8) = 128063081718016
  BY <1>9, PowerNext, SMT
<1>11. Power(58, 9) = 7427658739644928
  BY <1>10, PowerNext, SMT
<1>12. Power(58, 10) = 430804206899405824
  BY <1>11, PowerNext, SMT
<1>13. Power(256, 1) = 256
  BY <1>2, PowerNext, SMT
<1>14. Power(256, 2) = 65536
  BY <1>13, PowerNext, SMT
<1>15. Power(256, 3) = 16777216
  BY <1>14, PowerNext, SMT
<1>16. Power(256, 4) = 4294967296
  BY <1>15, PowerNext, SMT
<1>17. Power(256, 5) = 1099511627776
  BY <1>16, PowerNext, SMT
<1>18. Power(256, 6) = 281474976710656
  BY <1>17, PowerNext, SMT
<1>19. Power(256, 7) = 72057594037927936
  BY <1>18, PowerNext, SMT
<1> QED
  BY <1>2, <1>3, <1>4, <1>5, <1>7, <1>8, <1>9, <1>11, <1>12, <1>13, <1>14, <1>15, <1>16, <1>17, <1>18, <1>19, SMT

(* Eight bytes take no more than eleven digits. *)
LEMMA EightMore ==
  ASSUME NEW n \in Nat, NEW s \in Nat, Power(256, n) <= Power(58, s)
  PROVE  Power(256, n + 8) <= Power(58, s + 11)
<1>1. 58 \in Nat /\ 256 \in Nat
  OBVIOUS
<1>2. PICK p \in Nat, q \in Nat : p = Power(256, n) /\ q = Power(58, s) /\ p <= q
  BY <1>1, PowerOf
<1>3. ASSUME NEW m \in Nat, NEW x \in Nat, x = Power(256, m)
      PROVE  Power(256, m + 4) = 4294967296 * x
  <2>1. m + 1 \in Nat /\ m + 2 \in Nat /\ m + 3 \in Nat /\ m + 2 = (m + 1) + 1 /\ m + 3 = (m + 2) + 1 /\ m + 4 = (m + 3) + 1
    OBVIOUS
  <2>2. Power(256, m + 1) = 256 * x
    BY <1>3, <1>1, PowerNext
  <2>3. Power(256, m + 2) = 256 * (256 * x)
    BY <1>1, <2>1, <2>2, PowerNext
  <2>4. Power(256, m + 3) = 256 * (256 * (256 * x))
    BY <1>1, <2>1, <2>3, PowerNext
  <2>5. Power(256, m + 4) = 256 * (256 * (256 * (256 * x)))
    BY <1>1, <2>1, <2>4, PowerNext
  <2> QED
    BY ONLY <2>5, x \in Nat, SMT
<1>4. ASSUME NEW m \in Nat, NEW x \in Nat, x = Power(58, m)
      PROVE  Power(58, m + 5) = 656356768 * x
  <2>1. /\ m + 1 \in Nat /\ m + 2 \in Nat /\ m + 3 \in Nat /\ m + 4 \in Nat
        /\ m + 2 = (m + 1) + 1 /\ m + 3 = (m + 2) + 1 /\ m + 4 = (m + 3) + 1 /\ m + 5 = (m + 4) + 1
    OBVIOUS
  <2>2. Power(58, m + 1) = 58 * x
    BY <1>4, <1>1, PowerNext
  <2>3. Power(58, m + 2) = 58 * (58 * x)
    BY <1>1, <2>1, <2>2, PowerNext
  <2>4. Power(58, m + 3) = 58 * (58 * (58 * x))
    BY <1>1, <2>1, <2>3, PowerNext
  <2>5. Power(58, m + 4) = 58 * (58 * (58 * (58 * x)))
    BY <1>1, <2>1, <2>4, PowerNext
  <2>6. Power(58, m + 5) = 58 * (58 * (58 * (58 * (58 * x))))
    BY <1>1, <2>1, <2>5, PowerNext
  <2> QED
    BY ONLY <2>6, x \in Nat, SMT
<1>5. Power(256, n + 8) = 4294967296 * (4294967296 * p)
  <2>1. PICK y \in Nat, m \in Nat : y = 4294967296 * p /\ m = n + 4 /\ m + 4 = n + 8
    BY SMT
  <2>2. y = Power(256, m)
    BY <1>2, <1>3, <2>1
  <2>3. Power(256, m + 4) = 4294967296 * y
    BY <1>3, <2>2
  <2> QED
    BY <2>1, <2>3
<1>6. Power(58, s + 11) = 58 * (656356768 * (656356768 * q))
  <2>1. PICK y \in Nat, z \in Nat, m \in Nat, o \in Nat :
          /\ y = 656356768 * q /\ z = 656356768 * y /\ m = s + 5 /\ m + 5 = s + 10 /\ o = m + 5 /\ o + 1 = s + 11
    BY SMT
  <2>2. y = Power(58, m)
    BY <1>2, <1>4, <2>1
  <2>3. z = Power(58, o)
    BY <1>4, <2>1, <2>2
  <2>4. Power(58, o + 1) = 58 * z
    BY <1>1, <2>3, PowerNext
  <2> QED
    BY <2>1, <2>4
<1>7. PICK u \in Nat, v \in Nat : u = 4294967296 * (4294967296 * p) /\ v = 58 * (656356768 * (656356768 * q)) /\ u <= v
  BY ONLY <1>2, p \in Nat, q \in Nat, SMT
<1> QED
  BY ONLY <1>5, <1>6, <1>7

(* Powers of 58 and 256. *)
LEMMA MorePowers ==
  /\ \A n \in Nat : Power(58, n) \in Nat /\ Power(256, n) \in Nat
  /\ \A n, m \in Nat : n <= m => Power(58, n) <= Power(58, m) /\ Power(256, n) <= Power(256, m)
<1>1. 58 \in Nat /\ 58 > 0 /\ 256 \in Nat /\ 256 > 0
  OBVIOUS
<1>2. \A n \in Nat : Power(58, n) \in Nat /\ Power(256, n) \in Nat
  BY <1>1, PowerOf
<1>3. ASSUME NEW n \in Nat, NEW m \in Nat, n <= m
      PROVE  Power(58, n) <= Power(58, m) /\ Power(256, n) <= Power(256, m)
  <2>1. PICK e \in Nat : m = n + e
    <3>1. m - n \in Nat /\ m = n + (m - n)
      BY <1>3
    <3> QED
      BY <3>1
  <2> QED
    BY <1>1, <2>1, PowerGrows
<1> QED
  BY <1>2, <1>3

(* The estimate of the digits that n bytes take is enough, ...             *)
Room58(n) == (n * 138) \div 100 + 1

LEMMA RoomIs ==
  ASSUME NEW n \in Nat
  PROVE  Room58(n) \in Nat /\ Room58(n) >= 1 /\ Room58(n) + 11 <= Room58(n + 8) /\ (n > 0 => Room58(n - 1) <= Room58(n) - 1)
  BY SMT DEF Room58

LEMMA RoomStarts ==
  \A k \in 0 .. 7 : Power(256, k) <= Power(58, Room58(k))
<1>1. /\ Room58(0) = 1 /\ Room58(1) = 2 /\ Room58(2) = 3 /\ Room58(3) = 5
      /\ Room58(4) = 6 /\ Room58(5) = 7 /\ Room58(6) = 9 /\ Room58(7) = 10
  BY SMT DEF Room58
<1>2. /\ Power(256, 0) <= Power(58, 1) /\ Power(256, 1) <= Power(58, 2) /\ Power(256, 2) <= Power(58, 3)
      /\ Power(256, 3) <= Power(58, 5) /\ Power(256, 4) <= Power(58, 6) /\ Power(256, 5) <= Power(58, 7)
      /\ Power(256, 6) <= Power(58, 9) /\ Power(256, 7) <= Power(58, 10)
  BY FirstPowers, SMT
<1>3. ASSUME NEW k \in 0 .. 7
      PROVE  k = 0 \/ k = 1 \/ k = 2 \/ k = 3 \/ k = 4 \/ k = 5 \/ k = 6 \/ k = 7
  OBVIOUS
<1> QED
  BY <1>1, <1>2, <1>3

LEMMA RoomEnough ==
  ASSUME NEW n \in Nat
  PROVE  Power(256, n) <= Power(58, Room58(n))
<1> DEFINE S == {m \in Nat : \A k \in 0 .. 7 : Power(256, 8 * m + k) <= Power(58, Room58(8 * m + k))}
<1>1. 0 \in S
  <2>1. ASSUME NEW k \in 0 .. 7
        PROVE  Power(256, 8 * 0 + k) <= Power(58, Room58(8 * 0 + k))
    <3>1. 8 * 0 + k = k
      OBVIOUS
    <3> QED
      BY <3>1, RoomStarts
  <2> QED
    BY <2>1
<1>2. ASSUME NEW m \in Nat, m \in S
      PROVE  m + 1 \in S
  <2> SUFFICES ASSUME NEW k \in 0 .. 7
               PROVE  Power(256, 8 * (m + 1) + k) <= Power(58, Room58(8 * (m + 1) + k))
    OBVIOUS
  <2>1. PICK l \in Nat : l = 8 * m + k /\ 8 * (m + 1) + k = l + 8
    OBVIOUS
  <2>2. PICK s \in Nat, t \in Nat : s = Room58(l) /\ t = Room58(l + 8) /\ s + 11 <= t
    <3>1. Room58(l) \in Nat /\ Room58(l + 8) \in Nat /\ Room58(l) + 11 <= Room58(l + 8)
      <4>1. l + 8 \in Nat
        OBVIOUS
      <4> QED
        BY <4>1, RoomIs
    <3> QED
      BY <3>1
  <2>3. Power(256, l) <= Power(58, s)
    BY <1>2, <2>1, <2>2
  <2>4. Power(256, l + 8) <= Power(58, s + 11)
    BY <2>3, EightMore
  <2>5. Power(58, s + 11) <= Power(58, t)
    BY <2>2, MorePowers
  <2>6. Power(256, l + 8) \in Nat /\ Power(58, s + 11) \in Nat /\ Power(58, t) \in Nat
    BY MorePowers
  <2>7. Power(256, l + 8) <= Power(58, t)
    BY ONLY <2>4, <2>5, <2>6
  <2> QED
    BY <2>1, <2>2, <2>7
<1> HIDE DEF S
<1>3. Nat \subseteq S
  BY <1>1, <1>2, Induction
<1>4. PICK m \in Nat, k \in 0 .. 7 : n = 8 * m + k
  <2>1. n \div 8 \in Nat /\ n % 8 \in 0 .. 7 /\ n = 8 * (n \div 8) + (n % 8)
    BY SMT
  <2> QED
    BY <2>1
<1>5. m \in S
  BY <1>3
<1> QED
  BY <1>4, <1>5 DEF S

(* ... and leaves a digit for the last of them. *)
LEMMA RoomToSpare ==
  ASSUME NEW n \in Nat, NEW i \in Nat, i < n
  PROVE  Power(256, i) <= Power(58, Room58(n) - 1)
<1>1. PICK m \in Nat : m = n - 1 /\ i <= m
  OBVIOUS
<1>2. PICK s \in Nat, t \in Nat : s = Room58(m) /\ t = Room58(n) - 1 /\ s <= t
  <2>1. Room58(n) \in Nat /\ Room58(n) >= 1 /\ Room58(n - 1) <= Room58(n) - 1
    BY RoomIs
  <2>2. Room58(m) \in Nat
    BY RoomIs
  <2> QED
    BY <1>1, <2>1, <2>2
<1>3. Power(256, m) <= Power(58, s)
  BY <1>2, RoomEnough
<1>4. Power(58, s) <= Power(58, t) /\ Power(256, i) <= Power(256, m)
  BY <1>1, <1>2, MorePowers
<1>5. Power(256, i) \in Nat /\ Power(256, m) \in Nat /\ Power(58, s) \in Nat /\ Power(58, t) \in Nat
  BY MorePowers
<1>6. Power(256, i) <= Power(58, t)
  BY ONLY <1>3, <1>4, <1>5
<1> QED
  BY <1>2, <1>6

LEMMA ZerosCounted ==
  ASSUME NEW n \in Nat, NEW b, DOMAIN b = 1 .. n, NEW f, Begins(b, n, f, 0)
  PROVE  zcount(b) = f
  BY BeginsCounts DEF zcount

LEMMA ZerosAre ==
  ASSUME NEW n \in Nat
  PROVE  Zeros(n) \in Seq({0}) /\ Len(Zeros(n)) = n /\ \A i \in 1 .. n : Zeros(n)[i] = 0
<1>1. PICK g : g = [k \in 1 .. n |-> 0]
  OBVIOUS
<1>2. g = [i \in 1 .. n |-> g[i]] /\ \A i \in 1 .. n : g[i] \in {0}
  BY <1>1
<1>3. g \o <<>> = g /\ g \in Seq({0}) /\ Len(g) = n
  BY <1>2, Tupled
<1>4. Zeros(n) = g \o <<>>
  BY <1>1 DEF Zeros
<1> QED
  BY <1>2, <1>3, <1>4

(* b58enc adds a byte.  From the digits old, of the values w, to r. *)
Digits(S) == {s \in Seq(Nat) : Len(s) = S /\ \A i \in 1 .. S : s[i] < 58}
Adding(e, old, w, S, h, r, k) ==
  /\ ~e[4] /\ e[3] = h /\ \A i \in 1 .. S - k : e[1][i] = old[i]
  /\ Reads(58, e[1], S - k, S, 256 * w[S - k] + e[2], r)
Added(e, S, h, r) ==
  /\ e[4] /\ e[3] <= h /\ \A i \in 1 .. e[3] + 1 : e[1][i] = 0
  /\ Reads(58, e[1], 0, S, 0, r)
AddStates(S) == {e \in DigitStates : e[1] \in Digits(S)}

(* The values of digits are numbers. *)
LEMMA LeadsNumbers ==
  ASSUME NEW b \in Nat, NEW s, NEW n \in Nat, \A i \in 1 .. n : s[i] \in Nat, NEW w, NEW r, Leads(w, b, s, 0, n, 0, r)
  PROVE  \A i \in 0 .. n : w[i] \in Nat
<1> DEFINE S == {i \in 0 .. n : w[i] \in Nat}
<1>1. 0 \in S
  BY DEF Leads
<1>2. \A k \in 1 .. n : k - 1 \in S => k \in S
  <2> SUFFICES ASSUME NEW k \in 1 .. n, w[k - 1] \in Nat
               PROVE  w[k] \in Nat
    OBVIOUS
  <2>1. w[k] = b * w[k - 1] + s[k]
    BY DEF Leads
  <2>2. PICK x \in Nat : x = b * w[k - 1]
    OBVIOUS
  <2>3. s[k] \in Nat
    OBVIOUS
  <2> QED
    BY <2>1, <2>2, <2>3
<1> HIDE DEF S
<1>3. 0 .. n \subseteq S
  BY <1>1, <1>2, InductionTo
<1> QED
  BY <1>3 DEF S

(* A digit of a sequence set. *)
LEMMA DigitSet ==
  ASSUME NEW S \in Nat, NEW b \in Digits(S), NEW i \in 1 .. S, NEW v \in Nat, v < 58
  PROVE  [b EXCEPT ![i] = v] \in Digits(S) /\ [b EXCEPT ![i] = v][i] = v
         /\ \A m \in 1 .. S : m # i => [b EXCEPT ![i] = v][m] = b[m]
<1>1. b \in Seq(Nat) /\ Len(b) = S /\ \A m \in 1 .. S : b[m] < 58
  BY DEF Digits
<1>2. PICK g : g = [b EXCEPT ![i] = v]
  OBVIOUS
<1>3. g \in Seq(Nat) /\ Len(g) = S /\ g[i] = v /\ \A m \in 1 .. S : m # i => g[m] = b[m]
  BY <1>1, <1>2
<1>4. \A m \in 1 .. S : g[m] < 58
  BY <1>1, <1>3
<1> QED
  BY <1>2, <1>3, <1>4 DEF Digits

(* One turn of the inner loop; ... *)
LEMMA DigitStepKeeps ==
  ASSUME NEW S \in Nat, NEW old \in Digits(S), NEW w, NEW x, Leads(w, 58, old, 0, S, 0, x),
         NEW h \in Nat, h < S, \A i \in 1 .. h + 1 : old[i] = 0, NEW r, NEW k \in 1 .. S,
         NEW e \in AddStates(S), Adding(e, old, w, S, h, r, k - 1) \/ Added(e, S, h, r)
  PROVE  DigitStep[e][S - k] \in AddStates(S)
         /\ (Adding(DigitStep[e][S - k], old, w, S, h, r, k) \/ Added(DigitStep[e][S - k], S, h, r))
<1>1. PICK b \in Digits(S), c \in Nat, g \in Nat, done \in BOOLEAN : e = <<b, c, g, done>>
  <2>1. e \in DigitStates /\ e[1] \in Digits(S)
    BY DEF AddStates
  <2> QED
    BY <2>1 DEF DigitStates
<1>2. PICK j \in Nat : j = S - k /\ j < S /\ j + 1 \in 1 .. S /\ S - (k - 1) = j + 1
  OBVIOUS
<1>3. e \in DigitStates /\ e[1] = b /\ e[2] = c /\ e[3] = g /\ e[4] = done
  BY <1>1 DEF AddStates
<1>4. DigitStep[e][j] =
        IF done THEN e
        ELSE IF ~(j > g \/ c # 0) THEN <<b, c, j, TRUE>>
        ELSE LET carry == c + 256 * b[j + 1] IN <<[b EXCEPT ![j + 1] = carry % 58], carry \div 58, g, FALSE>>
  BY <1>3 DEF DigitStep
<1>5. b \in Seq(Nat)
  BY DEF Digits
<1>6. CASE done
  <2>1. Added(e, S, h, r)
    BY <1>3, <1>6 DEF Adding
  <2> QED
    BY <1>2, <1>4, <1>6, <2>1
<1>7. ASSUME ~done
      PROVE  /\ g = h /\ \A i \in 1 .. j + 1 : b[i] = old[i]
             /\ Reads(58, b, j + 1, S, 256 * w[j + 1] + c, r)
  <2>1. Adding(e, old, w, S, h, r, k - 1)
    BY <1>3, <1>7 DEF Added
  <2> QED
    BY <1>2, <1>3, <2>1 DEF Adding
<1>8. /\ \A i \in 0 .. S : w[i] \in Nat
      /\ w[0] = 0 /\ \A i \in 1 .. S : w[i] = 58 * w[i - 1] + old[i]
  <2>1. \A i \in 1 .. S : old[i] \in Nat
    BY DEF Digits
  <2>2. \A i \in 0 .. S : w[i] \in Nat
    BY <2>1, LeadsNumbers
  <2> QED
    BY <2>2 DEF Leads
<1>9. CASE ~done /\ ~(j > g \/ c # 0)
  <2>1. PICK f : f = <<b, c, j, TRUE>>
    OBVIOUS
  <2>2. f \in DigitStates /\ f[1] = b /\ f[2] = c /\ f[3] = j /\ f[4] = TRUE
    BY <1>5, <2>1 DEF DigitStates
  <2>3. c = 0 /\ j <= h /\ j < S /\ \A i \in 1 .. j + 1 : old[i] = 0 /\ b[i] = 0
    BY <1>2, <1>7, <1>9
  <2>4. w[j + 1] = 0
    <3> DEFINE Z == {i \in 0 .. j + 1 : w[i] = 0}
    <3>1. 0 \in Z
      BY <1>8
    <3>2. \A i \in 1 .. j + 1 : i - 1 \in Z => i \in Z
      BY <1>2, <1>8, <2>3
    <3>3. j + 1 \in Nat
      OBVIOUS
    <3> HIDE DEF Z
    <3>4. 0 .. j + 1 \subseteq Z
      BY <3>1, <3>2, <3>3, InductionTo
    <3> QED
      BY <3>3, <3>4 DEF Z
  <2>5. Reads(58, b, j + 1, S, 0, r)
    <3>1. 256 * w[j + 1] + c = 0
      BY <2>3, <2>4
    <3> QED
      BY <1>7, <1>9, <3>1
  <2>6. Reads(58, b, 0, S, 0, r)
    <3>1. j + 1 \in Nat /\ j + 1 <= S /\ \A i \in 1 .. j + 1 : b[i] = 0
      BY <1>2, <2>3
    <3> QED
      BY <2>5, <3>1, ReadsZeros
  <2>7. Added(f, S, h, r)
    BY <2>2, <2>3, <2>6 DEF Added
  <2>8. f \in AddStates(S)
    BY <2>2 DEF AddStates
  <2>9. DigitStep[e][S - k] = f
    BY <1>2, <1>4, <1>9, <2>1
  <2> QED
    BY <2>7, <2>8, <2>9
<1>10. CASE ~done /\ (j > g \/ c # 0)
  <2>1. b[j + 1] \in Nat /\ b[j + 1] = old[j + 1]
    BY <1>2, <1>5, <1>7, <1>10 DEF Digits
  <2>2. PICK carry \in Nat : carry = c + 256 * b[j + 1]
    BY <2>1
  <2>3. PICK v \in Nat, q \in Nat : v = carry % 58 /\ q = carry \div 58 /\ v < 58 /\ carry = 58 * q + v
    <3>1. carry % 58 \in Nat /\ carry \div 58 \in Nat /\ carry % 58 < 58 /\ carry = 58 * (carry \div 58) + (carry % 58)
      OBVIOUS
    <3> QED
      BY <3>1
  <2>4. PICK t : t = [b EXCEPT ![j + 1] = v]
    OBVIOUS
  <2>5. t \in Digits(S) /\ t[j + 1] = v /\ \A m \in 1 .. S : m # j + 1 => t[m] = b[m]
    <3>1. PICK i \in 1 .. S : i = j + 1
      BY <1>2
    <3>2. [b EXCEPT ![i] = v] \in Digits(S) /\ [b EXCEPT ![i] = v][i] = v
          /\ \A m \in 1 .. S : m # i => [b EXCEPT ![i] = v][m] = b[m]
      BY <2>3, DigitSet
    <3> QED
      BY <2>4, <3>1, <3>2
  <2>6. PICK f : f = <<t, q, g, FALSE>>
    OBVIOUS
  <2>7. f \in DigitStates /\ f[1] = t /\ f[2] = q /\ f[3] = g /\ f[4] = FALSE
    <3>1. t \in Seq(Nat)
      BY <2>5 DEF Digits
    <3> QED
      BY <2>6, <3>1 DEF DigitStates
  <2>8. DigitStep[e][S - k] = f
    BY <1>2, <1>4, <1>10, <2>2, <2>3, <2>4, <2>6
  <2>9. Reads(58, t, j, S, 256 * w[j] + q, r)
    <3>1. Reads(58, t, j + 1, S, 256 * w[j + 1] + c, r)
      <4>1. \A i \in (j + 1) + 1 .. S : b[i] = t[i]
        BY <1>2, <2>5
      <4> QED
        BY <1>7, <1>10, <4>1, ReadsSame
    <3>2. w[j] \in Nat /\ w[j + 1] = 58 * w[j] + old[j + 1]
      <4>1. j \in 0 .. S /\ j + 1 \in 1 .. S /\ (j + 1) - 1 = j
        BY <1>2
      <4> QED
        BY <1>8, <4>1
    <3>3. 256 * w[j + 1] + c = 58 * (256 * w[j] + q) + t[j + 1]
      <4>1. PICK y \in Nat, z \in Nat : y = w[j] /\ z = old[j + 1]
        BY <2>1, <3>2
      <4>2. c \in Nat /\ q \in Nat /\ v \in Nat /\ c + 256 * z = 58 * q + v
        BY <2>1, <2>2, <2>3, <4>1
      <4>3. w[j + 1] = 58 * y + z
        BY <3>2, <4>1
      <4>4. 256 * (58 * y + z) + c = 58 * (256 * y + q) + v
        BY ONLY <4>2, y \in Nat, z \in Nat
      <4> QED
        BY <2>5, <4>1, <4>3, <4>4
    <3> QED
      BY <1>2, <3>1, <3>3, ReadsFront
  <2>10. \A i \in 1 .. j : t[i] = old[i]
    BY <1>2, <1>7, <1>10, <2>5
  <2>11. Adding(f, old, w, S, h, r, k)
    BY <1>2, <1>7, <1>10, <2>7, <2>9, <2>10 DEF Adding
  <2>12. f \in AddStates(S)
    BY <2>5, <2>7 DEF AddStates
  <2> QED
    BY <2>8, <2>11, <2>12
<1> QED
  BY <1>6, <1>9, <1>10

(* ... and all its turns, for which the room is enough. *)
Written(S, b, h, x) ==
  /\ b \in Digits(S) /\ h \in Nat /\ h < S /\ Reads(58, b, 0, S, 0, x)
FreeAbove(b, h) == \A i \in 1 .. h + 1 : b[i] = 0

LEMMA AddByteAdds ==
  ASSUME NEW S \in Nat, NEW old, NEW h, NEW x \in Nat, Written(S, old, h, x), FreeAbove(old, h),
         NEW byte \in Nat, NEW r \in Nat, r = 256 * x + byte, r < Power(58, S)
  PROVE  \E b, g : AddByte[<<old, h>>][byte] = <<b, g>> /\ Written(S, b, g, r)
                   /\ (r < Power(58, S - 1) => FreeAbove(b, g))
<1>1. old \in Digits(S) /\ h \in Nat /\ h < S /\ Reads(58, old, 0, S, 0, x) /\ \A i \in 1 .. h + 1 : old[i] = 0
  BY DEF Written, FreeAbove
<1>2. PICK w : Leads(w, 58, old, 0, S, 0, x)
  BY <1>1 DEF Reads
<1>3. old \in Seq(Nat) /\ Len(old) = S
  BY <1>1 DEF Digits
<1>4. PICK first : first = <<old, byte, h, FALSE>>
  OBVIOUS
<1>5. first \in DigitStates /\ first[1] = old /\ first[2] = byte /\ first[3] = h /\ first[4] = FALSE
  BY <1>1, <1>3, <1>4 DEF DigitStates
<1>6. PICK turns : turns = [k \in 1 .. S |-> S - k]
  OBVIOUS
<1>7. turns \in Seq(Nat) /\ Len(turns) = S /\ \A k \in 1 .. S : turns[k] = S - k
  BY <1>6
<1>8. PICK end : end = Along(DigitStep, first, turns)
  OBVIOUS
<1> DEFINE J == [k \in 0 .. S |-> {e \in AddStates(S) : Adding(e, old, w, S, h, r, k) \/ Added(e, S, h, r)}]
<1>9. \A k \in 0 .. S : J[k] = {e \in AddStates(S) : Adding(e, old, w, S, h, r, k) \/ Added(e, S, h, r)}
  OBVIOUS
<1> HIDE DEF J
<1>10. first \in J[0]
  <2>1. w[S] = x
    BY <1>2 DEF Leads
  <2>2. S - 0 = S /\ 0 \in 0 .. S /\ Reads(58, old, S, S, r, r)
    BY ReadsNothing
  <2>3. Adding(first, old, w, S, h, r, 0)
    BY <1>5, <2>1, <2>2 DEF Adding
  <2>4. first \in AddStates(S)
    BY <1>1, <1>5 DEF AddStates
  <2> QED
    BY <1>9, <2>2, <2>3, <2>4
<1>11. \A k \in 1 .. Len(turns) : \A e \in J[k - 1] : DigitStep[e][turns[k]] \in J[k]
  <2> SUFFICES ASSUME NEW k \in 1 .. S, NEW e \in J[k - 1]
               PROVE  DigitStep[e][S - k] \in J[k]
    BY <1>7
  <2>1. k - 1 \in 0 .. S /\ k \in 0 .. S
    OBVIOUS
  <2>2. e \in AddStates(S) /\ (Adding(e, old, w, S, h, r, k - 1) \/ Added(e, S, h, r))
    BY <1>9, <2>1
  <2>3. old \in Digits(S) /\ h \in Nat /\ h < S /\ (\A i \in 1 .. h + 1 : old[i] = 0) /\ Leads(w, 58, old, 0, S, 0, x)
    BY <1>1, <1>2
  <2>4. DigitStep[e][S - k] \in AddStates(S)
        /\ (Adding(DigitStep[e][S - k], old, w, S, h, r, k) \/ Added(DigitStep[e][S - k], S, h, r))
    BY <2>2, <2>3, DigitStepKeeps, SMTT(30)
  <2> QED
    BY <1>9, <2>1, <2>4
<1>12. end \in J[S]
  BY <1>7, <1>8, <1>10, <1>11, AlongInvariant
<1>13. end \in AddStates(S) /\ (Adding(end, old, w, S, h, r, S) \/ Added(end, S, h, r))
  <2>1. S \in 0 .. S
    OBVIOUS
  <2> QED
    BY <1>9, <1>12, <2>1
<1>14. PICK b \in Digits(S), c \in Nat, g \in Nat, done \in BOOLEAN : end = <<b, c, g, done>>
  <2>1. end \in DigitStates /\ end[1] \in Digits(S)
    BY <1>13 DEF AddStates
  <2> QED
    BY <2>1 DEF DigitStates
<1>15. end[1] = b /\ end[2] = c /\ end[3] = g /\ end[4] = done
  BY <1>14
<1>16. AddByte[<<old, h>>][byte] = <<b, IF done THEN g ELSE 0>>
  <2>1. PICK e : e = <<old, h>>
    OBVIOUS
  <2>2. e \in Seq(Nat) \X Int /\ e[1] = old /\ e[2] = h
    BY <1>1, <1>3, <2>1
  <2>3. AddByte[e][byte] = <<end[1], IF end[4] THEN end[3] ELSE 0>>
    BY <1>3, <1>4, <1>6, <1>8, <2>2 DEF AddByte
  <2> QED
    BY <1>15, <2>1, <2>3
<1>17. CASE done
  <2>1. g <= h /\ FreeAbove(b, g) /\ Reads(58, b, 0, S, 0, r)
    BY <1>13, <1>15, <1>17 DEF Added, Adding, FreeAbove
  <2>2. Written(S, b, g, r)
    BY <1>1, <2>1 DEF Written
  <2> QED
    BY <1>16, <1>17, <2>1, <2>2
<1>18. CASE ~done
  <2>1. Reads(58, b, S - S, S, 256 * w[S - S] + c, r)
    BY <1>13, <1>15, <1>18 DEF Added, Adding
  <2>2. S - S = 0 /\ w[0] = 0 /\ 256 * 0 + c = c
    BY <1>2 DEF Leads
  <2>3. Reads(58, b, 0, S, c, r)
    BY <2>1, <2>2
  <2>4. b \in Seq(Nat) /\ Len(b) = S
    BY DEF Digits
  <2>5. \A i \in 1 .. S : b[i] \in Nat
    BY <2>4
  <2>6. c = 0
    <3>1. ASSUME c > 0
          PROVE  r >= Power(58, S)
      <4>1. 0 + S = S /\ 0 + 1 = 1
        OBVIOUS
      <4> QED
        BY <2>3, <2>5, <3>1, <4>1, ReadsAbove
    <3>2. Power(58, S) \in Nat
      BY MorePowers
    <3> QED
      BY <3>1, <3>2
  <2>7. Written(S, b, 0, r)
    BY <1>1, <2>3, <2>6 DEF Written
  <2>8. r < Power(58, S - 1) => FreeAbove(b, 0)
    <3>1. S - 1 \in Nat /\ 1 + (S - 1) = S /\ 0 < S /\ 0 + 1 = 1
      BY <1>1
    <3>2. Reads(58, b, 1, S, 58 * 0 + b[1], r)
      BY <2>3, <2>6, <3>1, ReadsOn
    <3>3. b[1] \in Nat /\ 58 * 0 + b[1] = b[1]
      BY <2>5, <3>1
    <3>4. ASSUME b[1] > 0
          PROVE  r >= Power(58, S - 1)
      <4>1. PICK m \in Nat : m = S - 1
        BY <3>1
      <4>2. \A i \in 1 + 1 .. 1 + m : b[i] \in Nat
        BY <2>5, <4>1
      <4>3. Reads(58, b, 1, 1 + m, b[1], r)
        BY <3>1, <3>2, <3>3, <4>1
      <4>4. r >= Power(58, m)
        BY <3>3, <3>4, <4>2, <4>3, ReadsAbove
      <4> QED
        BY <4>1, <4>4
    <3>5. Power(58, S - 1) \in Nat
      BY <3>1, MorePowers
    <3>6. r < Power(58, S - 1) => b[1] = 0
      BY <3>3, <3>4, <3>5
    <3> QED
      BY <3>1, <3>6 DEF FreeAbove
  <2> QED
    BY <1>16, <1>18, <2>7, <2>8
<1> QED
  BY <1>17, <1>18

LEMMA ByteIs ==
  ASSUME NEW s \in Seq(Byte)
  PROVE  s \in Seq(Nat) /\ \A i \in 1 .. Len(s) : s[i] \in Nat /\ s[i] < 256
<1>1. \A v \in Byte : v \in Nat /\ v < 256
  BY DEF Byte
<1> QED
  BY <1>1

(* b58enc adds the bytes behind the zeros one after the other, ...         *)
LEMMA BytesAdded ==
  ASSUME NEW rest \in Seq(Byte), NEW S, S = Room58(Len(rest))
  PROVE  \E b, h : \E x \in Nat :
           /\ Along(AddByte, <<Zeros(S), S - 1>>, rest) = <<b, h>> /\ Written(S, b, h, x)
           /\ Reads(256, rest, 0, Len(rest), 0, x)
<1>1. PICK n \in Nat : n = Len(rest)
  OBVIOUS
<1>2. S \in Nat /\ S >= 1
  BY <1>1, RoomIs
<1>3. rest \in Seq(Nat) /\ \A i \in 1 .. n : rest[i] \in Nat /\ rest[i] < 256
  BY <1>1, ByteIs
<1> DEFINE Holds(e, k) ==
  \E b, h : \E x \in Nat : e = <<b, h>> /\ Written(S, b, h, x) /\ (k < n => FreeAbove(b, h)) /\ Reads(256, rest, 0, k, 0, x)
<1> DEFINE D == Digits(S) \X Nat
<1> DEFINE J == [k \in 0 .. n |-> {e \in D : Holds(e, k)}]
<1>4. \A k \in 0 .. n : J[k] = {e \in D : Holds(e, k)}
  OBVIOUS
<1>5. PICK first : first = <<Zeros(S), S - 1>>
  OBVIOUS
<1>6. first \in D /\ Holds(first, 0)
  <2>1. Zeros(S) \in Seq(Nat) /\ Len(Zeros(S)) = S /\ \A i \in 1 .. S : Zeros(S)[i] = 0
    <3>1. Zeros(S) \in Seq({0}) /\ Len(Zeros(S)) = S /\ \A i \in 1 .. S : Zeros(S)[i] = 0
      BY <1>2, ZerosAre
    <3> QED
      BY <3>1
  <2>2. PICK z : z = Zeros(S)
    OBVIOUS
  <2>3. z \in Digits(S)
    BY <2>1, <2>2 DEF Digits
  <2>4. Reads(58, z, S, S, 0, 0)
    BY <1>2, ReadsNothing
  <2>5. Reads(58, z, 0, S, 0, 0)
    BY <1>2, <2>1, <2>2, <2>4, ReadsZeros
  <2>6. S - 1 \in Nat /\ S - 1 < S /\ (S - 1) + 1 = S
    BY <1>2
  <2>7. Written(S, z, S - 1, 0) /\ FreeAbove(z, S - 1)
    BY <2>1, <2>2, <2>3, <2>5, <2>6 DEF Written, FreeAbove
  <2>8. Reads(256, rest, 0, 0, 0, 0)
    BY ReadsNothing
  <2> QED
    BY <1>5, <2>2, <2>3, <2>6, <2>7, <2>8
<1>7. ASSUME NEW k \in 1 .. n, NEW e \in D, Holds(e, k - 1)
      PROVE  AddByte[e][rest[k]] \in D /\ Holds(AddByte[e][rest[k]], k)
  <2>1. PICK b, h : \E x \in Nat : e = <<b, h>> /\ Written(S, b, h, x) /\ FreeAbove(b, h) /\ Reads(256, rest, 0, k - 1, 0, x)
    <3>1. k - 1 < n
      OBVIOUS
    <3> QED
      BY <1>7, <3>1
  <2>2. PICK x \in Nat : e = <<b, h>> /\ Written(S, b, h, x) /\ FreeAbove(b, h) /\ Reads(256, rest, 0, k - 1, 0, x)
    BY <2>1
  <2>3. k \in Nat /\ k <= n
    OBVIOUS
  <2>4. PICK byte \in Nat : byte = rest[k]
    BY <1>3
  <2>5. PICK r \in Nat : r = 256 * x + byte
    OBVIOUS
  <2>6. Reads(256, rest, 0, k, 0, r)
    <3>1. PICK j \in Nat : j = k - 1 /\ 0 <= j /\ j + 1 = k
      OBVIOUS
    <3>2. Reads(256, rest, 0, j + 1, 0, 256 * x + rest[j + 1])
      BY <2>2, <3>1, ReadsLast
    <3> QED
      BY <2>4, <2>5, <3>1, <3>2
  <2>7. r < Power(256, k)
    <3>1. \A i \in 1 .. k : rest[i] \in Nat /\ rest[i] < 256
      BY <1>3
    <3>2. PICK c \in Nat : c = 256 /\ c > 0
      OBVIOUS
    <3>3. Reads(c, rest, 0, k, 0, r) /\ \A i \in 1 .. k : rest[i] \in Nat /\ rest[i] < c
      BY <2>6, <3>1, <3>2
    <3>4. r < Power(c, k)
      BY <2>3, <3>2, <3>3, ReadsBelow
    <3> QED
      BY <3>2, <3>4
  <2>8. r < Power(58, S)
    <3>1. Power(256, k) <= Power(256, n) /\ Power(256, n) <= Power(58, S)
      BY <1>1, <2>3, MorePowers, RoomEnough
    <3>2. Power(256, k) \in Nat /\ Power(256, n) \in Nat /\ Power(58, S) \in Nat
      BY <1>2, <2>3, MorePowers
    <3> QED
      BY <2>7, <3>1, <3>2
  <2>9. k < n => r < Power(58, S - 1)
    <3>1. k < n => Power(256, k) <= Power(58, S - 1)
      BY <1>1, <2>3, RoomToSpare
    <3>2. Power(256, k) \in Nat /\ Power(58, S - 1) \in Nat
      <4>1. S - 1 \in Nat
        BY <1>2
      <4> QED
        BY <2>3, <4>1, MorePowers
    <3> QED
      BY <2>7, <3>1, <3>2
  <2>10. PICK t, g : AddByte[<<b, h>>][byte] = <<t, g>> /\ Written(S, t, g, r) /\ (r < Power(58, S - 1) => FreeAbove(t, g))
    BY <1>2, <2>2, <2>5, <2>8, AddByteAdds
  <2>11. <<t, g>> \in D
    BY <2>10 DEF Written
  <2> QED
    BY <2>2, <2>4, <2>6, <2>9, <2>10, <2>11
<1> HIDE DEF D, Holds, J
<1>8. first \in J[0]
  <2>1. 0 \in 0 .. n
    OBVIOUS
  <2> QED
    BY <1>4, <1>6, <2>1
<1>9. \A k \in 1 .. Len(rest) : \A e \in J[k - 1] : AddByte[e][rest[k]] \in J[k]
  <2> SUFFICES ASSUME NEW k \in 1 .. n, NEW e \in J[k - 1]
               PROVE  AddByte[e][rest[k]] \in J[k]
    BY <1>1
  <2>1. k - 1 \in 0 .. n /\ k \in 0 .. n
    OBVIOUS
  <2>2. e \in D /\ Holds(e, k - 1)
    BY <1>4, <2>1
  <2> QED
    BY <1>4, <1>7, <2>1, <2>2
<1>10. Along(AddByte, first, rest) \in J[n]
  BY <1>1, <1>8, <1>9, AlongInvariant
<1>11. Holds(Along(AddByte, first, rest), n)
  <2>1. n \in 0 .. n
    OBVIOUS
  <2> QED
    BY <1>4, <1>10, <2>1
<1> QED
  BY <1>1, <1>5, <1>11 DEF Holds

(* Zeros in front of a number can be left out. *)
LEMMA ReadsOffZeros ==
  ASSUME NEW b \in Nat, NEW s, NEW n \in Nat, NEW r, Reads(b, s, 0, n, 0, r)
  PROVE  \A j \in Nat : (j <= n /\ \A i \in 1 .. j : s[i] = 0) => Reads(b, s, j, n, 0, r)
<1> DEFINE S == {j \in Nat : (j <= n /\ \A i \in 1 .. j : s[i] = 0) => Reads(b, s, j, n, 0, r)}
<1>1. 0 \in S
  OBVIOUS
<1>2. ASSUME NEW j \in Nat, j \in S
      PROVE  j + 1 \in S
  <2> SUFFICES ASSUME j + 1 <= n, \A i \in 1 .. j + 1 : s[i] = 0
               PROVE  Reads(b, s, j + 1, n, 0, r)
    OBVIOUS
  <2>1. s[j + 1] = 0 /\ b * 0 = 0 /\ j < n /\ j <= n /\ \A i \in 1 .. j : s[i] = 0
    OBVIOUS
  <2>2. Reads(b, s, j, n, 0, r)
    BY <1>2, <2>1
  <2>3. Reads(b, s, j + 1, n, b * 0 + s[j + 1], r)
    BY <2>1, <2>2, ReadsOn
  <2> QED
    BY <2>1, <2>3
<1> HIDE DEF S
<1>3. Nat \subseteq S
  BY <1>1, <1>2, Induction
<1> QED
  BY <1>3 DEF S

(* A sequence in two parts: f zeros, and one that does not begin with any. *)
Bare(s, b) == s \in Seq(Nat) /\ (\A i \in 1 .. Len(s) : s[i] < b) /\ (Len(s) > 0 => s[1] # 0)

LEMMA ZerosOff ==
  ASSUME NEW b \in Nat, NEW s \in Seq(Nat), \A i \in 1 .. Len(s) : s[i] < b
  PROVE  \E f \in 0 .. Len(s) : \E t : /\ zcount(s) = f /\ t = SubSeq(s, f + 1, Len(s)) /\ Bare(t, b)
                                       /\ s = Zeros(f) \o t /\ Len(t) = Len(s) - f
                                       /\ \A x : Reads(b, s, 0, Len(s), 0, x) => Reads(b, t, 0, Len(t), 0, x)
<1>1. PICK n \in Nat : n = Len(s)
  OBVIOUS
<1>2. PICK f \in 0 .. n : Begins(s, n, f, 0)
  BY <1>1, SomeBegin
<1>3. zcount(s) = f
  BY <1>1, <1>2, ZerosCounted
<1>4. PICK t : t = SubSeq(s, f + 1, n)
  OBVIOUS
<1>5. t \in Seq(Nat) /\ Len(t) = n - f /\ \A i \in 1 .. n - f : t[i] = s[f + i]
  BY <1>1, <1>2, <1>4
<1>6. f \in Nat /\ f <= n /\ (\A m \in 1 .. f : s[m] = 0) /\ (f < n => s[f + 1] # 0)
  BY <1>2 DEF Begins
<1>7. Bare(t, b)
  <2>1. \A i \in 1 .. n - f : f + i \in 1 .. n
    BY <1>6
  <2>2. n - f > 0 => t[1] = s[f + 1]
    BY <1>5, <1>6
  <2> QED
    BY <1>1, <1>5, <1>6, <2>1, <2>2 DEF Bare
<1>8. s = Zeros(f) \o t
  <2>1. PICK z : z = Zeros(f)
    OBVIOUS
  <2>2. z \in Seq({0}) /\ Len(z) = f /\ \A i \in 1 .. f : z[i] = 0
    BY <1>6, <2>1, ZerosAre
  <2>3. z \in Seq(Nat)
    BY <2>2
  <2>4. z \o t \in Seq(Nat) /\ Len(z \o t) = n
        /\ \A i \in 1 .. n : (z \o t)[i] = IF i <= f THEN z[i] ELSE t[i - f]
    <3>1. z \o t \in Seq(Nat) /\ Len(z \o t) = Len(z) + Len(t)
          /\ \A i \in 1 .. Len(z) + Len(t) : (z \o t)[i] = IF i <= Len(z) THEN z[i] ELSE t[i - Len(z)]
      BY <1>5, <2>3, ConcatProperties
    <3>2. Len(z) + Len(t) = n
      BY <1>5, <1>6, <2>2
    <3> QED
      BY <2>2, <3>1, <3>2
  <2>5. \A i \in 1 .. n : (z \o t)[i] = s[i]
    <3> SUFFICES ASSUME NEW i \in 1 .. n
                 PROVE  (z \o t)[i] = s[i]
      OBVIOUS
    <3>1. CASE i <= f
      BY <1>6, <2>2, <2>4, <3>1
    <3>2. CASE i > f
      <4>1. i - f \in 1 .. n - f /\ f + (i - f) = i
        BY <1>6, <3>2
      <4> QED
        BY <1>5, <2>4, <3>2, <4>1
    <3>3. i <= f \/ i > f
      BY <1>6
    <3> QED
      BY <3>1, <3>2, <3>3
  <2>6. PICK u \in Seq(Nat) : u = z \o t /\ Len(u) = n /\ \A i \in 1 .. n : u[i] = s[i]
    BY <2>4, <2>5
  <2>7. u = s
    BY <1>1, <2>6, SeqEqual
  <2> QED
    BY <2>1, <2>6, <2>7
<1>9. ASSUME NEW x, Reads(b, s, 0, n, 0, x)
      PROVE  Reads(b, t, 0, n - f, 0, x)
  <2>1. Reads(b, s, f, n, 0, x)
    BY <1>6, <1>9, ReadsOffZeros
  <2>2. PICK z \in Int : z = 0 - f
    BY <1>6
  <2>3. z + f = 0 /\ z + n = n - f /\ f \in Nat
    BY <1>6, <2>2
  <2>4. \A i \in f + 1 .. n : t[z + i] = s[i]
    <3> SUFFICES ASSUME NEW i \in f + 1 .. n
                 PROVE  t[z + i] = s[i]
      OBVIOUS
    <3>1. PICK m \in 1 .. n - f : m = i - f /\ m = z + i /\ f + m = i
      BY <1>6, <2>2
    <3> QED
      BY <1>5, <3>1
  <2>5. Reads(b, t, z + f, z + n, 0, x)
    <3>1. z + f \in Nat
      BY <2>3
    <3> QED
      BY <1>6, <2>1, <2>3, <2>4, <3>1, ReadsMoved
  <2> QED
    BY <2>3, <2>5
<1> QED
  BY <1>1, <1>2, <1>3, <1>4, <1>5, <1>7, <1>8, <1>9

(* ... and leaves out the zeros of the room it did not need. *)
Same58(rest, t, x) ==
  /\ rest \in Seq(Byte) /\ Bare(rest, 256) /\ Reads(256, rest, 0, Len(rest), 0, x)
  /\ Bare(t, 58) /\ Reads(58, t, 0, Len(t), 0, x)

LEMMA EncodedIs ==
  ASSUME NEW bin \in Seq(Byte)
  PROVE  \E f \in Nat : \E rest, t, x : /\ bin = Zeros(f) \o rest /\ b58enc[bin] = Zeros(f) \o t
                                                   /\ Same58(rest, t, x)
<1>1. bin \in Seq(Nat) /\ Len(bin) \in Nat /\ \A i \in 1 .. Len(bin) : bin[i] < 256
  BY ByteIs
<1>2. PICK f \in 0 .. Len(bin) : \E rest :
        /\ zcount(bin) = f /\ rest = SubSeq(bin, f + 1, Len(bin)) /\ Bare(rest, 256)
        /\ bin = Zeros(f) \o rest /\ Len(rest) = Len(bin) - f
  <2>1. PICK c \in Nat : c = 256
    OBVIOUS
  <2>2. \A i \in 1 .. Len(bin) : bin[i] < c
    BY <1>1, <2>1
  <2>3. \E f \in 0 .. Len(bin) : \E t : /\ zcount(bin) = f /\ t = SubSeq(bin, f + 1, Len(bin)) /\ Bare(t, c)
                                        /\ bin = Zeros(f) \o t /\ Len(t) = Len(bin) - f
    <3>1. PICK f \in 0 .. Len(bin) : \E t :
            /\ zcount(bin) = f /\ t = SubSeq(bin, f + 1, Len(bin)) /\ Bare(t, c)
            /\ bin = Zeros(f) \o t /\ Len(t) = Len(bin) - f
            /\ \A x : Reads(c, bin, 0, Len(bin), 0, x) => Reads(c, t, 0, Len(t), 0, x)
      BY <1>1, <2>2, ZerosOff
    <3> QED
      BY <3>1
  <2> QED
    BY <2>1, <2>3
<1>3. PICK rest :
        /\ zcount(bin) = f /\ rest = SubSeq(bin, f + 1, Len(bin)) /\ Bare(rest, 256)
        /\ bin = Zeros(f) \o rest /\ Len(rest) = Len(bin) - f
  BY <1>2
<1>4. rest \in Seq(Byte) /\ f \in Nat
  <2>1. f + 1 \in 1 .. Len(bin) + 1 /\ f \in Nat
    BY <1>1
  <2> QED
    BY <1>3, <2>1, SubSeqProperties
<1>5. PICK S \in Nat : S = Room58(Len(rest))
  BY <1>4, RoomIs
<1>6. PICK b, h : \E x \in Nat :
           /\ Along(AddByte, <<Zeros(S), S - 1>>, rest) = <<b, h>> /\ Written(S, b, h, x)
           /\ Reads(256, rest, 0, Len(rest), 0, x)
  BY <1>4, <1>5, BytesAdded
<1>7. PICK x \in Nat :
           /\ Along(AddByte, <<Zeros(S), S - 1>>, rest) = <<b, h>> /\ Written(S, b, h, x)
           /\ Reads(256, rest, 0, Len(rest), 0, x)
  BY <1>6
<1>8. b \in Seq(Nat) /\ Len(b) = S /\ (\A i \in 1 .. S : b[i] < 58) /\ Reads(58, b, 0, S, 0, x)
  BY <1>7 DEF Written, Digits
<1>9. PICK g \in 0 .. S : \E t :
        /\ zcount(b) = g /\ t = SubSeq(b, g + 1, S) /\ Bare(t, 58) /\ Reads(58, t, 0, Len(t), 0, x)
  <2>1. PICK c \in Nat : c = 58
    OBVIOUS
  <2>2. (\A i \in 1 .. Len(b) : b[i] < c) /\ Reads(c, b, 0, Len(b), 0, x)
    BY <1>8, <2>1
  <2>3. \E g \in 0 .. Len(b) : \E t : /\ zcount(b) = g /\ t = SubSeq(b, g + 1, Len(b)) /\ Bare(t, c)
                                      /\ Reads(c, t, 0, Len(t), 0, x)
    <3>1. PICK g \in 0 .. Len(b) : \E t :
                                      /\ zcount(b) = g /\ t = SubSeq(b, g + 1, Len(b)) /\ Bare(t, c)
                                      /\ \A y : Reads(c, b, 0, Len(b), 0, y) => Reads(c, t, 0, Len(t), 0, y)
      BY <1>8, <2>2, ZerosOff
    <3> QED
      BY <2>2, <3>1
  <2> QED
    BY <1>8, <2>1, <2>3
<1>10. PICK t :
        /\ zcount(b) = g /\ t = SubSeq(b, g + 1, S) /\ Bare(t, 58) /\ Reads(58, t, 0, Len(t), 0, x)
  BY <1>9
<1>11. size(bin) = S
  <2>1. size(bin) = ((Len(bin) - f) * 138) \div 100 + 1
    BY <1>2, <1>3 DEF size
  <2> QED
    BY <1>2, <1>3, <1>5, <2>1 DEF Room58
<1>12. b58enc[bin] = Zeros(f) \o t
  <2>1. PICK e : e = Along(AddByte, <<Zeros(S), S - 1>>, rest)
    OBVIOUS
  <2>2. e[1] = b
    BY <1>7, <2>1
  <2>3. b58enc[bin] = LET buf == Along(AddByte, <<Zeros(size(bin)), size(bin) - 1>>, SubSeq(bin, zcount(bin) + 1, Len(bin)))[1]
                      IN Zeros(zcount(bin)) \o SubSeq(buf, zcount(buf) + 1, Len(buf))
    BY <1>1 DEF b58enc
  <2>4. b58enc[bin] = LET buf == e[1] IN Zeros(f) \o SubSeq(buf, zcount(buf) + 1, Len(buf))
    BY <1>2, <1>3, <1>11, <2>1, <2>3
  <2> QED
    BY <1>8, <1>10, <2>2, <2>4
<1>13. Same58(rest, t, x)
  BY <1>2, <1>3, <1>4, <1>7, <1>10 DEF Same58
<1> QED
  BY <1>2, <1>3, <1>4, <1>12, <1>13

(* The zeros in front are told from what comes behind them. *)
LEMMA ZerosAgain ==
  ASSUME NEW f \in Nat, NEW t, NEW b, Bare(t, b)
  PROVE  /\ Zeros(f) \o t \in Seq(Nat) /\ zcount(Zeros(f) \o t) = f
         /\ SubSeq(Zeros(f) \o t, f + 1, Len(Zeros(f) \o t)) = t
<1>1. t \in Seq(Nat) /\ (Len(t) > 0 => t[1] # 0)
  BY DEF Bare
<1>2. PICK z : z = Zeros(f)
  OBVIOUS
<1>3. z \in Seq(Nat) /\ Len(z) = f /\ \A i \in 1 .. f : z[i] = 0
  <2>1. z \in Seq({0}) /\ Len(z) = f /\ \A i \in 1 .. f : z[i] = 0
    BY <1>2, ZerosAre
  <2> QED
    BY <2>1
<1>4. PICK u : u = z \o t
  OBVIOUS
<1>5. PICK n \in Nat : n = f + Len(t) /\ f <= n
  BY <1>1
<1>6. u \in Seq(Nat) /\ Len(u) = n /\ \A i \in 1 .. n : u[i] = IF i <= f THEN z[i] ELSE t[i - f]
  BY <1>1, <1>3, <1>4, <1>5, ConcatProperties
<1>7. Begins(u, n, f, 0)
  <2>1. \A m \in 1 .. f : u[m] = 0
    BY <1>3, <1>5, <1>6
  <2>2. ASSUME f < n
        PROVE  u[f + 1] # 0
    <3>1. PICK i \in 1 .. n : i = f + 1 /\ ~(i <= f) /\ i - f = 1
      BY <1>5, <2>2
    <3>2. Len(t) > 0
      BY <1>1, <1>5, <2>2
    <3> QED
      BY <1>1, <1>6, <3>1, <3>2
  <2> QED
    BY <1>5, <2>1, <2>2 DEF Begins
<1>8. zcount(u) = f
  <2>1. DOMAIN u = 1 .. n
    BY <1>6
  <2> QED
    BY <1>7, <2>1, ZerosCounted
<1>9. SubSeq(u, f + 1, n) = t
  <2>1. PICK v : v = SubSeq(u, f + 1, n)
    OBVIOUS
  <2>2. v \in Seq(Nat) /\ Len(v) = n - f /\ \A i \in 1 .. n - f : v[i] = u[f + i]
    BY <1>5, <1>6, <2>1
  <2>3. n - f = Len(t)
    BY <1>1, <1>5
  <2>4. \A i \in 1 .. n - f : v[i] = t[i]
    <3> SUFFICES ASSUME NEW i \in 1 .. n - f
                 PROVE  v[i] = t[i]
      OBVIOUS
    <3>1. PICK m \in 1 .. n : m = f + i /\ ~(m <= f) /\ m - f = i
      BY <1>5
    <3> QED
      BY <1>6, <2>2, <3>1
  <2> QED
    BY <1>1, <2>1, <2>2, <2>3, <2>4, SeqEqual
<1> QED
  BY <1>2, <1>4, <1>6, <1>8, <1>9

(* A decoder's step multiplies by 58 and adds, from the last byte up.      *)
(* After k bytes, front has those that follow the carry a[2].              *)
TimesStep(bytes) ==
  [a \in Seq(Byte) \X Nat |-> [k \in Nat |->
    <<(<<(58 * bytes[k] + a[2]) % 256>>) \o a[1], (58 * bytes[k] + a[2]) \div 256>>]]
Multiplied(a, bytes, w, n, r, k) ==
  /\ Len(a[1]) = k /\ a[2] < 58
  /\ Reads(256, a[1], 0, k, 58 * w[n - k] + a[2], r)
  /\ k > 0 => 256 * a[2] + a[1][1] >= 58 * bytes[n + 1 - k]

(* One digit in front of a sequence. *)
LEMMA InFront ==
  ASSUME NEW s \in Seq(Byte), NEW v \in Byte, NEW c, NEW u, u = 256 * c + v, NEW r, Reads(256, s, 0, Len(s), u, r)
  PROVE  /\ <<v>> \o s \in Seq(Byte) /\ Len(<<v>> \o s) = Len(s) + 1 /\ (<<v>> \o s)[1] = v
         /\ Reads(256, <<v>> \o s, 0, Len(s) + 1, c, r)
<1>1. PICK n \in Nat : n = Len(s)
  OBVIOUS
<1>2. PICK p : p = <<v>>
  OBVIOUS
<1>3. p \in Seq(Byte) /\ Len(p) = 1 /\ p[1] = v
  BY <1>2
<1>4. PICK t : t = p \o s
  OBVIOUS
<1>5. t \in Seq(Byte) /\ Len(t) = 1 + n /\ \A i \in 1 .. 1 + n : t[i] = IF i <= 1 THEN p[i] ELSE s[i - 1]
  <2>1. /\ p \o s \in Seq(Byte) /\ Len(p \o s) = Len(p) + Len(s)
        /\ \A i \in 1 .. Len(p) + Len(s) : (p \o s)[i] = IF i <= Len(p) THEN p[i] ELSE s[i - Len(p)]
    BY <1>3, ConcatProperties
  <2> QED
    BY <1>1, <1>3, <1>4, <2>1
<1>6. t[1] = v /\ \A i \in 0 + 1 .. n : t[1 + i] = s[i]
  <2>1. t[1] = v
    BY <1>3, <1>5
  <2>2. ASSUME NEW i \in 1 .. n
        PROVE  t[1 + i] = s[i]
    <3>1. PICK m \in 1 .. 1 + n : m = 1 + i /\ ~(m <= 1) /\ m - 1 = i
      OBVIOUS
    <3> QED
      BY <1>5, <3>1
  <2> QED
    BY <2>1, <2>2
<1>7. Reads(256, t, 1, 1 + n, u, r)
  <2>1. PICK z \in Int, j \in Nat : z = 1 /\ j = 0 /\ j <= n /\ z + j = 1 /\ z + j \in Nat
    OBVIOUS
  <2>2. PICK g : g = 256
    OBVIOUS
  <2>3. Reads(g, s, j, n, u, r) /\ \A i \in j + 1 .. n : t[z + i] = s[i]
    BY <1>1, <1>6, <2>1, <2>2
  <2>4. Reads(g, t, z + j, z + n, u, r)
    BY ONLY <1>1, <2>1, <2>3, ReadsMoved
  <2> QED
    BY <2>1, <2>2, <2>4
<1>8. Reads(256, t, 0, 1 + n, c, r)
  <2>1. 0 + 1 = 1 /\ 0 < 1 + n /\ 1 + n \in Nat
    OBVIOUS
  <2>2. u = 256 * c + t[0 + 1]
    BY <1>6, <2>1
  <2> QED
    BY <1>7, <2>1, <2>2, ReadsFront
<1> QED
  BY <1>1, <1>2, <1>4, <1>5, <1>6, <1>8

LEMMA TimesStepKeeps ==
  ASSUME NEW bytes \in Seq(Byte), NEW n \in Nat, n = Len(bytes), NEW w, NEW y, Leads(w, 256, bytes, 0, n, 0, y),
         NEW r, NEW k \in 1 .. n, NEW a \in Seq(Byte) \X Nat, Multiplied(a, bytes, w, n, r, k - 1)
  PROVE  /\ TimesStep(bytes)[a][n + 1 - k] \in Seq(Byte) \X Nat
         /\ Multiplied(TimesStep(bytes)[a][n + 1 - k], bytes, w, n, r, k)
<1>1. PICK s \in Seq(Byte), c \in Nat : a = <<s, c>>
  OBVIOUS
<1>2. a[1] = s /\ a[2] = c
  BY <1>1
<1>3. PICK i \in 1 .. n : i = n + 1 - k /\ n - (k - 1) = i /\ n - k = i - 1 /\ i \in Nat
  <2>1. n + 1 - k \in 1 .. n /\ n - (k - 1) = n + 1 - k /\ n - k = (n + 1 - k) - 1 /\ n + 1 - k \in Nat
    OBVIOUS
  <2> QED
    BY <2>1
<1>4. Len(s) = k - 1 /\ c < 58 /\ Reads(256, s, 0, k - 1, 58 * w[i] + c, r)
  BY <1>2, <1>3 DEF Multiplied
<1>5. PICK v \in Nat : v = bytes[i] /\ v < 256
  BY ByteIs
<1>6. PICK l \in Nat, q \in Nat : l = (58 * v + c) % 256 /\ q = (58 * v + c) \div 256 /\ l < 256 /\ 58 * v + c = 256 * q + l
  <2>1. PICK m \in Nat : m = 58 * v + c
    OBVIOUS
  <2>2. m % 256 \in Nat /\ m \div 256 \in Nat /\ m % 256 < 256 /\ m = 256 * (m \div 256) + (m % 256)
    OBVIOUS
  <2> QED
    BY <2>1, <2>2
<1>7. q < 58 /\ 256 * q + l >= 58 * v
  <2>1. 58 * v + c = 256 * q + l /\ v < 256 /\ c < 58 /\ l < 256
    BY <1>4, <1>5, <1>6
  <2>2. v \in Nat /\ c \in Nat /\ q \in Nat /\ l \in Nat
    BY <1>1, <1>5, <1>6
  <2> QED
    BY ONLY <2>1, <2>2, SMT
<1>8. PICK x \in Nat : w[i - 1] = x /\ w[i] = 256 * x + v
  <2>1. \A j \in 1 .. n : bytes[j] \in Nat
    BY ByteIs
  <2>2. PICK g \in Nat : g = 256
    OBVIOUS
  <2>3. \A j \in 0 .. n : w[j] \in Nat
    <3>1. Leads(w, g, bytes, 0, n, 0, y)
      BY <2>2
    <3> QED
      BY ONLY <2>1, <2>2, <3>1, n \in Nat, LeadsNumbers
  <2>4. w[i] = 256 * w[i - 1] + bytes[i]
    BY DEF Leads
  <2>5. i - 1 \in 0 .. n
    OBVIOUS
  <2> QED
    BY <1>5, <2>3, <2>4, <2>5
<1>9. l \in Byte
  BY <1>6 DEF Byte
<1>10. Reads(256, s, 0, Len(s), 256 * (58 * x + q) + l, r)
  <2>1. 58 * (256 * x + v) + c = 256 * (58 * x + q) + l
    BY <1>6
  <2> QED
    BY <1>4, <1>8, <2>1
<1>11. PICK t : t = <<l>> \o s
  OBVIOUS
<1>12. t \in Seq(Byte) /\ Len(t) = Len(s) + 1 /\ t[1] = l /\ Reads(256, t, 0, Len(s) + 1, 58 * x + q, r)
  <2>1. PICK u : u = 58 * x + q
    OBVIOUS
  <2>2. PICK z : z = 256 * u + l
    OBVIOUS
  <2>3. Reads(256, s, 0, Len(s), z, r)
    BY <1>10, <2>1, <2>2
  <2>4. /\ <<l>> \o s \in Seq(Byte) /\ Len(<<l>> \o s) = Len(s) + 1 /\ (<<l>> \o s)[1] = l
        /\ Reads(256, <<l>> \o s, 0, Len(s) + 1, u, r)
    BY ONLY <1>1, <1>9, <2>2, <2>3, InFront
  <2> QED
    BY <1>11, <2>1, <2>4
<1>13. PICK f : f = <<t, q>>
  OBVIOUS
<1>14. f \in Seq(Byte) \X Nat /\ f[1] = t /\ f[2] = q
  BY <1>12, <1>13
<1>15. TimesStep(bytes)[a][i] = f
  BY <1>2, <1>3, <1>5, <1>6, <1>11, <1>13 DEF TimesStep
<1>16. Multiplied(f, bytes, w, n, r, k)
  <2>1. Len(s) + 1 = k
    BY <1>4
  <2>2. w[n - k] = x
    BY <1>3, <1>8
  <2>3. 256 * q + l >= 58 * bytes[n + 1 - k]
    BY <1>3, <1>5, <1>7
  <2> QED
    BY <1>7, <1>12, <1>14, <2>1, <2>2, <2>3 DEF Multiplied
<1> QED
  BY <1>3, <1>14, <1>15, <1>16

(* The bytes of the number y, without zeros in front. *)
Stands(u, y) == u \in Seq(Byte) /\ Bare(u, 256) /\ Reads(256, u, 0, Len(u), 0, y)

LEMMA TimesPlusTimes ==
  ASSUME NEW bytes, NEW y \in Nat, Stands(bytes, y), NEW digit \in Nat, digit < 58, NEW r, r = 58 * y + digit
  PROVE  Stands(TimesPlus[bytes][digit], r)
<1>1. bytes \in Seq(Byte) /\ (Len(bytes) > 0 => bytes[1] # 0) /\ Reads(256, bytes, 0, Len(bytes), 0, y)
  BY DEF Stands, Bare
<1>2. PICK n \in Nat : n = Len(bytes)
  BY <1>1
<1>3. PICK w : Leads(w, 256, bytes, 0, n, 0, y)
  BY <1>1, <1>2 DEF Reads
<1>4. w[0] = 0 /\ w[n] = y
  BY <1>3 DEF Leads
<1>5. PICK first : first = << <<>>, digit>>
  OBVIOUS
<1>6. PICK turns : turns = [k \in 1 .. n |-> n + 1 - k]
  OBVIOUS
<1>7. turns \in Seq(Nat) /\ Len(turns) = n /\ \A k \in 1 .. n : turns[k] = n + 1 - k
  BY <1>6
<1>8. PICK step : step = TimesStep(bytes)
  OBVIOUS
<1> DEFINE D == Seq(Byte) \X Nat
<1> DEFINE J == [k \in 0 .. n |-> {a \in D : Multiplied(a, bytes, w, n, r, k)}]
<1>9. \A k \in 0 .. n : J[k] = {a \in D : Multiplied(a, bytes, w, n, r, k)}
  OBVIOUS
<1>10. first \in D /\ first[1] = <<>> /\ first[2] = digit
  <2>1. PICK e : e = <<>>
    OBVIOUS
  <2>2. e \in Seq(Byte)
    BY <2>1
  <2>3. first = <<e, digit>>
    BY <1>5, <2>1
  <2> QED
    BY <2>1, <2>2, <2>3
<1> HIDE DEF J
<1>11. first \in J[0]
  <2>1. PICK e : e = <<>>
    OBVIOUS
  <2>2. Len(e) = 0 /\ 0 \in 0 .. n /\ n - 0 = n
    BY <2>1
  <2>3. Reads(256, e, 0, 0, r, r)
    BY ReadsNothing
  <2>4. Reads(256, e, 0, 0, 58 * w[n - 0] + digit, r)
    BY <1>4, <2>2, <2>3
  <2>5. first[1] = e
    BY <1>10, <2>1
  <2>6. Multiplied(first, bytes, w, n, r, 0)
    BY <1>10, <2>2, <2>4, <2>5 DEF Multiplied
  <2> QED
    BY <1>9, <1>10, <2>2, <2>6
<1>12. \A k \in 1 .. Len(turns) : \A a \in J[k - 1] : step[a][turns[k]] \in J[k]
  <2> SUFFICES ASSUME NEW k \in 1 .. n, NEW a \in J[k - 1]
               PROVE  step[a][n + 1 - k] \in J[k]
    BY <1>7
  <2>1. k - 1 \in 0 .. n /\ k \in 0 .. n
    OBVIOUS
  <2>2. a \in D /\ Multiplied(a, bytes, w, n, r, k - 1)
    BY <1>9, <2>1
  <2>3. TimesStep(bytes)[a][n + 1 - k] \in D /\ Multiplied(TimesStep(bytes)[a][n + 1 - k], bytes, w, n, r, k)
    BY <1>1, <1>2, <1>3, <2>2, TimesStepKeeps
  <2> QED
    BY <1>8, <1>9, <2>1, <2>3
<1>13. PICK end : end = Along(step, first, turns)
  OBVIOUS
<1>14. end \in J[n]
  BY <1>7, <1>11, <1>12, <1>13, AlongInvariant
<1>15. end \in D /\ Multiplied(end, bytes, w, n, r, n)
  <2>1. n \in 0 .. n
    OBVIOUS
  <2> QED
    BY <1>9, <1>14, <2>1
<1>16. PICK t \in Seq(Byte), c \in Nat : end = <<t, c>>
  BY <1>15
<1>17. end[1] = t /\ end[2] = c
  BY <1>16
<1>18. TimesPlus[bytes][digit] = IF c = 0 THEN t ELSE <<c>> \o t
  <2>1. bytes \in Seq(0 .. 255)
    BY <1>1 DEF Byte
  <2>2. TimesPlus[bytes][digit] =
          LET e == Along([a \in Seq(0 .. 255) \X Nat |-> [k \in Nat |->
                           <<(<<(58 * bytes[k] + a[2]) % 256>>) \o a[1], (58 * bytes[k] + a[2]) \div 256>>]],
                        << <<>>, digit>>, [k \in 1 .. Len(bytes) |-> Len(bytes) + 1 - k])
          IN IF e[2] = 0 THEN e[1] ELSE <<e[2]>> \o e[1]
    BY <2>1 DEF TimesPlus
  <2>3. step = [a \in Seq(0 .. 255) \X Nat |-> [k \in Nat |->
                           <<(<<(58 * bytes[k] + a[2]) % 256>>) \o a[1], (58 * bytes[k] + a[2]) \div 256>>]]
    BY <1>8 DEF TimesStep, Byte
  <2>4. TimesPlus[bytes][digit] =
          LET e == Along(step, first, turns) IN IF e[2] = 0 THEN e[1] ELSE <<e[2]>> \o e[1]
    BY <1>2, <1>5, <1>6, <2>2, <2>3
  <2> QED
    BY <1>13, <1>17, <2>4
<1>19. /\ Len(t) = n /\ c < 58 /\ Reads(256, t, 0, n, c, r)
       /\ n > 0 => 256 * c + t[1] >= 58 * bytes[1]
  <2>1. n - n = 0 /\ n + 1 - n = 1 /\ 58 * 0 + c = c
    OBVIOUS
  <2> QED
    BY <1>4, <1>15, <1>17, <2>1 DEF Multiplied
<1>20. CASE c = 0
  <2>1. n > 0 => t[1] # 0
    <3>1. ASSUME n > 0
          PROVE  t[1] # 0
      <4>1. PICK v \in Nat : v = bytes[1] /\ v # 0
        BY <1>1, <1>2, <3>1, ByteIs
      <4>2. PICK f \in Nat : f = t[1]
        BY <1>19, <3>1, ByteIs
      <4>3. f >= 58 * v
        BY <1>19, <1>20, <3>1, <4>1, <4>2
      <4> QED
        BY <4>1, <4>2, <4>3
    <3> QED
      BY <3>1
  <2>2. Bare(t, 256)
    BY <1>19, <2>1, ByteIs DEF Bare
  <2> QED
    BY <1>18, <1>19, <1>20, <2>2 DEF Stands
<1>21. CASE c # 0
  <2>1. c \in Byte
    BY <1>19 DEF Byte
  <2>2. PICK z : z = 0
    OBVIOUS
  <2>3. c = 256 * z + c /\ Reads(256, t, 0, Len(t), c, r)
    BY <1>19, <2>2
  <2>4. /\ <<c>> \o t \in Seq(Byte) /\ Len(<<c>> \o t) = Len(t) + 1 /\ (<<c>> \o t)[1] = c
        /\ Reads(256, <<c>> \o t, 0, Len(t) + 1, z, r)
    BY ONLY <2>1, <2>3, <1>16, InFront
  <2>5. PICK u : u = <<c>> \o t
    OBVIOUS
  <2>6. u \in Seq(Byte) /\ u[1] # 0 /\ Reads(256, u, 0, Len(u), 0, r)
    BY <1>21, <2>2, <2>4, <2>5
  <2>7. Bare(u, 256)
    BY <2>6, ByteIs DEF Bare
  <2> QED
    BY <1>18, <1>21, <2>5, <2>6, <2>7 DEF Stands
<1> QED
  BY <1>20, <1>21

(* The decoder's bytes are those of the number the digits lead to. *)
LEMMA DigitsDecoded ==
  ASSUME NEW t, Bare(t, 58), NEW x, Reads(58, t, 0, Len(t), 0, x)
  PROVE  Stands(Along(TimesPlus, <<>>, t), x)
<1>1. t \in Seq(Nat) /\ \A i \in 1 .. Len(t) : t[i] \in Nat /\ t[i] < 58
  BY DEF Bare
<1>2. PICK n \in Nat : n = Len(t)
  BY <1>1
<1>3. PICK w : Leads(w, 58, t, 0, n, 0, x)
  BY <1>2 DEF Reads
<1>4. w[0] = 0 /\ w[n] = x /\ \A k \in 1 .. n : w[k] = 58 * w[k - 1] + t[k]
  BY <1>3 DEF Leads
<1>5. \A i \in 0 .. n : w[i] \in Nat
  <2>1. PICK g \in Nat : g = 58
    OBVIOUS
  <2>2. Leads(w, g, t, 0, n, 0, x) /\ \A i \in 1 .. n : t[i] \in Nat
    BY <1>1, <1>2, <1>3, <2>1
  <2> QED
    BY ONLY <2>1, <2>2, <1>2, LeadsNumbers
<1> DEFINE J == [k \in 0 .. n |-> {u \in Seq(Byte) : Stands(u, w[k])}]
<1>6. \A k \in 0 .. n : J[k] = {u \in Seq(Byte) : Stands(u, w[k])}
  OBVIOUS
<1> HIDE DEF J
<1>7. PICK e : e = <<>>
  OBVIOUS
<1>8. e \in J[0]
  <2>1. e \in Seq(Byte) /\ e \in Seq(Nat) /\ Len(e) = 0 /\ 0 \in 0 .. n
    BY <1>7
  <2>2. Reads(256, e, 0, 0, 0, 0)
    BY ReadsNothing
  <2>3. Stands(e, 0)
    BY <2>1, <2>2 DEF Stands, Bare
  <2> QED
    BY <1>4, <1>6, <2>1, <2>3
<1>9. \A k \in 1 .. Len(t) : \A u \in J[k - 1] : TimesPlus[u][t[k]] \in J[k]
  <2> SUFFICES ASSUME NEW k \in 1 .. n, NEW u \in J[k - 1]
               PROVE  TimesPlus[u][t[k]] \in J[k]
    BY <1>2
  <2>1. k - 1 \in 0 .. n /\ k \in 0 .. n
    OBVIOUS
  <2>2. Stands(u, w[k - 1]) /\ w[k - 1] \in Nat
    BY <1>5, <1>6, <2>1
  <2>3. PICK y \in Nat : y = w[k - 1]
    BY <2>2
  <2>4. PICK digit \in Nat : digit = t[k] /\ digit < 58
    BY <1>1, <1>2
  <2>5. PICK r : r = 58 * y + digit /\ r = w[k]
    BY <1>4, <2>3, <2>4
  <2>6. Stands(u, y)
    BY <2>2, <2>3
  <2>7. Stands(TimesPlus[u][digit], r)
    BY ONLY <2>3, <2>4, <2>5, <2>6, TimesPlusTimes
  <2> QED
    BY <1>6, <2>1, <2>4, <2>5, <2>7 DEF Stands
<1>10. Along(TimesPlus, e, t) \in J[n]
  BY <1>1, <1>2, <1>8, <1>9, AlongInvariant
<1> QED
  <2>1. n \in 0 .. n
    OBVIOUS
  <2> QED
    BY <1>4, <1>6, <1>7, <1>10, <2>1

(* The values of bytes with none of them zero in front. *)
Valued(u, n, w) ==
  /\ u \in Seq(Byte) /\ Len(u) = n /\ w[0] = 0
  /\ \A i \in 0 .. n : w[i] \in Nat
  /\ \A i \in 1 .. n : u[i] \in Nat /\ u[i] < 256 /\ w[i] = 256 * w[i - 1] + u[i] /\ w[i] > 0

LEMMA StandsValued ==
  ASSUME NEW u, NEW y, Stands(u, y)
  PROVE  \E n \in Nat : \E w : Valued(u, n, w) /\ w[n] = y
<1>1. u \in Seq(Byte) /\ (Len(u) > 0 => u[1] # 0) /\ Reads(256, u, 0, Len(u), 0, y)
  BY DEF Stands, Bare
<1>2. PICK n \in Nat : n = Len(u)
  BY <1>1
<1>3. PICK w : Leads(w, 256, u, 0, n, 0, y)
  BY <1>1, <1>2 DEF Reads
<1>4. w[0] = 0 /\ w[n] = y /\ \A k \in 1 .. n : w[k] = 256 * w[k - 1] + u[k]
  BY <1>3 DEF Leads
<1>5. \A k \in 1 .. n : u[k] \in Nat /\ u[k] < 256
  BY <1>1, <1>2, ByteIs
<1>6. \A i \in 0 .. n : w[i] \in Nat
  <2>1. PICK g \in Nat : g = 256
    OBVIOUS
  <2>2. Leads(w, g, u, 0, n, 0, y) /\ \A i \in 1 .. n : u[i] \in Nat
    BY <1>3, <1>5, <2>1
  <2> QED
    BY ONLY <2>1, <2>2, <1>2, LeadsNumbers
<1> DEFINE T == {k \in 0 .. n : k > 0 => w[k] > 0}
<1>7. 0 \in T
  OBVIOUS
<1>8. \A k \in 1 .. n : k - 1 \in T => k \in T
  <2> SUFFICES ASSUME NEW k \in 1 .. n, k - 1 \in T
               PROVE  w[k] > 0
    OBVIOUS
  <2>1. PICK x \in Nat, v \in Nat : x = w[k - 1] /\ v = u[k] /\ w[k] = 256 * x + v
    <3>1. k - 1 \in 0 .. n
      OBVIOUS
    <3> QED
      BY <1>4, <1>5, <1>6, <3>1
  <2>2. k = 1 => v > 0
    BY <1>1, <1>2, <2>1
  <2>3. k # 1 => x > 0
    BY <2>1
  <2> QED
    BY <2>1, <2>2, <2>3
<1> HIDE DEF T
<1>9. 0 .. n \subseteq T
  BY <1>7, <1>8, InductionTo
<1>10. \A k \in 1 .. n : w[k] > 0
  BY <1>9 DEF T
<1>11. Valued(u, n, w)
  BY <1>1, <1>2, <1>4, <1>5, <1>6, <1>10 DEF Valued
<1> QED
  BY <1>4, <1>11

(* A number has one such sequence of bytes. *)
LEMMA StandsOnce ==
  ASSUME NEW u, NEW v, NEW y, Stands(u, y), Stands(v, y)
  PROVE  u = v
<1>1. PICK n \in Nat : \E w : Valued(u, n, w) /\ w[n] = y
  BY StandsValued
<1>2. PICK w : Valued(u, n, w) /\ w[n] = y
  BY <1>1
<1>3. PICK m \in Nat : \E x : Valued(v, m, x) /\ x[m] = y
  BY StandsValued
<1>4. PICK x : Valued(v, m, x) /\ x[m] = y
  BY <1>3
<1>5. /\ u \in Seq(Byte) /\ Len(u) = n /\ w[0] = 0 /\ \A i \in 0 .. n : w[i] \in Nat
  BY <1>2 DEF Valued
<1>6. /\ v \in Seq(Byte) /\ Len(v) = m /\ x[0] = 0 /\ \A i \in 0 .. m : x[i] \in Nat
  BY <1>4 DEF Valued
<1>7. \A i \in 1 .. n : u[i] \in Nat /\ u[i] < 256 /\ w[i] = 256 * w[i - 1] + u[i] /\ w[i] > 0
  BY <1>2 DEF Valued
<1>8. \A i \in 1 .. m : v[i] \in Nat /\ v[i] < 256 /\ x[i] = 256 * x[i - 1] + v[i] /\ x[i] > 0
  BY <1>4 DEF Valued
<1> DEFINE T == {k \in 0 .. n : \A l \in 0 .. m : w[k] = x[l] => k = l /\ \A i \in 1 .. k : u[i] = v[i]}
<1>9. 0 \in T
  <2> SUFFICES ASSUME NEW l \in 0 .. m, w[0] = x[l]
               PROVE  0 = l
    OBVIOUS
  <2>1. l # 0 => l \in 1 .. m
    OBVIOUS
  <2>2. l # 0 => x[l] > 0
    BY <1>8, <2>1
  <2>3. x[l] = 0
    BY <1>5
  <2> QED
    BY <2>2, <2>3
<1>10. \A k \in 1 .. n : k - 1 \in T => k \in T
  <2> SUFFICES ASSUME NEW k \in 1 .. n, k - 1 \in T, NEW l \in 0 .. m, w[k] = x[l]
               PROVE  k = l /\ \A i \in 1 .. k : u[i] = v[i]
    OBVIOUS
  <2>1. l \in 1 .. m /\ l - 1 \in 0 .. m /\ k - 1 \in 0 .. n
    BY <1>6, <1>7
  <2>2. PICK a \in Nat, b \in Nat : a = w[k - 1] /\ b = u[k] /\ b < 256 /\ w[k] = 256 * a + b
    <3>1. w[k - 1] \in Nat
      BY <1>5, <2>1
    <3>2. u[k] \in Nat /\ u[k] < 256 /\ w[k] = 256 * w[k - 1] + u[k]
      BY <1>7
    <3> QED
      BY <3>1, <3>2
  <2>3. PICK c \in Nat, e \in Nat : c = x[l - 1] /\ e = v[l] /\ e < 256 /\ x[l] = 256 * c + e
    <3>1. x[l - 1] \in Nat
      BY <1>6, <2>1
    <3>2. v[l] \in Nat /\ v[l] < 256 /\ x[l] = 256 * x[l - 1] + v[l]
      BY <1>8, <2>1
    <3> QED
      BY <3>1, <3>2
  <2>4. a = c /\ b = e
    <3>1. 256 * a + b = 256 * c + e
      BY <2>2, <2>3
    <3>2. b < 256 /\ e < 256
      BY <2>2, <2>3
    <3> QED
      BY ONLY <3>1, <3>2, a \in Nat, b \in Nat, c \in Nat, e \in Nat, SMT
  <2>5. k - 1 = l - 1 /\ \A i \in 1 .. k - 1 : u[i] = v[i]
    BY <2>1, <2>2, <2>3, <2>4
  <2>6. k = l
    BY <2>1, <2>5
  <2>7. ASSUME NEW i \in 1 .. k
        PROVE  u[i] = v[i]
    <3>1. i = k \/ i \in 1 .. k - 1
      OBVIOUS
    <3>2. u[k] = v[k]
      BY <2>2, <2>3, <2>4, <2>6
    <3> QED
      BY <2>5, <3>1, <3>2
  <2> QED
    BY <2>6, <2>7
<1> HIDE DEF T
<1>11. 0 .. n \subseteq T
  BY <1>9, <1>10, InductionTo
<1>12. n \in 0 .. n /\ m \in 0 .. m /\ w[n] = x[m]
  BY <1>2, <1>4
<1>13. n = m /\ \A i \in 1 .. n : u[i] = v[i]
  BY <1>11, <1>12 DEF T
<1> QED
  BY <1>5, <1>6, <1>13, SeqEqual

(* The Base58 text of bytes decodes to them, whatever they are and however *)
(* many: b58enc's estimate of the digits is enough, no carry is left and   *)
(* no digit or leading zero is lost (vanity.cu's b58enc).                  *)
THEOREM Base58IsExact == \A bin \in Seq(Byte) : Decoded[b58enc[bin]] = bin
<1> SUFFICES ASSUME NEW bin \in Seq(Byte)
             PROVE  Decoded[b58enc[bin]] = bin
  OBVIOUS
<1>1. PICK f \in Nat : \E rest, t, x : /\ bin = Zeros(f) \o rest /\ b58enc[bin] = Zeros(f) \o t
                                       /\ Same58(rest, t, x)
  BY EncodedIs
<1>2. PICK rest, t, x : /\ bin = Zeros(f) \o rest /\ b58enc[bin] = Zeros(f) \o t
                        /\ Same58(rest, t, x)
  BY <1>1
<1>3. Stands(rest, x) /\ Bare(t, 58) /\ Reads(58, t, 0, Len(t), 0, x)
  BY <1>2 DEF Same58, Stands
<1>4. Stands(Along(TimesPlus, <<>>, t), x)
  BY <1>3, DigitsDecoded
<1>5. Along(TimesPlus, <<>>, t) = rest
  BY <1>3, <1>4, StandsOnce
<1>6. PICK text : text = Zeros(f) \o t
  OBVIOUS
<1>7. text \in Seq(Nat) /\ zcount(text) = f /\ SubSeq(text, f + 1, Len(text)) = t
  BY <1>3, <1>6, ZerosAgain
<1>8. Decoded[text] = Zeros(f) \o Along(TimesPlus, <<>>, t)
  BY <1>7 DEF Decoded
<1> QED
  BY <1>2, <1>5, <1>6, <1>8

-----------------------------------------------------------------------------
(* Field elements keep their ten limbs through every operation, so that a  *)
(* point that is encoded gives all the bits of a key.                      *)

(* Powers of two are positive numbers. *)
LEMMA TwoPower == ASSUME NEW n \in Nat PROVE 2 ^ n \in Nat /\ 2 ^ n > 0
<1>1. IsFiniteSet(1 .. n) /\ Cardinality(1 .. n) = n
  BY FS_Interval
<1>2. PICK S : S = 1 .. n
  OBVIOUS
<1>3. IsFiniteSet(SUBSET S) /\ Cardinality(SUBSET S) = 2 ^ Cardinality(S)
  BY <1>1, <1>2, FS_SUBSET
<1>4. Cardinality(SUBSET S) \in Nat
  BY <1>3, FS_CardinalityType
<1>5. SUBSET S # {}
  BY {} \in SUBSET S
<1>6. Cardinality(SUBSET S) # 0
  BY <1>3, <1>5, FS_EmptySet
<1> QED
  BY <1>1, <1>2, <1>3, <1>4, <1>6

(* The sums of the recursions: 0, t[1], t[1] + t[2], ...                   *)
Sums(v, t, n) == v = [i \in 0 .. n |-> IF i = 0 THEN 0 ELSE v[i - 1] + t[i]]

(* A sum of n terms exists, ... *)
LEMMA SumsExist ==
  ASSUME NEW n \in Nat, NEW t, \A i \in 1 .. n : t[i] \in Int
  PROVE  \E v : Sums(v, t, n)
<1> DEFINE step == [x \in Int |-> [y \in Int |-> x + y]]
<1>1. PICK v : Runs(v, step, 0, t, n)
  BY RunExists
<1>2. \A k \in 0 .. n : v[k] = IF k = 0 THEN 0 ELSE step[v[k - 1]][t[k]]
  BY <1>1 DEF Runs
<1>3. v = [k \in 0 .. n |-> v[k]]
  BY <1>1 DEF Runs
<1>4. \A x \in Int : \A y \in Int : step[x][y] = x + y
  OBVIOUS
<1> HIDE DEF step
<1> DEFINE S == {k \in 0 .. n : v[k] \in Int}
<1>5. 0 \in S
  BY <1>2
<1>6. \A k \in 1 .. n : k - 1 \in S => k \in S
  <2> SUFFICES ASSUME NEW k \in 1 .. n, v[k - 1] \in Int
               PROVE  v[k] \in Int
    OBVIOUS
  <2>1. v[k] = step[v[k - 1]][t[k]]
    BY <1>2
  <2>2. PICK x \in Int, y \in Int : x = v[k - 1] /\ y = t[k]
    OBVIOUS
  <2>3. step[x][y] = x + y
    BY <1>4
  <2> QED
    BY <2>1, <2>2, <2>3
<1> HIDE DEF S
<1>7. 0 .. n \subseteq S
  BY <1>5, <1>6, InductionTo
<1>8. \A k \in 0 .. n : v[k] = IF k = 0 THEN 0 ELSE v[k - 1] + t[k]
  <2> SUFFICES ASSUME NEW k \in 1 .. n
               PROVE  v[k] = v[k - 1] + t[k]
    BY <1>2
  <2>1. v[k] = step[v[k - 1]][t[k]]
    BY <1>2
  <2>2. v[k - 1] \in Int
    <3>1. k - 1 \in 0 .. n
      OBVIOUS
    <3> QED
      BY <1>7, <3>1 DEF S
  <2> QED
    BY <1>4, <2>1, <2>2
<1>9. v = [k \in 0 .. n |-> IF k = 0 THEN 0 ELSE v[k - 1] + t[k]]
  BY <1>8, <1>3
<1> QED
  BY <1>9 DEF Sums

(* ... and so are all its parts numbers. *)
LEMMA SumsAre ==
  ASSUME NEW n \in Nat, NEW t, \A i \in 1 .. n : t[i] \in Int, NEW v, Sums(v, t, n)
  PROVE  \A i \in 0 .. n : v[i] \in Int
<1>1. \A k \in 0 .. n : v[k] = IF k = 0 THEN 0 ELSE v[k - 1] + t[k]
  BY DEF Sums
<1> DEFINE S == {k \in 0 .. n : v[k] \in Int}
<1>2. 0 \in S
  BY <1>1
<1>3. \A k \in 1 .. n : k - 1 \in S => k \in S
  BY <1>1
<1> HIDE DEF S
<1>4. 0 .. n \subseteq S
  BY <1>2, <1>3, InductionTo
<1> QED
  BY <1>4 DEF S

(* The bits of a number, most significant first, read as digits. *)
Binary(s, from, to) == \A i \in from + 1 .. to + 1 : s[i] \in {0, 1}
Reversed(r, s, m, to) == \A j \in 1 .. m : r[j] = s[to + 2 - j]

(* The number is what they read. *)
LEMMA NumberReads ==
  ASSUME NEW s, NEW from \in Nat, NEW to \in Int, from <= to + 1, Binary(s, from, to),
         NEW m \in Nat, m = to + 1 - from, NEW r, Reversed(r, s, m, to)
  PROVE  (\A j \in 1 .. m : r[j] \in Nat /\ r[j] < 2) /\ Reads(2, r, 0, m, 0, Number(s, from, to))
<1> DEFINE Is(n) == n = [k \in from .. (to + 1) |-> IF k > to THEN 0 ELSE s[k + 1] + 2 * n[k + 1]]
<1>1. \A j \in 1 .. m : r[j] = s[to + 2 - j]
  BY DEF Reversed
<1>2. \A j \in 1 .. m : r[j] = s[to + 2 - j] /\ r[j] \in Nat /\ r[j] < 2
  <2> SUFFICES ASSUME NEW j \in 1 .. m
               PROVE  s[to + 2 - j] \in Nat /\ s[to + 2 - j] < 2
    BY <1>1
  <2>1. PICK i \in from + 1 .. to + 1 : i = to + 2 - j
    <3>1. to + 2 - j \in from + 1 .. to + 1
      BY <1>1
    <3> QED
      BY <3>1
  <2>2. s[i] \in {0, 1}
    BY DEF Binary
  <2> QED
    BY <2>1, <2>2
<1>3. \E n : Is(n)
  <2>1. PICK x \in Nat : Reads(2, r, 0, 0 + m, 0, x)
    <3>1. PICK b \in Nat, j \in Nat : b = 2 /\ j = 0
      OBVIOUS
    <3>2. \A i \in j + 1 .. j + m : r[i] \in Nat
      BY <1>2, <3>1
    <3>3. \E x \in Nat : Reads(b, r, j, j + m, j, x)
      BY <3>2, ReadsNumber
    <3> QED
      BY <3>1, <3>3
  <2>2. 0 + m = m
    OBVIOUS
  <2>3. PICK w : Leads(w, 2, r, 0, m, 0, x)
    BY <2>1, <2>2 DEF Reads
  <2>4. w[0] = 0 /\ \A i \in 1 .. m : w[i] = 2 * w[i - 1] + r[i]
    BY <2>3 DEF Leads
  <2>5. \A i \in 0 .. m : w[i] \in Nat
    <3>1. PICK b \in Nat : b = 2
      OBVIOUS
    <3>2. Leads(w, b, r, 0, m, 0, x) /\ \A i \in 1 .. m : r[i] \in Nat
      BY <1>2, <2>3, <3>1
    <3> QED
      BY <3>1, <3>2, LeadsNumbers
  <2> DEFINE n == [k \in from .. (to + 1) |-> w[to + 1 - k]]
  <2>6. \A k \in from .. (to + 1) : n[k] = IF k > to THEN 0 ELSE s[k + 1] + 2 * n[k + 1]
    <3> SUFFICES ASSUME NEW k \in from .. (to + 1)
                 PROVE  n[k] = IF k > to THEN 0 ELSE s[k + 1] + 2 * n[k + 1]
      OBVIOUS
    <3>1. CASE k > to
      BY <2>4, <3>1
    <3>2. CASE ~(k > to)
      <4>1. PICK i \in 1 .. m : i = to + 1 - k /\ i - 1 = to + 1 - (k + 1) /\ k + 1 \in from .. (to + 1) /\ k + 1 = to + 2 - i
        <5>1. to + 1 - k \in 1 .. m
          BY <1>1, <3>2
        <5> QED
          BY <3>2, <5>1
      <4>2. n[k] = w[i] /\ n[k + 1] = w[i - 1]
        BY <4>1
      <4>3. w[i] = 2 * w[i - 1] + r[i] /\ r[i] = s[k + 1] /\ r[i] \in Nat /\ w[i - 1] \in Nat
        BY <1>2, <2>4, <2>5, <4>1
      <4> HIDE DEF n
      <4> QED
        BY <3>2, <4>2, <4>3
    <3> QED
      BY <3>1, <3>2
  <2>7. n = [k \in from .. (to + 1) |-> n[k]]
    OBVIOUS
  <2> HIDE DEF n
  <2> QED
    BY <2>6, <2>7
<1> DEFINE n == CHOOSE n : Is(n)
<1>4. Is(n)
  <2> HIDE DEF Is
  <2> QED
    BY <1>3
<1>5. Number(s, from, to) = n[from]
  BY DEF Number
<1> HIDE DEF n
<1>6. \A k \in from .. (to + 1) : n[k] = IF k > to THEN 0 ELSE s[k + 1] + 2 * n[k + 1]
  BY <1>4
<1> DEFINE v == [i \in 0 .. m |-> n[to + 1 - i]]
<1>7. v[0] = 0 /\ v[m] = n[from]
  BY <1>1, <1>6
<1>8. \A i \in 1 .. m : v[i] = 2 * v[i - 1] + r[i]
  <2> DEFINE S == {i \in 0 .. m : v[i] \in Nat /\ (i > 0 => v[i] = 2 * v[i - 1] + r[i])}
  <2>1. 0 \in S
    BY <1>7
  <2>2. \A i \in 1 .. m : i - 1 \in S => i \in S
    <3> SUFFICES ASSUME NEW i \in 1 .. m, v[i - 1] \in Nat
                 PROVE  v[i] \in Nat /\ v[i] = 2 * v[i - 1] + r[i]
      <4> HIDE DEF v
      <4> QED
        OBVIOUS
    <3>1. PICK k \in from .. (to + 1) : k = to + 1 - i /\ ~(k > to) /\ k + 1 = to + 1 - (i - 1) /\ k + 1 = to + 2 - i
      <4>1. to + 1 - i \in from .. (to + 1)
        BY <1>1
      <4> QED
        BY <4>1
    <3>2. n[k] = s[k + 1] + 2 * n[k + 1]
      BY <1>6, <3>1
    <3>3. v[i] = n[k] /\ v[i - 1] = n[k + 1]
      BY <3>1
    <3>4. r[i] = s[k + 1] /\ r[i] \in Nat
      BY <1>2, <3>1
    <3> HIDE DEF v
    <3> QED
      BY <3>2, <3>3, <3>4
  <2> HIDE DEF S, v
  <2>3. 0 .. m \subseteq S
    BY <2>1, <2>2, InductionTo
  <2> QED
    BY <2>3 DEF S
<1> HIDE DEF v
<1>9. Reads(2, r, 0, m, 0, n[from])
  <2>1. Leads(v, 2, r, 0, m, 0, n[from])
    BY <1>7, <1>8 DEF Leads
  <2> QED
    BY <2>1 DEF Reads
<1> QED
  BY <1>2, <1>5, <1>9

(* A number of bits, least significant first, is below two to their count. *)
LEMMA NumberIs ==
  ASSUME NEW s, NEW from \in Nat, NEW to \in Int, from <= to + 1, Binary(s, from, to)
  PROVE  Number(s, from, to) \in Nat /\ Number(s, from, to) < Power(2, to + 1 - from)
<1>1. PICK m \in Nat : m = to + 1 - from
  OBVIOUS
<1>2. PICK r : Reversed(r, s, m, to)
  <2> DEFINE r == [j \in 1 .. m |-> s[to + 2 - j]]
  <2>1. \A j \in 1 .. m : r[j] = s[to + 2 - j]
    OBVIOUS
  <2> QED
    BY <2>1 DEF Reversed
<1>3. PICK b \in Nat : b = 2 /\ b > 0
  OBVIOUS
<1>4. Reads(b, r, 0, m, 0, Number(s, from, to)) /\ \A i \in 1 .. m : r[i] \in Nat /\ r[i] < b
  BY <1>1, <1>2, <1>3, NumberReads
<1>5. Number(s, from, to) \in Nat /\ Number(s, from, to) < Power(b, m)
  BY <1>3, <1>4, ReadsBelow
<1> QED
  BY <1>1, <1>3, <1>5

(* With its highest bit 0 it is below half of that. *)
LEMMA NumberShort ==
  ASSUME NEW s, NEW from \in Nat, NEW to \in Int, from <= to, Binary(s, from, to), s[to + 1] = 0
  PROVE  Number(s, from, to) \in Nat /\ Number(s, from, to) < Power(2, to - from)
<1>1. PICK m \in Nat : m = to + 1 - from /\ m > 0
  OBVIOUS
<1>2. PICK r : Reversed(r, s, m, to)
  <2> DEFINE r == [j \in 1 .. m |-> s[to + 2 - j]]
  <2>1. \A j \in 1 .. m : r[j] = s[to + 2 - j]
    OBVIOUS
  <2> QED
    BY <2>1 DEF Reversed
<1>3. PICK b \in Nat, one \in Nat, z \in Int : b = 2 /\ b > 0 /\ one = 1 /\ z = -1
  OBVIOUS
<1> DEFINE x == Number(s, from, to)
<1> HIDE DEF x
<1>4. Reads(b, r, 0, m, 0, x) /\ \A i \in 1 .. m : r[i] \in Nat /\ r[i] < b
  BY <1>1, <1>2, <1>3, NumberReads DEF x
<1>5. r[1] = 0
  <2>1. r[1] = s[to + 2 - 1]
    BY <1>1, <1>2 DEF Reversed
  <2>2. to + 2 - 1 = to + 1
    OBVIOUS
  <2> QED
    BY <2>1, <2>2
<1>6. Reads(b, r, one, m, 0, x)
  <2>1. PICK nought \in Nat : nought = 0
    OBVIOUS
  <2>2. Reads(b, r, nought + 1, m, b * nought + r[nought + 1], x)
    BY <1>1, <1>4, <2>1, ReadsOn
  <2>3. nought + 1 = one /\ b * nought + r[nought + 1] = 0
    BY <1>3, <1>5, <2>1
  <2> QED
    BY <2>2, <2>3
<1>7. PICK t : \A i \in one + 1 .. m : t[z + i] = r[i]
  <2> DEFINE t == [i \in 1 .. m - 1 |-> r[i + 1]]
  <2>1. \A i \in one + 1 .. m : t[z + i] = r[i]
    <3> SUFFICES ASSUME NEW i \in one + 1 .. m
                 PROVE  t[z + i] = r[i]
      OBVIOUS
    <3>1. z + i \in 1 .. m - 1 /\ (z + i) + 1 = i
      BY <1>3
    <3> QED
      BY <3>1
  <2> HIDE DEF t
  <2> QED
    BY <2>1
<1>8. PICK n \in Nat : n = z + m /\ n = to - from /\ z + one = 0
  BY <1>1, <1>3
<1>9. Reads(b, t, 0, n, 0, x)
  <2>1. one <= m /\ z + one \in Nat
    BY <1>1, <1>3
  <2>2. Reads(b, t, z + one, z + m, 0, x)
    BY <1>6, <1>7, <2>1, ReadsMoved
  <2> QED
    BY <1>8, <2>2
<1>10. \A i \in 1 .. n : t[i] \in Nat /\ t[i] < b
  <2> SUFFICES ASSUME NEW i \in 1 .. n
               PROVE  t[i] \in Nat /\ t[i] < b
    OBVIOUS
  <2>1. PICK k \in one + 1 .. m : k = i + 1 /\ z + k = i /\ k \in 1 .. m
    <3>1. i + 1 \in one + 1 .. m /\ z + (i + 1) = i /\ i + 1 \in 1 .. m
      BY <1>3, <1>8
    <3> QED
      BY <3>1
  <2>2. t[i] = r[k]
    BY <1>7, <2>1
  <2> QED
    BY <1>4, <2>1, <2>2
<1>11. x \in Nat /\ x < Power(b, n)
  BY <1>3, <1>9, <1>10, ReadsBelow
<1> QED
  BY <1>3, <1>8, <1>11 DEF x

(* Field elements have ten limbs, ... *)
Ten == {f \in Seq(Int) : Len(f) = 10}

(* ... each an integer. *)
LEMMA TenIs ==
  ASSUME NEW f \in Ten
  PROVE  f \in Fe /\ f \in Seq(Int) /\ Len(f) = 10 /\ \A i \in 1 .. 10 : f[i] \in Int
  BY DEF Ten, Fe

(* A rule for ten limbs joined with nothing is the element itself. *)
LEMMA TenMade ==
  ASSUME NEW f, f = [i \in 1 .. 10 |-> f[i]], \A i \in 1 .. 10 : f[i] \in Int
  PROVE  f \o <<>> \in Ten /\ f \o <<>> = f
<1>1. PICK n \in Nat : n = 10
  OBVIOUS
<1>2. f = [i \in 1 .. n |-> f[i]] /\ \A i \in 1 .. n : f[i] \in Int
  BY <1>1
<1>3. f \o <<>> = f /\ f \in Seq(Int) /\ Len(f) = n
  BY <1>2, Tupled
<1> QED
  BY <1>1, <1>3 DEF Ten

Put(g, f, i, v) == g = [f EXCEPT ![i] = v]

(* One limb replaced, ... *)
LEMMA TenPut ==
  ASSUME NEW f \in Ten, NEW i \in 1 .. 10, NEW v \in Int, NEW g, Put(g, f, i, v)
  PROVE  g \in Ten /\ \A k \in 1 .. 10 : g[k] = IF k = i THEN v ELSE f[k]
<1>1. PICK n \in Nat : n = 10
  OBVIOUS
<1>2. f \in Seq(Int) /\ Len(f) = n /\ f \in [1 .. n -> Int]
  BY <1>1, TenIs
<1>3. g \in [1 .. n -> Int] /\ \A k \in 1 .. n : g[k] = IF k = i THEN v ELSE f[k]
  BY <1>1, <1>2 DEF Put
<1>4. g \in Seq(Int) /\ Len(g) = n
  BY <1>3
<1> QED
  BY <1>1, <1>3, <1>4 DEF Ten

(* ... and those of the constants are positive powers of two. *)
LEMMA RadixIs == \A i \in 1 .. 10 : Bits(i) \in Nat /\ Radix[i] = 2 ^ Bits(i) /\ Radix[i] \in Nat /\ Radix[i] > 0
<1>1. \A i \in 1 .. 10 : Bits(i) \in Nat
  BY LimbsAssumption DEF Bits
<1>2. \A i \in 1 .. 10 : 2 ^ Bits(i) \in Nat /\ 2 ^ Bits(i) > 0
  BY <1>1, TwoPower
<1>3. PICK r : r = [i \in 1 .. 10 |-> 2 ^ Bits(i)]
  OBVIOUS
<1>4. \A i \in 1 .. 10 : r[i] = 2 ^ Bits(i) /\ r[i] \in Int
  BY <1>2, <1>3
<1>5. r = [i \in 1 .. 10 |-> r[i]]
  BY <1>3
<1>6. r \o <<>> = r
  BY <1>4, <1>5, TenMade
<1>7. Radix = r
  BY <1>3, <1>6 DEF Radix
<1> QED
  BY <1>1, <1>2, <1>4, <1>7

(* Sums, differences and choices. *)
LEMMA AddTen ==
  ASSUME NEW f \in Ten, NEW g \in Ten
  PROVE  fe_add[f][g] \in Ten /\ fe_sub[f][g] \in Ten /\ fe_neg[f] \in Ten /\ Doubled[f] \in Ten /\ fe_copy[f] \in Ten
<1>1. f \in Fe /\ g \in Fe /\ \A i \in 1 .. 10 : f[i] \in Int /\ g[i] \in Int
  BY TenIs
<1>2. fe_add[f][g] \in Ten
  <2>1. PICK h : h = [i \in 1 .. 10 |-> f[i] + g[i]]
    OBVIOUS
  <2>2. h = [i \in 1 .. 10 |-> h[i]] /\ \A i \in 1 .. 10 : h[i] \in Int
    BY <1>1, <2>1
  <2>3. h \o <<>> \in Ten
    BY <2>2, TenMade
  <2> QED
    BY <1>1, <2>1, <2>3 DEF fe_add
<1>3. fe_sub[f][g] \in Ten
  <2>1. PICK h : h = [i \in 1 .. 10 |-> f[i] - g[i]]
    OBVIOUS
  <2>2. h = [i \in 1 .. 10 |-> h[i]] /\ \A i \in 1 .. 10 : h[i] \in Int
    BY <1>1, <2>1
  <2>3. h \o <<>> \in Ten
    BY <2>2, TenMade
  <2> QED
    BY <1>1, <2>1, <2>3 DEF fe_sub
<1>4. fe_neg[f] \in Ten
  <2>1. PICK h : h = [i \in 1 .. 10 |-> 0 - f[i]]
    OBVIOUS
  <2>2. h = [i \in 1 .. 10 |-> h[i]] /\ \A i \in 1 .. 10 : h[i] \in Int
    BY <1>1, <2>1
  <2>3. h \o <<>> \in Ten
    BY <2>2, TenMade
  <2> QED
    BY <1>1, <2>1, <2>3 DEF fe_neg
<1>5. Doubled[f] \in Ten
  <2>1. PICK h : h = [i \in 1 .. 10 |-> 2 * f[i]]
    OBVIOUS
  <2>2. h = [i \in 1 .. 10 |-> h[i]] /\ \A i \in 1 .. 10 : h[i] \in Int
    BY <1>1, <2>1
  <2>3. h \o <<>> \in Ten
    BY <2>2, TenMade
  <2> QED
    BY <1>1, <2>1, <2>3 DEF Doubled
<1>6. fe_copy[f] \in Ten
  BY <1>1 DEF fe_copy
<1> QED
  BY <1>2, <1>3, <1>4, <1>5, <1>6

(* A conditional move keeps the limbs. *)
LEMMA CmovTen ==
  ASSUME NEW f \in Ten, NEW g \in Ten, NEW b \in {0, 1}
  PROVE  fe_cmov[f][g][b] \in Ten
<1>1. f \in Fe /\ g \in Fe /\ \A i \in 1 .. 10 : f[i] \in Int /\ g[i] \in Int
  BY TenIs
<1>2. PICK h : h = [i \in 1 .. 10 |-> f[i] + b * (g[i] - f[i])]
  OBVIOUS
<1>3. ASSUME NEW i \in 1 .. 10
      PROVE  h[i] \in Int
  <2>1. PICK x \in Int, y \in Int : x = f[i] /\ y = g[i]
    BY <1>1
  <2>2. h[i] = x + b * (y - x)
    BY <1>2, <2>1
  <2>3. b * (y - x) \in Int
    BY b \in Int /\ y - x \in Int
  <2> QED
    BY <2>2, <2>3
<1>4. h = [i \in 1 .. 10 |-> h[i]]
  BY <1>2
<1>5. h \o <<>> \in Ten
  BY <1>3, <1>4, TenMade
<1> QED
  BY <1>1, <1>2, <1>5 DEF fe_cmov

(* 0 and 1. *)
LEMMA ConstantsTen == fe_0 \in Ten /\ fe_1 \in Ten
<1>1. fe_0 \in Ten
  <2>1. PICK h : h = [i \in 1 .. 10 |-> 0]
    OBVIOUS
  <2>2. h = [i \in 1 .. 10 |-> h[i]] /\ \A i \in 1 .. 10 : h[i] \in Int
    BY <2>1
  <2>3. h \o <<>> \in Ten
    BY <2>2, TenMade
  <2> QED
    BY <2>1, <2>3 DEF fe_0
<1>2. fe_1 \in Ten
  <2>1. PICK h : h = [i \in 1 .. 10 |-> IF i = 1 THEN 1 ELSE 0]
    OBVIOUS
  <2>2. h = [i \in 1 .. 10 |-> h[i]] /\ \A i \in 1 .. 10 : h[i] \in Int
    BY <2>1
  <2>3. h \o <<>> \in Ten
    BY <2>2, TenMade
  <2> QED
    BY <2>1, <2>3 DEF fe_1
<1> QED
  BY <1>1, <1>2

(* Carries. *)
PutTwo(h, f, i, v, j, w) == h = [f EXCEPT ![i] = v, ![j] = w]

(* ... and two of them. *)
LEMMA TenPutTwo ==
  ASSUME NEW f \in Ten, NEW i \in 1 .. 10, NEW v \in Int, NEW j \in 1 .. 10, i # j, NEW w \in Int,
         NEW h, PutTwo(h, f, i, v, j, w)
  PROVE  h \in Ten /\ \A k \in 1 .. 10 : h[k] = IF k = i THEN v ELSE IF k = j THEN w ELSE f[k]
<1>1. PICK g : Put(g, f, i, v)
  BY DEF Put
<1>2. g \in Ten /\ \A k \in 1 .. 10 : g[k] = IF k = i THEN v ELSE f[k]
  BY <1>1, TenPut
<1>3. Put(h, g, j, w)
  BY <1>1 DEF Put, PutTwo
<1>4. h \in Ten /\ \A k \in 1 .. 10 : h[k] = IF k = j THEN w ELSE g[k]
  BY <1>2, <1>3, TenPut
<1> QED
  BY <1>2, <1>4

(* What a carry divides and multiplies. *)
LEMMA Quotients ==
  ASSUME NEW x \in Int, NEW i \in 1 .. 10
  PROVE  x \div Radix[i] \in Int /\ \A c \in Int : c * Radix[i] \in Int
<1>1. PICK q \in Nat : q = Radix[i] /\ q > 0
  BY RadixIs
<1>2. x \div q \in Int /\ \A c \in Int : c * q \in Int
  BY <1>1
<1> QED
  BY <1>1, <1>2

(* A carry c from limb i of size q to limb j, times m. *)
Moved(g, h, i, j, c, q, m) == PutTwo(g, h, i, h[i] - c * q, j, h[j] + m * c)

(* A carry from limb i to limb j, ... *)
LEMMA MovedTen ==
  ASSUME NEW h \in Ten, NEW i \in 1 .. 10, NEW j \in 1 .. 10, i # j, NEW c \in Int, NEW q \in Int, NEW m \in Int,
         NEW g, Moved(g, h, i, j, c, q, m)
  PROVE  g \in Ten /\ \A k \in 1 .. 10 : g[k] = IF k = i THEN h[k] - c * q ELSE IF k = j THEN h[k] + m * c ELSE h[k]
<1>1. h[i] \in Int /\ h[j] \in Int
  BY TenIs
<1>2. PICK x \in Int, y \in Int : x = h[i] - c * q /\ y = h[j] + m * c
  <2>1. PICK z \in Int, u \in Int : z = c * q /\ u = m * c
    OBVIOUS
  <2> QED
    BY <1>1, <2>1
<1>3. PutTwo(g, h, i, x, j, y)
  BY <1>2 DEF Moved
<1>4. g \in Ten /\ \A k \in 1 .. 10 : g[k] = IF k = i THEN x ELSE IF k = j THEN y ELSE h[k]
  BY <1>3, TenPutTwo, SMTT(30)
<1> QED
  BY <1>2, <1>4

(* ... which is what Carry does, 19 times from the last to the first, ... *)
LEMMA CarryMoves ==
  ASSUME NEW h \in Ten, NEW i \in 1 .. 10
  PROVE  \E c \in Int : c = (h[i] + Radix[i] \div 2) \div Radix[i]
           /\ Moved(Carry[h][i], h, i, IF i = 10 THEN 1 ELSE i + 1, c, Radix[i], IF i = 10 THEN 19 ELSE 1)
<1>1. h \in Fe /\ \A k \in 1 .. 10 : h[k] \in Int
  BY TenIs
<1>2. PICK c : c = (h[i] + Radix[i] \div 2) \div Radix[i]
  OBVIOUS
<1>3. c \in Int
  <2>1. PICK x \in Int : x = h[i] + Radix[i] \div 2
    <3>1. Radix[i] \div 2 \in Int
      BY RadixIs
    <3> QED
      BY <1>1, <3>1
  <2> QED
    BY <1>2, <2>1, Quotients
<1>4. Carry[h][i] = IF i = 10 THEN [h EXCEPT ![10] = @ - c * Radix[10], ![1] = @ + 19 * c]
                    ELSE [h EXCEPT ![i] = @ - c * Radix[i], ![i + 1] = @ + c]
  BY <1>1, <1>2 DEF Carry
<1>5. CASE i = 10
  <2>1. Carry[h][i] = [h EXCEPT ![i] = h[i] - c * Radix[i], ![1] = h[1] + 19 * c]
    BY <1>1, <1>4, <1>5
  <2> QED
    BY <1>2, <1>3, <1>5, <2>1 DEF Moved, PutTwo
<1>6. CASE i # 10
  <2>1. PICK j \in 1 .. 10 : j = i + 1 /\ j # i
    BY <1>6
  <2>2. 1 * c = c
    BY <1>3
  <2>3. Carry[h][i] = [h EXCEPT ![i] = h[i] - c * Radix[i], ![j] = h[j] + 1 * c]
    BY <1>4, <1>6, <2>1, <2>2
  <2> QED
    BY <1>2, <1>3, <1>6, <2>1, <2>3 DEF Moved, PutTwo
<1> QED
  BY <1>5, <1>6

(* ... leaves ten limbs. *)
LEMMA CarryTen ==
  ASSUME NEW h \in Ten, NEW i \in 1 .. 10
  PROVE  Carry[h][i] \in Ten
<1>1. PICK c \in Int : Moved(Carry[h][i], h, i, IF i = 10 THEN 1 ELSE i + 1, c, Radix[i], IF i = 10 THEN 19 ELSE 1)
  BY CarryMoves
<1>2. PICK j \in 1 .. 10, m \in Int : j = (IF i = 10 THEN 1 ELSE i + 1) /\ m = (IF i = 10 THEN 19 ELSE 1) /\ i # j
  OBVIOUS
<1>3. PICK q \in Int : q = Radix[i]
  BY RadixIs
<1>4. Moved(Carry[h][i], h, i, j, c, q, m)
  BY <1>1, <1>2, <1>3
<1> QED
  BY <1>2, <1>4, MovedTen

(* The limb that meets limb i in the product's limb k. *)
LEMMA PartnerIs == \A k, i \in 1 .. 10 : Partner(k, i) \in 1 .. 10
<1> SUFFICES ASSUME NEW k \in 1 .. 10, NEW i \in 1 .. 10
             PROVE  Partner(k, i) \in 1 .. 10
  OBVIOUS
<1>1. PICK x \in Int : x = k - i
  OBVIOUS
<1>2. x % 10 \in 0 .. 9
  OBVIOUS
<1> QED
  BY <1>1, <1>2 DEF Partner

(* The weights of the products are integers. *)
LEMMA WeightsAre == \A k, i \in 1 .. 10 : Weights[k][i] \in Int
<1>1. PICK n \in Nat : n = 10
  OBVIOUS
<1>2. ASSUME NEW k \in 1 .. n
      PROVE  /\ ([i \in 1 .. 10 |-> Weight(i, ((k - i) % 10) + 1)] \o <<>>) \in Seq(Int)
             /\ \A i \in 1 .. 10 : ([i1 \in 1 .. 10 |-> Weight(i1, ((k - i1) % 10) + 1)] \o <<>>)[i] \in Int
  <2>1. PICK r : r = [i \in 1 .. 10 |-> Weight(i, ((k - i) % 10) + 1)]
    OBVIOUS
  <2>2. \A i \in 1 .. 10 : r[i] \in Int
    BY <2>1 DEF Weight
  <2>3. r = [i \in 1 .. 10 |-> r[i]]
    BY <2>1
  <2>4. r \o <<>> = r /\ r \o <<>> \in Ten
    BY <2>2, <2>3, TenMade
  <2> QED
    BY <2>1, <2>2, <2>4, TenIs
<1>3. PICK w : w = [k \in 1 .. n |-> [i \in 1 .. 10 |-> Weight(i, ((k - i) % 10) + 1)] \o <<>>]
  OBVIOUS
<1>4. w = [k \in 1 .. n |-> w[k]]
  BY <1>3
<1>5. \A k \in 1 .. n : w[k] \in Seq(Int) /\ \A i \in 1 .. 10 : w[k][i] \in Int
  BY <1>2, <1>3
<1>6. w \o <<>> = w
  BY <1>4, <1>5, Tupled
<1>7. Weights = w
  BY <1>1, <1>3, <1>6 DEF Weights
<1> QED
  BY <1>1, <1>5, <1>7

(* Limb k of a product and of a square is the sum of ten terms. *)
ProductTerms(f, g, k) == [i \in 1 .. 10 |-> Weights[k][i] * f[i] * g[Partner(k, i)]]
SquareTerms(f, k) == [i \in 1 .. 10 |-> IF Times(k, i) = 0 THEN 0
                                        ELSE Times(k, i) * Weights[k][i] * f[i] * f[Partner(k, i)]]
SumTo(t, n, x) == \E v : Sums(v, t, n) /\ x = v[n]

(* What terms add up to is an integer. *)
LEMMA SumIs ==
  ASSUME NEW n \in Nat, NEW t, \A i \in 1 .. n : t[i] \in Int, NEW x, SumTo(t, n, x)
  PROVE  x \in Int
<1>1. PICK v : Sums(v, t, n) /\ x = v[n]
  BY DEF SumTo
<1>2. n \in 0 .. n
  OBVIOUS
<1> QED
  BY <1>1, <1>2, SumsAre

(* The terms of a product and of a square are integers. *)
LEMMA TermsAre ==
  ASSUME NEW f \in Ten, NEW g \in Ten, NEW k \in 1 .. 10
  PROVE  \A i \in 1 .. 10 : ProductTerms(f, g, k)[i] \in Int /\ SquareTerms(f, k)[i] \in Int
<1> SUFFICES ASSUME NEW i \in 1 .. 10
             PROVE  ProductTerms(f, g, k)[i] \in Int /\ SquareTerms(f, k)[i] \in Int
  OBVIOUS
<1>1. PICK a \in Int, b \in Int, c \in Int, e \in Int :
        a = Weights[k][i] /\ b = f[i] /\ c = g[Partner(k, i)] /\ e = f[Partner(k, i)]
  BY TenIs, WeightsAre, PartnerIs
<1>2. PICK m \in Int : m = Times(k, i)
  BY DEF Times
<1>3. a * b * c \in Int /\ m * a * b * e \in Int
  OBVIOUS
<1>4. ProductTerms(f, g, k)[i] = a * b * c
  BY <1>1 DEF ProductTerms
<1>5. SquareTerms(f, k)[i] = IF m = 0 THEN 0 ELSE m * a * b * e
  BY <1>1, <1>2 DEF SquareTerms
<1> QED
  BY <1>3, <1>4, <1>5

(* A limb of a product is the sum of its terms, ... *)
LEMMA ProductsAre ==
  ASSUME NEW f \in Ten, NEW g \in Ten
  PROVE  Products[f][g] \in Ten /\ \A k \in 1 .. 10 : SumTo(ProductTerms(f, g, k), 10, Products[f][g][k])
<1>1. PICK n \in Nat : n = 10
  OBVIOUS
<1> DEFINE Is(v, k) == v = [i \in 0 .. 10 |-> IF i = 0 THEN 0 ELSE v[i - 1] + Weights[k][i] * f[i] * g[Partner(k, i)]]
           V(k) == CHOOSE v : Is(v, k)
<1>2. f \in Fe /\ g \in Fe
  BY TenIs
<1>3. Products[f][g] = [k \in 1 .. 10 |-> V(k)[10]] \o <<>>
  BY <1>2 DEF Products
<1>4. ASSUME NEW k \in 1 .. 10
      PROVE  SumTo(ProductTerms(f, g, k), 10, V(k)[10]) /\ V(k)[10] \in Int
  <2>1. \A i \in 1 .. n : ProductTerms(f, g, k)[i] \in Int
    BY <1>1, TermsAre
  <2>2. PICK v : Sums(v, ProductTerms(f, g, k), n)
    BY <2>1, SumsExist
  <2>3. \A v1 : Sums(v1, ProductTerms(f, g, k), n) <=> Is(v1, k)
    <3> SUFFICES ASSUME NEW v1
                 PROVE  Sums(v1, ProductTerms(f, g, k), n) <=> Is(v1, k)
      OBVIOUS
    <3>1. \A i \in 1 .. 10 : ProductTerms(f, g, k)[i] = Weights[k][i] * f[i] * g[Partner(k, i)]
      BY DEF ProductTerms
    <3>2. [i \in 0 .. n |-> IF i = 0 THEN 0 ELSE v1[i - 1] + ProductTerms(f, g, k)[i]]
          = [i \in 0 .. 10 |-> IF i = 0 THEN 0 ELSE v1[i - 1] + Weights[k][i] * f[i] * g[Partner(k, i)]]
      BY <1>1, <3>1
    <3> QED
      BY <3>2 DEF Sums
  <2>4. Is(V(k), k)
    <3>1. \E v1 : Is(v1, k)
      BY <2>2, <2>3
    <3> HIDE DEF Is
    <3> QED
      BY <3>1
  <2> HIDE DEF V, Is
  <2>5. Sums(V(k), ProductTerms(f, g, k), n)
    BY <2>3, <2>4
  <2>6. SumTo(ProductTerms(f, g, k), n, V(k)[n])
    BY <2>5 DEF SumTo
  <2>7. V(k)[n] \in Int
    BY <2>1, <2>6, SumIs
  <2> QED
    BY <1>1, <2>6, <2>7
<1> HIDE DEF V
<1>5. PICK h : h = [k \in 1 .. 10 |-> V(k)[10]]
  OBVIOUS
<1>6. \A k \in 1 .. 10 : h[k] = V(k)[10] /\ h[k] \in Int
  BY <1>4, <1>5
<1>7. h = [k \in 1 .. 10 |-> h[k]]
  BY <1>5
<1>8. h \o <<>> = h /\ h \o <<>> \in Ten
  BY <1>6, <1>7, TenMade
<1>9. Products[f][g] = h
  BY <1>3, <1>5, <1>8
<1> QED
  BY <1>4, <1>6, <1>8, <1>9

(* ... and so is one of a square. *)
LEMMA SquaresAre ==
  ASSUME NEW f \in Ten
  PROVE  Squares[f] \in Ten /\ \A k \in 1 .. 10 : SumTo(SquareTerms(f, k), 10, Squares[f][k])
<1>1. PICK n \in Nat : n = 10
  OBVIOUS
<1> DEFINE Is(v, k) == v = [i \in 0 .. 10 |-> IF i = 0 THEN 0 ELSE IF Times(k, i) = 0 THEN v[i - 1]
                                             ELSE v[i - 1] + Times(k, i) * Weights[k][i] * f[i] * f[Partner(k, i)]]
           V(k) == CHOOSE v : Is(v, k)
<1>2. f \in Fe
  BY TenIs
<1>3. Squares[f] = [k \in 1 .. 10 |-> V(k)[10]] \o <<>>
  BY <1>2 DEF Squares
<1>4. ASSUME NEW k \in 1 .. 10
      PROVE  SumTo(SquareTerms(f, k), 10, V(k)[10]) /\ V(k)[10] \in Int
  <2>1. \A i \in 1 .. n : SquareTerms(f, k)[i] \in Int
    BY <1>1, TermsAre
  <2>2. PICK v : Sums(v, SquareTerms(f, k), n)
    BY <2>1, SumsExist
  <2>3. \A i \in 0 .. n : v[i] \in Int
    BY <2>1, <2>2, SumsAre
  <2>4. \A i \in 1 .. 10 : SquareTerms(f, k)[i] = IF Times(k, i) = 0 THEN 0
                               ELSE Times(k, i) * Weights[k][i] * f[i] * f[Partner(k, i)]
    BY DEF SquareTerms
  <2>5. ASSUME NEW w, \A i \in 0 .. n : w[i] \in Int
        PROVE  [i \in 0 .. n |-> IF i = 0 THEN 0 ELSE w[i - 1] + SquareTerms(f, k)[i]]
               = [i \in 0 .. 10 |-> IF i = 0 THEN 0 ELSE IF Times(k, i) = 0 THEN w[i - 1]
                                    ELSE w[i - 1] + Times(k, i) * Weights[k][i] * f[i] * f[Partner(k, i)]]
    <3>1. \A i \in 1 .. n : w[i - 1] \in Int
      <4>1. \A i \in 1 .. n : i - 1 \in 0 .. n
        OBVIOUS
      <4> QED
        BY <2>5, <4>1
    <3>2. \A i \in 1 .. n : w[i - 1] + 0 = w[i - 1]
      BY <3>1
    <3> QED
      BY <1>1, <2>4, <3>2
  <2>6. Is(v, k)
    BY <2>2, <2>3, <2>5 DEF Sums
  <2>7. Is(V(k), k)
    <3>1. \E v1 : Is(v1, k)
      BY <2>6
    <3> HIDE DEF Is
    <3> QED
      BY <3>1
  <2>8. PICK w : w = V(k)
    OBVIOUS
  <2>9. \A i \in 0 .. n : w[i] = IF i = 0 THEN 0 ELSE IF Times(k, i) = 0 THEN w[i - 1]
                                 ELSE w[i - 1] + Times(k, i) * Weights[k][i] * f[i] * f[Partner(k, i)]
    BY <1>1, <2>7, <2>8
  <2> HIDE DEF V
  <2>10. \A i \in 0 .. n : w[i] \in Int
    <3> DEFINE S == {i \in 0 .. n : w[i] \in Int}
    <3>1. 0 \in S
      BY <2>9
    <3>2. ASSUME NEW i \in 1 .. n, i - 1 \in S
          PROVE  i \in S
      <4>1. w[i - 1] \in Int /\ i \in 0 .. n /\ i # 0
        BY <3>2
      <4>2. Times(k, i) # 0 => w[i] = w[i - 1] + SquareTerms(f, k)[i]
        BY <1>1, <2>4, <2>9, <4>1
      <4>3. Times(k, i) = 0 => w[i] = w[i - 1]
        BY <2>9, <4>1
      <4>4. SquareTerms(f, k)[i] \in Int
        BY <2>1
      <4> QED
        BY <4>1, <4>2, <4>3, <4>4
    <3> HIDE DEF S
    <3>3. 0 .. n \subseteq S
      BY <3>1, <3>2, InductionTo
    <3> QED
      BY <3>3 DEF S
  <2>11. Sums(w, SquareTerms(f, k), n)
    BY <2>5, <2>7, <2>8, <2>10 DEF Sums
  <2> HIDE DEF Is
  <2>12. SumTo(SquareTerms(f, k), n, w[n])
    BY <2>11 DEF SumTo
  <2>13. w[n] \in Int
    BY <2>10
  <2> QED
    BY <1>1, <2>8, <2>12, <2>13
<1> HIDE DEF V
<1>5. PICK h : h = [k \in 1 .. 10 |-> V(k)[10]]
  OBVIOUS
<1>6. \A k \in 1 .. 10 : h[k] = V(k)[10] /\ h[k] \in Int
  BY <1>4, <1>5
<1>7. h = [k \in 1 .. 10 |-> h[k]]
  BY <1>5
<1>8. h \o <<>> = h /\ h \o <<>> \in Ten
  BY <1>6, <1>7, TenMade
<1>9. Squares[f] = h
  BY <1>3, <1>5, <1>8
<1> QED
  BY <1>4, <1>6, <1>8, <1>9

(* Whatever the order of the carries, ... *)
LEMMA CarriesTen ==
  ASSUME NEW h \in Ten, NEW order \in Seq(1 .. 10)
  PROVE  Along(Carry, h, order) \in Ten
<1>1. \A x \in Ten : \A i \in 1 .. 10 : Carry[x][i] \in Ten
  BY CarryTen
<1> QED
  BY <1>1, AlongStays

(* The orders of the carries name limbs. *)
LEMMA OrdersAre == ProductCarries \in Seq(1 .. 10) /\ SmallCarries \in Seq(1 .. 10)
  BY DEF ProductCarries, SmallCarries

(* ... products and squares have ten limbs. *)
LEMMA MulTen ==
  ASSUME NEW f \in Ten, NEW g \in Ten
  PROVE  fe_mul[f][g] \in Ten /\ fe_sq[f] \in Ten /\ fe_sq2[f] \in Ten
<1>1. f \in Fe /\ g \in Fe
  BY TenIs
<1>2. Products[f][g] \in Ten /\ Squares[f] \in Ten
  BY ProductsAre, SquaresAre
<1>3. Doubled[Squares[f]] \in Ten
  BY <1>2, AddTen
<1>4. fe_mul[f][g] = Along(Carry, Products[f][g], ProductCarries) /\ fe_sq[f] = Along(Carry, Squares[f], ProductCarries)
      /\ fe_sq2[f] = Along(Carry, Doubled[Squares[f]], ProductCarries)
  BY <1>1 DEF fe_mul, fe_sq, fe_sq2
<1> QED
  BY <1>2, <1>3, <1>4, CarriesTen, OrdersAre

(* Repeated squares. *)
LEMMA SquaredTen ==
  ASSUME NEW f \in Ten, NEW n \in Nat
  PROVE  Squared(f, n) \in Ten
<1>1. PICK turns : turns = [k \in 1 .. n |-> k]
  OBVIOUS
<1>2. turns \in Seq(Nat)
  BY <1>1
<1>3. PICK step : step = [g \in Fe |-> [k \in Nat |-> fe_sq[g]]]
  OBVIOUS
<1>4. \A x \in Ten : \A k \in Nat : step[x][k] \in Ten
  BY <1>3, TenIs, MulTen
<1>5. Squared(f, n) = Along(step, f, turns)
  BY <1>1, <1>3 DEF Squared
<1> QED
  BY <1>2, <1>4, <1>5, AlongStays

(* The width of the field. *)
LEMMA FieldBitsIs == FieldBits \in Nat /\ FieldBits = 5 * (2 * LimbBits - 1) /\ FieldBits >= 15
  BY LimbsAssumption DEF FieldBits, Offset

(* The chain of inversions: all it uses is reached before. *)
Reaches(known, k) ==
  /\ known \in [1 .. FieldBits -> Fe] /\ known[5] \in Ten
  /\ \A j \in 1 .. k : known[Ladder[j][1] + Ladder[j][2]] \in Ten

(* The chain of inversions as a sequence. *)
LEMMA LadderIs ==
  /\ Ladder \in Seq(Nat \X Nat) /\ Len(Ladder) \in Nat /\ Len(Ladder) > 0
  /\ \A k \in 1 .. Len(Ladder) :
       /\ Ladder[k] \in Nat \X Nat /\ Ladder[k][1] \in Nat /\ Ladder[k][2] \in Nat
       /\ Ladder[k][1] + Ladder[k][2] \in 1 .. FieldBits
       /\ Ladder[k][1] = 5 \/ \E j \in 1 .. (k - 1) : Ladder[k][1] = Ladder[j][1] + Ladder[j][2]
       /\ Ladder[k][2] = 5 \/ \E j \in 1 .. (k - 1) : Ladder[k][2] = Ladder[j][1] + Ladder[j][2]
<1>1. Ladder \in Seq(Nat \X Nat) /\ Ladder # <<>>
  BY LadderAssumption
<1>2. Len(Ladder) \in Nat /\ Len(Ladder) > 0 /\ DOMAIN Ladder = 1 .. Len(Ladder)
  BY <1>1
<1>3. \A k \in 1 .. Len(Ladder) : Ladder[k] \in Nat \X Nat
  BY <1>1
<1>4. \A k \in 1 .. Len(Ladder) : Ladder[k][1] \in Nat /\ Ladder[k][2] \in Nat
  BY <1>3
<1>5. \A k \in 1 .. Len(Ladder) :
       /\ Ladder[k][1] + Ladder[k][2] \in 1 .. FieldBits
       /\ Ladder[k][1] = 5 \/ \E j \in 1 .. (k - 1) : Ladder[k][1] = Ladder[j][1] + Ladder[j][2]
       /\ Ladder[k][2] = 5 \/ \E j \in 1 .. (k - 1) : Ladder[k][2] = Ladder[j][1] + Ladder[j][2]
  BY <1>2, FieldBitsIs, LadderAssumption
<1> QED
  BY <1>1, <1>2, <1>3, <1>4, <1>5

(* A step of the chain. *)
LEMMA RungReaches ==
  ASSUME NEW step, step = [known \in [1 .. FieldBits -> Fe] |-> [step1 \in Nat \X Nat |->
                             [known EXCEPT ![step1[1] + step1[2]] =
                                fe_mul[Squared(known[step1[1]], step1[2])][known[step1[2]]]]]],
         NEW k \in 1 .. Len(Ladder), NEW known, Reaches(known, k - 1)
  PROVE  Reaches(step[known][Ladder[k]], k)
<1>1. PICK m \in Nat, n \in Nat : m = Ladder[k][1] /\ n = Ladder[k][2] /\ m + n \in 1 .. FieldBits
                                 /\ Ladder[k] \in Nat \X Nat
  BY LadderIs
<1>2. known[m] \in Ten /\ known[n] \in Ten
  BY <1>1, LadderIs DEF Reaches
<1>3. PICK v \in Ten : v = fe_mul[Squared(known[m], n)][known[n]]
  BY <1>2, SquaredTen, MulTen
<1>4. known \in [1 .. FieldBits -> Fe]
  BY DEF Reaches
<1>5. step[known][Ladder[k]] = [known EXCEPT ![m + n] = v]
  BY <1>1, <1>3, <1>4
<1>6. PICK g : g = [known EXCEPT ![m + n] = v]
  OBVIOUS
<1>7. v \in Fe
  BY TenIs
<1>8. g \in [1 .. FieldBits -> Fe] /\ \A i \in 1 .. FieldBits : g[i] = IF i = m + n THEN v ELSE known[i]
  BY <1>1, <1>4, <1>6, <1>7
<1>9. 5 \in 1 .. FieldBits /\ known[5] \in Ten
  BY FieldBitsIs DEF Reaches
<1>10. \A j \in 1 .. k : g[Ladder[j][1] + Ladder[j][2]] \in Ten
  <2> SUFFICES ASSUME NEW j \in 1 .. k
               PROVE  g[Ladder[j][1] + Ladder[j][2]] \in Ten
    OBVIOUS
  <2>1. PICK i \in 1 .. FieldBits : i = Ladder[j][1] + Ladder[j][2]
    <3>1. j \in 1 .. Len(Ladder)
      BY LadderIs
    <3> QED
      BY <3>1, LadderIs
  <2>2. CASE j = k
    BY <1>1, <1>8, <2>1, <2>2
  <2>3. CASE j # k
    <3>1. j \in 1 .. k - 1
      BY <2>3, LadderIs
    <3>2. known[i] \in Ten
      BY <2>1, <3>1 DEF Reaches
    <3> QED
      BY <1>8, <2>1, <3>2
  <2> QED
    BY <2>2, <2>3
<1>11. g[5] \in Ten
  BY <1>8, <1>9
<1> QED
  BY <1>5, <1>6, <1>8, <1>10, <1>11 DEF Reaches

(* An inverse has ten limbs. *)
LEMMA InvertTen ==
  ASSUME NEW z \in Ten
  PROVE  fe_invert[z] \in Ten
<1>1. z9(z) \in Ten /\ z11(z) \in Ten /\ z31(z) \in Ten
  <2>1. z9(z) \in Ten
    <3>1. PICK n \in Nat : n = 3
      OBVIOUS
    <3>2. Squared(z, n) \in Ten
      BY SquaredTen
    <3> QED
      BY <3>1, <3>2, MulTen DEF z9
  <2>2. z11(z) \in Ten
    BY <2>1, MulTen DEF z11
  <2> QED
    BY <2>1, <2>2, MulTen DEF z31
<1>2. PICK step : step = [known \in [1 .. FieldBits -> Fe] |-> [step1 \in Nat \X Nat |->
                             [known EXCEPT ![step1[1] + step1[2]] =
                                fe_mul[Squared(known[step1[1]], step1[2])][known[step1[2]]]]]]
  OBVIOUS
<1>3. PICK start : start = [n \in 1 .. FieldBits |-> IF n = 5 THEN z31(z) ELSE <<>>]
  OBVIOUS
<1>4. \A n \in 1 .. FieldBits : start[n] \in Fe
  <2>1. PICK e : e = <<>> /\ e \in Fe
    <3>1. <<>> \in Seq(Int)
      OBVIOUS
    <3> QED
      BY <3>1 DEF Fe
  <2>2. z31(z) \in Fe
    BY <1>1, TenIs
  <2> QED
    BY <1>3, <2>1, <2>2
<1>5. start = [n \in 1 .. FieldBits |-> start[n]]
  BY <1>3
<1>6. start \o <<>> = start
  BY <1>4, <1>5, FieldBitsIs, Tupled
<1>7. Ones(z) = Along(step, start, Ladder)
  BY <1>2, <1>3, <1>6 DEF Ones
<1>8. Reaches(start, 0)
  <2>1. start \in [1 .. FieldBits -> Fe]
    BY <1>4, <1>5
  <2>2. 5 \in 1 .. FieldBits
    BY FieldBitsIs
  <2>3. start[5] = z31(z)
    BY <1>3, <2>2
  <2> QED
    BY <1>1, <2>1, <2>3 DEF Reaches
<1> DEFINE J == [k \in 0 .. Len(Ladder) |-> {known \in [1 .. FieldBits -> Fe] : Reaches(known, k)}]
<1>9. \A k \in 0 .. Len(Ladder) : \A known : known \in J[k] <=> Reaches(known, k)
  BY DEF Reaches
<1> HIDE DEF J
<1>10. Len(Ladder) \in Nat /\ Ladder \in Seq(Nat \X Nat) /\ Len(Ladder) > 0
  BY LadderIs
<1>11. start \in J[0]
  BY <1>8, <1>9, <1>10
<1>12. \A k \in 1 .. Len(Ladder) : \A known \in J[k - 1] : step[known][Ladder[k]] \in J[k]
  <2> SUFFICES ASSUME NEW k \in 1 .. Len(Ladder), NEW known \in J[k - 1]
               PROVE  step[known][Ladder[k]] \in J[k]
    OBVIOUS
  <2>1. k - 1 \in 0 .. Len(Ladder) /\ k \in 0 .. Len(Ladder)
    BY <1>10
  <2>2. Reaches(known, k - 1)
    BY <1>9, <2>1
  <2>3. Reaches(step[known][Ladder[k]], k)
    BY <1>2, <2>2, RungReaches
  <2> QED
    BY <1>9, <2>1, <2>3
<1>13. Ones(z) \in J[Len(Ladder)]
  BY <1>7, <1>10, <1>11, <1>12, AlongInvariant
<1>14. Reaches(Ones(z), Len(Ladder))
  <2>1. Len(Ladder) \in 0 .. Len(Ladder)
    BY <1>10
  <2> QED
    BY <1>9, <1>13, <2>1
<1>15. LongOnes(z) \in Ten
  BY <1>10, <1>14 DEF LongOnes, Reaches
<1>16. Squared(LongOnes(z), 5) \in Ten
  <2>1. PICK n \in Nat : n = 5
    OBVIOUS
  <2>2. Squared(LongOnes(z), n) \in Ten
    BY <1>15, SquaredTen
  <2> QED
    BY <2>1, <2>2
<1>17. fe_invert[z] = fe_mul[Squared(LongOnes(z), 5)][z11(z)]
  BY TenIs DEF fe_invert
<1> QED
  BY <1>1, <1>16, <1>17, MulTen

(* The estimate of the quotient is a number. *)
LEMMA QuotientIs == ASSUME NEW h \in Ten PROVE Quotient(h) \in Int
<1>1. PICK n \in Nat : n = 10
  OBVIOUS
<1>2. PICK q0 : q0 = (19 * h[10] + Radix[10] \div 2) \div Radix[10]
  OBVIOUS
<1>3. q0 \in Int
  <2>1. PICK x \in Int : x = 19 * h[10] + Radix[10] \div 2
    <3>1. h[10] \in Int /\ Radix[10] \div 2 \in Int
      <4>1. PICK i \in 1 .. 10 : i = 10
        OBVIOUS
      <4>2. h[i] \in Int
        BY TenIs
      <4>3. Radix[i] \in Nat
        BY RadixIs
      <4> QED
        BY <4>1, <4>2, <4>3
    <3> QED
      BY <3>1
  <2>2. PICK i \in 1 .. 10 : i = 10
    OBVIOUS
  <2> QED
    BY <1>2, <2>1, <2>2, Quotients
<1>4. ASSUME NEW x \in Int, NEW i \in 1 .. 10
      PROVE  (h[i] + x) \div Radix[i] \in Int
  <2>1. PICK y \in Int : y = h[i] + x
    <3>1. h[i] \in Int
      BY TenIs
    <3> QED
      BY <3>1
  <2> QED
    BY <2>1, Quotients
<1> DEFINE Is(q) == q = [i \in 0 .. 10 |-> IF i = 0 THEN (19 * h[10] + Radix[10] \div 2) \div Radix[10]
                                          ELSE (h[i] + q[i - 1]) \div Radix[i]]
<1>5. \E q : Is(q)
  <2>1. PICK step : step = [x \in Int |-> [i \in Nat |-> (h[i] + x) \div Radix[i]]]
    OBVIOUS
  <2>2. PICK s : s = [i \in 1 .. n |-> i]
    OBVIOUS
  <2>3. PICK v : Runs(v, step, q0, s, n)
    BY RunExists
  <2>4. \A k \in 0 .. n : v[k] = IF k = 0 THEN q0 ELSE step[v[k - 1]][s[k]]
    BY <2>3 DEF Runs
  <2>5. v = [k \in 0 .. n |-> v[k]]
    BY <2>3 DEF Runs
  <2> DEFINE S == {k \in 0 .. n : v[k] \in Int /\ (k > 0 => v[k] = (h[k] + v[k - 1]) \div Radix[k])}
  <2>6. 0 \in S
    BY <1>3, <2>4
  <2>7. ASSUME NEW k \in 1 .. n, k - 1 \in S
        PROVE  k \in S
    <3>1. PICK x \in Int : x = v[k - 1]
      BY <2>7
    <3>2. k \in 0 .. n /\ k # 0 /\ s[k] = k /\ k \in Nat
      BY <2>2
    <3>3. v[k] = step[x][k]
      BY <2>4, <3>1, <3>2
    <3>4. v[k] = (h[k] + x) \div Radix[k]
      BY <2>1, <3>2, <3>3
    <3> QED
      BY <1>1, <1>4, <3>1, <3>2, <3>4
  <2> HIDE DEF S
  <2>8. 0 .. n \subseteq S
    BY <2>6, <2>7, InductionTo
  <2>9. \A k \in 0 .. n : v[k] = IF k = 0 THEN q0 ELSE (h[k] + v[k - 1]) \div Radix[k]
    BY <2>4, <2>8 DEF S
  <2>10. v = [k \in 0 .. n |-> IF k = 0 THEN q0 ELSE (h[k] + v[k - 1]) \div Radix[k]]
    BY <2>5, <2>9
  <2> QED
    BY <1>1, <1>2, <2>10
<1> DEFINE q == CHOOSE q : Is(q)
<1>6. Is(q)
  <2> HIDE DEF Is
  <2> QED
    BY <1>5
<1>7. Quotient(h) = q[10]
  BY DEF Quotient
<1> HIDE DEF q
<1>8. \A k \in 0 .. n : q[k] = IF k = 0 THEN q0 ELSE (h[k] + q[k - 1]) \div Radix[k]
  BY <1>1, <1>2, <1>6
<1> HIDE DEF Is
<1> DEFINE S == {k \in 0 .. n : q[k] \in Int}
<1>9. 0 \in S
  BY <1>3, <1>8
<1>10. ASSUME NEW k \in 1 .. n, k - 1 \in S
       PROVE  k \in S
  <2>1. PICK x \in Int : x = q[k - 1]
    BY <1>10
  <2> QED
    <3>1. k \in 1 .. 10 /\ k \in 0 .. n /\ k # 0
      BY <1>1
    <3>2. q[k] = (h[k] + x) \div Radix[k]
      BY <1>8, <2>1, <3>1
    <3> QED
      BY <1>4, <3>1, <3>2
<1> HIDE DEF S
<1>11. 0 .. n \subseteq S
  BY <1>9, <1>10, InductionTo
<1>12. n \in 0 .. n
  OBVIOUS
<1> QED
  BY <1>1, <1>7, <1>11, <1>12 DEF S

(* What a carry without rounding leaves is below the limb's size. *)
LEMMA Remainder ==
  ASSUME NEW x \in Int, NEW q \in Nat, q > 0
  PROVE  x - (x \div q) * q \in Nat /\ x - (x \div q) * q < q /\ x - (x \div q) * q = x % q
<1>1. x \div q \in Int /\ (x % q) \in 0 .. q - 1
  BY SMT
<1>2. x = q * (x \div q) + (x % q)
  BY SMT
<1>3. PICK c \in Int, r \in Int : c = x \div q /\ r = x % q
  BY <1>1
<1>4. q * c = c * q /\ c * q \in Int
  OBVIOUS
<1> QED
  BY <1>1, <1>2, <1>3, <1>4

(* A carry without rounding leaves its limb between 0 and the radix. *)
LEMMA FloorTen ==
  ASSUME NEW h \in Ten, NEW i \in 1 .. 10
  PROVE  FloorCarry[h][i] \in Ten /\ FloorCarry[h][i][i] \in Nat /\ FloorCarry[h][i][i] < Radix[i]
         /\ \A k \in 1 .. i - 1 : FloorCarry[h][i][k] = h[k]
<1>1. h \in Fe /\ \A k \in 1 .. 10 : h[k] \in Int
  BY TenIs
<1>2. PICK q \in Nat : q = Radix[i] /\ q > 0
  BY RadixIs
<1>3. PICK c \in Int, x \in Int : x = h[i] /\ c = x \div q
  BY <1>1, <1>2
<1>4. x - c * q \in Nat /\ x - c * q < q
  BY <1>2, <1>3, Remainder
<1>5. FloorCarry[h][i] = IF i = 10 THEN [h EXCEPT ![10] = @ - c * Radix[10]]
                         ELSE [h EXCEPT ![i] = @ - c * Radix[i], ![i + 1] = @ + c]
  BY <1>1, <1>2, <1>3 DEF FloorCarry
<1>6. CASE i = 10
  <2>1. PICK v \in Int : v = x - c * q
    BY <1>4
  <2>2. Put(FloorCarry[h][i], h, i, v)
    BY <1>2, <1>3, <1>5, <1>6, <2>1 DEF Put
  <2>3. FloorCarry[h][i] \in Ten /\ \A k \in 1 .. 10 : FloorCarry[h][i][k] = IF k = i THEN v ELSE h[k]
    BY <2>2, TenPut
  <2> QED
    BY <1>2, <1>4, <1>6, <2>1, <2>3
<1>7. CASE i # 10
  <2>1. PICK j \in 1 .. 10, m \in Int : j = i + 1 /\ j # i /\ m = 1 /\ m * c = c
    BY <1>7
  <2>2. FloorCarry[h][i] = [h EXCEPT ![i] = h[i] - c * q, ![j] = h[j] + m * c]
    BY <1>2, <1>5, <1>7, <2>1
  <2>3. Moved(FloorCarry[h][i], h, i, j, c, q, m)
    BY <2>2 DEF Moved, PutTwo
  <2>4. FloorCarry[h][i] \in Ten /\ \A k \in 1 .. 10 : FloorCarry[h][i][k] = IF k = i THEN h[k] - c * q
                                                          ELSE IF k = j THEN h[k] + m * c ELSE h[k]
    BY <2>1, <2>3, MovedTen
  <2>5. \A k \in 1 .. i - 1 : k \in 1 .. 10 /\ k # i /\ k # j
    BY <2>1
  <2> QED
    BY <1>2, <1>3, <1>4, <2>4, <2>5
<1> QED
  BY <1>6, <1>7

-----------------------------------------------------------------------------
(* Strings of bits. *)

(* Strings of bits. *)
BitString(n) == {s \in Seq({0, 1}) : Len(s) = n}

(* The bits of a string. *)
LEMMA BitStringIs ==
  ASSUME NEW n \in Nat, NEW s \in BitString(n)
  PROVE  s \in Seq({0, 1}) /\ s \in Seq(Int) /\ s \in Fe /\ Len(s) = n /\ \A i \in 1 .. n : s[i] \in {0, 1}
<1>1. s \in Seq({0, 1}) /\ Len(s) = n
  BY DEF BitString
<1>2. \A i \in 1 .. n : s[i] \in {0, 1}
  BY <1>1
<1>3. s \in [1 .. n -> Int]
  BY <1>1
<1> QED
  BY <1>1, <1>2, <1>3 DEF Fe

(* Strings join to longer ones, ... *)
LEMMA BitStringJoined ==
  ASSUME NEW n \in Nat, NEW m \in Nat, NEW s \in BitString(n), NEW t \in BitString(m)
  PROVE  s \o t \in BitString(n + m)
<1>1. s \in Seq({0, 1}) /\ Len(s) = n /\ t \in Seq({0, 1}) /\ Len(t) = m
  BY DEF BitString
<1>2. s \o t \in Seq({0, 1}) /\ Len(s \o t) = n + m
  BY <1>1, ConcatProperties
<1> QED
  BY <1>2 DEF BitString

Joins(r, s, t) == r = s \o t

(* ... under any name. *)
LEMMA BitsJoined ==
  ASSUME NEW n \in Nat, NEW m \in Nat, NEW s \in BitString(n), NEW t \in BitString(m), NEW r, Joins(r, s, t)
  PROVE  r \in BitString(n + m)
  BY BitStringJoined DEF Joins

(* The low bits of a number. *)
LEMMA BitsOfIs ==
  ASSUME NEW x \in Nat, NEW n \in Nat
  PROVE  BitsOf[x][n] \in BitString(n)
<1>1. PICK f : f = [k \in 1 .. n |-> IF k > 30 THEN 0 ELSE (x \div 2 ^ (k - 1)) % 2]
  OBVIOUS
<1>2. ASSUME NEW k \in 1 .. n
      PROVE  f[k] \in {0, 1}
  <2>1. CASE k > 30
    BY <1>1, <2>1
  <2>2. CASE ~(k > 30)
    <3>1. k - 1 \in Nat
      OBVIOUS
    <3>2. PICK q \in Nat : q = 2 ^ (k - 1) /\ q > 0
      BY <3>1, TwoPower
    <3>3. PICK y \in Int : y = x \div q
      BY <3>2
    <3>4. f[k] = y % 2
      BY <1>1, <2>2, <3>2, <3>3
    <3> QED
      BY <3>4
  <2> QED
    BY <2>1, <2>2
<1>3. f = [k \in 1 .. n |-> f[k]]
  BY <1>1
<1>4. f \o <<>> = f /\ f \in Seq({0, 1}) /\ Len(f) = n
  BY <1>2, <1>3, Tupled
<1>5. BitsOf[x][n] = f
  BY <1>1, <1>4 DEF BitsOf
<1> QED
  BY <1>4, <1>5 DEF BitString

(* The limbs hold the bits of the field. *)
LEMMA TotalBits ==
  Bits(1) + Bits(2) + Bits(3) + Bits(4) + Bits(5) + Bits(6) + Bits(7) + Bits(8) + Bits(9) + Bits(10) = FieldBits
<1>1. FieldBits = 5 * (2 * LimbBits - 1) /\ LimbBits \in Nat
  BY FieldBitsIs, LimbsAssumption
<1>2. Bits(1) = LimbBits /\ Bits(3) = LimbBits /\ Bits(5) = LimbBits /\ Bits(7) = LimbBits /\ Bits(9) = LimbBits
  BY <1>1 DEF Bits
<1>3. Bits(2) = LimbBits - 1 /\ Bits(4) = LimbBits - 1 /\ Bits(6) = LimbBits - 1
      /\ Bits(8) = LimbBits - 1 /\ Bits(10) = LimbBits - 1
  BY <1>1 DEF Bits
<1> QED
  BY <1>1, <1>2, <1>3

Natural(h) == h \in Ten /\ \A i \in 1 .. 10 : h[i] \in Nat

(* Natural limbs pack into a string. *)
LEMMA PackedIs ==
  ASSUME NEW h, Natural(h)
  PROVE  Packed[h] \in BitString(StringBits)
<1>1. h \in Fe /\ h \in Ten
  BY TenIs DEF Natural
<1>2. \A i \in 1 .. 10 : BitsOf[h[i]][Bits(i)] \in BitString(Bits(i)) /\ Bits(i) \in Nat
  <2> SUFFICES ASSUME NEW i \in 1 .. 10
               PROVE  BitsOf[h[i]][Bits(i)] \in BitString(Bits(i)) /\ Bits(i) \in Nat
    OBVIOUS
  <2>1. PICK x \in Nat, n \in Nat : x = h[i] /\ n = Bits(i)
    BY RadixIs DEF Natural
  <2> QED
    BY <2>1, BitsOfIs
<1>3. PICK b \in [1 .. 10 -> Nat] : \A i \in 1 .. 10 : b[i] = Bits(i)
  <2>1. PICK b : b = [i \in 1 .. 10 |-> Bits(i)]
    OBVIOUS
  <2> QED
    BY <1>2, <2>1
<1>4. PICK s : s = [i \in 1 .. 10 |-> BitsOf[h[i]][Bits(i)]]
  OBVIOUS
<1>5. \A i \in 1 .. 10 : s[i] \in BitString(b[i]) /\ b[i] \in Nat
  BY <1>2, <1>3, <1>4
<1>6. PICK n1 \in Nat : n1 = b[1] /\ s[1] \in BitString(n1)
  BY <1>5
<1>7. PICK t1 : t1 = s[1]
  OBVIOUS
<1>8. PICK t2 : Joins(t2, t1, s[2])
  BY DEF Joins
<1>9. PICK n2 \in Nat : n2 = n1 + b[2] /\ t2 \in BitString(n2)
  <2>1. PICK m \in Nat : m = b[2] /\ s[2] \in BitString(m)
    BY <1>5
  <2>2. t1 \in BitString(n1)
    BY <1>6, <1>7
  <2>3. t2 \in BitString(n1 + m)
    BY <1>8, <2>1, <2>2, BitsJoined
  <2> QED
    BY <2>1, <2>3
<1>10. PICK t3 : Joins(t3, t2, s[3])
  BY DEF Joins
<1>11. PICK n3 \in Nat : n3 = n2 + b[3] /\ t3 \in BitString(n3)
  <2>1. PICK m \in Nat : m = b[3] /\ s[3] \in BitString(m)
    BY <1>5
  <2>2. t2 \in BitString(n2)
    BY <1>9
  <2>3. t3 \in BitString(n2 + m)
    BY <1>10, <2>1, <2>2, BitsJoined
  <2> QED
    BY <2>1, <2>3
<1>12. PICK t4 : Joins(t4, t3, s[4])
  BY DEF Joins
<1>13. PICK n4 \in Nat : n4 = n3 + b[4] /\ t4 \in BitString(n4)
  <2>1. PICK m \in Nat : m = b[4] /\ s[4] \in BitString(m)
    BY <1>5
  <2>2. t3 \in BitString(n3)
    BY <1>11
  <2>3. t4 \in BitString(n3 + m)
    BY <1>12, <2>1, <2>2, BitsJoined
  <2> QED
    BY <2>1, <2>3
<1>14. PICK t5 : Joins(t5, t4, s[5])
  BY DEF Joins
<1>15. PICK n5 \in Nat : n5 = n4 + b[5] /\ t5 \in BitString(n5)
  <2>1. PICK m \in Nat : m = b[5] /\ s[5] \in BitString(m)
    BY <1>5
  <2>2. t4 \in BitString(n4)
    BY <1>13
  <2>3. t5 \in BitString(n4 + m)
    BY <1>14, <2>1, <2>2, BitsJoined
  <2> QED
    BY <2>1, <2>3
<1>16. PICK t6 : Joins(t6, t5, s[6])
  BY DEF Joins
<1>17. PICK n6 \in Nat : n6 = n5 + b[6] /\ t6 \in BitString(n6)
  <2>1. PICK m \in Nat : m = b[6] /\ s[6] \in BitString(m)
    BY <1>5
  <2>2. t5 \in BitString(n5)
    BY <1>15
  <2>3. t6 \in BitString(n5 + m)
    BY <1>16, <2>1, <2>2, BitsJoined
  <2> QED
    BY <2>1, <2>3
<1>18. PICK t7 : Joins(t7, t6, s[7])
  BY DEF Joins
<1>19. PICK n7 \in Nat : n7 = n6 + b[7] /\ t7 \in BitString(n7)
  <2>1. PICK m \in Nat : m = b[7] /\ s[7] \in BitString(m)
    BY <1>5
  <2>2. t6 \in BitString(n6)
    BY <1>17
  <2>3. t7 \in BitString(n6 + m)
    BY <1>18, <2>1, <2>2, BitsJoined
  <2> QED
    BY <2>1, <2>3
<1>20. PICK t8 : Joins(t8, t7, s[8])
  BY DEF Joins
<1>21. PICK n8 \in Nat : n8 = n7 + b[8] /\ t8 \in BitString(n8)
  <2>1. PICK m \in Nat : m = b[8] /\ s[8] \in BitString(m)
    BY <1>5
  <2>2. t7 \in BitString(n7)
    BY <1>19
  <2>3. t8 \in BitString(n7 + m)
    BY <1>20, <2>1, <2>2, BitsJoined
  <2> QED
    BY <2>1, <2>3
<1>22. PICK t9 : Joins(t9, t8, s[9])
  BY DEF Joins
<1>23. PICK n9 \in Nat : n9 = n8 + b[9] /\ t9 \in BitString(n9)
  <2>1. PICK m \in Nat : m = b[9] /\ s[9] \in BitString(m)
    BY <1>5
  <2>2. t8 \in BitString(n8)
    BY <1>21
  <2>3. t9 \in BitString(n8 + m)
    BY <1>22, <2>1, <2>2, BitsJoined
  <2> QED
    BY <2>1, <2>3
<1>24. PICK t10 : Joins(t10, t9, s[10])
  BY DEF Joins
<1>25. PICK n10 \in Nat : n10 = n9 + b[10] /\ t10 \in BitString(n10)
  <2>1. PICK m \in Nat : m = b[10] /\ s[10] \in BitString(m)
    BY <1>5
  <2>2. t9 \in BitString(n9)
    BY <1>23
  <2>3. t10 \in BitString(n9 + m)
    BY <1>24, <2>1, <2>2, BitsJoined
  <2> QED
    BY <2>1, <2>3
<1>26. n10 = FieldBits
  BY <1>3, <1>6, <1>9, <1>11, <1>13, <1>15, <1>17, <1>19, <1>21, <1>23, <1>25, TotalBits
<1>27. PICK z : z = <<0>>
  OBVIOUS
<1>28. PICK one \in Nat : one = 1 /\ z \in BitString(one)
  <2>1. z \in Seq({0, 1}) /\ Len(z) = 1
    BY <1>27
  <2> QED
    BY <2>1 DEF BitString
<1>29. PICK r : Joins(r, t10, z)
  BY DEF Joins
<1>30. r \in BitString(n10 + one)
  BY <1>25, <1>28, <1>29, BitsJoined
<1>31. Packed[h] = r
  <2>1. Packed[h] = BitsOf[h[1]][Bits(1)] \o BitsOf[h[2]][Bits(2)] \o BitsOf[h[3]][Bits(3)] \o BitsOf[h[4]][Bits(4)] \o BitsOf[h[5]][Bits(5)]
                    \o BitsOf[h[6]][Bits(6)] \o BitsOf[h[7]][Bits(7)] \o BitsOf[h[8]][Bits(8)] \o BitsOf[h[9]][Bits(9)] \o BitsOf[h[10]][Bits(10)] \o <<0>>
    BY <1>1 DEF Packed
  <2>2. Packed[h] = s[1] \o s[2] \o s[3] \o s[4] \o s[5] \o s[6] \o s[7] \o s[8] \o s[9] \o s[10] \o z
    <3>1. /\ s[1] = BitsOf[h[1]][Bits(1)] /\ s[2] = BitsOf[h[2]][Bits(2)] /\ s[3] = BitsOf[h[3]][Bits(3)]
          /\ s[4] = BitsOf[h[4]][Bits(4)] /\ s[5] = BitsOf[h[5]][Bits(5)] /\ s[6] = BitsOf[h[6]][Bits(6)]
          /\ s[7] = BitsOf[h[7]][Bits(7)] /\ s[8] = BitsOf[h[8]][Bits(8)]
          /\ s[9] = BitsOf[h[9]][Bits(9)] /\ s[10] = BitsOf[h[10]][Bits(10)]
      BY <1>4
    <3> QED
      BY <1>27, <2>1, <3>1, Zenon
  <2> QED
    BY <1>7, <1>8, <1>10, <1>12, <1>14, <1>16, <1>18, <1>20, <1>22, <1>24, <1>29, <2>2 DEF Joins
<1> QED
  BY <1>26, <1>28, <1>30, <1>31 DEF StringBits

(* The carries without rounding leave natural limbs, ... *)
LEMMA ReducedIs ==
  ASSUME NEW h \in Ten
  PROVE  Natural(Reduced(h))
<1>1. PICK n \in Nat : n = 10
  OBVIOUS
<1>2. PICK start \in Ten : start = [h EXCEPT ![1] = @ + 19 * Quotient(h)]
  <2>1. PICK i \in 1 .. 10 : i = 1
    OBVIOUS
  <2>2. PICK v \in Int : v = h[i] + 19 * Quotient(h)
    <3>1. h[i] \in Int /\ Quotient(h) \in Int
      BY TenIs, QuotientIs
    <3> QED
      BY <3>1
  <2>3. PICK g : g = [h EXCEPT ![1] = @ + 19 * Quotient(h)]
    OBVIOUS
  <2>4. Put(g, h, i, v)
    BY <2>1, <2>2, <2>3 DEF Put
  <2>5. g \in Ten
    BY <2>4, TenPut
  <2> QED
    BY <2>3, <2>5
<1>3. PICK order : order = <<1, 2, 3, 4, 5, 6, 7, 8, 9, 10>>
  OBVIOUS
<1>4. order \in Seq(1 .. 10) /\ Len(order) = n /\ \A k \in 1 .. n : order[k] = k
  <2>1. order \in Seq(1 .. 10) /\ Len(order) = 10
    BY <1>3
  <2>2. ASSUME NEW k \in 1 .. 10
        PROVE  order[k] = k
    <3>1. k = 1 \/ k = 2 \/ k = 3 \/ k = 4 \/ k = 5 \/ k = 6 \/ k = 7 \/ k = 8 \/ k = 9 \/ k = 10
      OBVIOUS
    <3> QED
      BY <1>3, <3>1
  <2> QED
    BY <1>1, <2>1, <2>2
<1>5. Reduced(h) = Along(FloorCarry, start, order)
  BY <1>2, <1>3 DEF Reduced
<1> DEFINE J == [k \in 0 .. n |-> {f \in Ten : \A i \in 1 .. k : f[i] \in Nat}]
<1>6. \A k \in 0 .. n : J[k] = {f \in Ten : \A i \in 1 .. k : f[i] \in Nat}
  OBVIOUS
<1> HIDE DEF J
<1>7. start \in J[0]
  BY <1>6
<1>8. \A k \in 1 .. Len(order) : \A f \in J[k - 1] : FloorCarry[f][order[k]] \in J[k]
  <2> SUFFICES ASSUME NEW k \in 1 .. n, NEW f \in J[k - 1]
               PROVE  FloorCarry[f][k] \in J[k]
    BY <1>4
  <2>1. k - 1 \in 0 .. n /\ k \in 0 .. n /\ k \in 1 .. 10
    BY <1>1
  <2>2. f \in Ten /\ \A i \in 1 .. k - 1 : f[i] \in Nat
    BY <1>6, <2>1
  <2>3. FloorCarry[f][k] \in Ten /\ FloorCarry[f][k][k] \in Nat /\ \A i \in 1 .. k - 1 : FloorCarry[f][k][i] = f[i]
    BY <2>1, <2>2, FloorTen
  <2>4. \A i \in 1 .. k : FloorCarry[f][k][i] \in Nat
    BY <2>2, <2>3
  <2> QED
    BY <1>6, <2>1, <2>3, <2>4
<1>9. Along(FloorCarry, start, order) \in J[Len(order)]
  BY <1>7, <1>8, <1>4, AlongInvariant
<1> QED
  BY <1>1, <1>5, <1>6, <1>9, <1>4 DEF Natural

(* ... so that a field element is a string of bits. *)
LEMMA ToBytesIs ==
  ASSUME NEW h \in Ten
  PROVE  fe_tobytes[h] \in BitString(StringBits) /\ fe_isnegative(h) \in {0, 1} /\ StringBits \in Nat /\ StringBits > 15
<1>1. Natural(Reduced(h))
  BY ReducedIs
<1>2. fe_tobytes[h] = Packed[Reduced(h)]
  BY TenIs DEF fe_tobytes
<1>3. StringBits \in Nat /\ StringBits > 15
  BY FieldBitsIs DEF StringBits
<1>4. fe_tobytes[h] \in BitString(StringBits)
  BY <1>1, <1>2, PackedIs
<1>5. PICK i \in 1 .. StringBits : i = 1
  BY <1>3
<1>6. fe_tobytes[h][i] \in {0, 1}
  BY <1>3, <1>4, BitStringIs
<1> QED
  BY <1>3, <1>4, <1>5, <1>6 DEF fe_isnegative

(* Points whose coordinates have ten limbs. *)
P2     == [X : Ten, Y : Ten, Z : Ten]
P3     == [X : Ten, Y : Ten, Z : Ten, T : Ten]
Cached == [YplusX : Ten, YminusX : Ten, Z : Ten, T2d : Ten]
Pre    == [yplusx : Ten, yminusx : Ten, xy2d : Ten]

(* They are among those of the model, ... *)
LEMMA PointsAre == P2 \subseteq ge_p2 /\ P3 \subseteq ge_p3 /\ P3 \subseteq ge_p1p1 /\ Cached \subseteq ge_cached
                   /\ Pre \subseteq ge_precomp
<1>1. Ten \subseteq Fe
  BY TenIs
<1> QED
  BY <1>1 DEF P2, P3, Cached, Pre, ge_p2, ge_p3, ge_p1p1, ge_cached, ge_precomp

(* ... and these are their coordinates. *)
LEMMA CoordinatesAre ==
  /\ \A p \in P2 : p.X \in Ten /\ p.Y \in Ten /\ p.Z \in Ten
  /\ \A p \in P3 : p.X \in Ten /\ p.Y \in Ten /\ p.Z \in Ten /\ p.T \in Ten
  /\ \A p \in Cached : p.YplusX \in Ten /\ p.YminusX \in Ten /\ p.Z \in Ten /\ p.T2d \in Ten
  /\ \A p \in Pre : p.yplusx \in Ten /\ p.yminusx \in Ten /\ p.xy2d \in Ten
  BY DEF P2, P3, Cached, Pre

(* The conversions keep the limbs. *)
LEMMA ConversionsAre ==
  ASSUME NEW p \in P3
  PROVE  ge_p1p1_to_p2[p] \in P2 /\ ge_p1p1_to_p3[p] \in P3 /\ ge_p3_to_p2(p) \in P2
<1>1. p \in ge_p1p1 /\ p.X \in Ten /\ p.Y \in Ten /\ p.Z \in Ten /\ p.T \in Ten
  BY PointsAre, CoordinatesAre
<1>2. ge_p1p1_to_p2[p] = [X |-> fe_mul[p.X][p.T], Y |-> fe_mul[p.Y][p.Z], Z |-> fe_mul[p.Z][p.T]]
  BY <1>1 DEF ge_p1p1_to_p2
<1>3. ge_p1p1_to_p3[p] = [X |-> fe_mul[p.X][p.T], Y |-> fe_mul[p.Y][p.Z], Z |-> fe_mul[p.Z][p.T], T |-> fe_mul[p.X][p.Y]]
  BY <1>1 DEF ge_p1p1_to_p3
<1>4. fe_mul[p.X][p.T] \in Ten /\ fe_mul[p.Y][p.Z] \in Ten /\ fe_mul[p.Z][p.T] \in Ten /\ fe_mul[p.X][p.Y] \in Ten
  BY <1>1, MulTen
<1>5. fe_copy[p.X] \in Ten /\ fe_copy[p.Y] \in Ten /\ fe_copy[p.Z] \in Ten
  BY <1>1, AddTen
<1> QED
  BY <1>2, <1>3, <1>4, <1>5 DEF P2, P3, ge_p3_to_p2

-----------------------------------------------------------------------------
(* Points. *)

(* The constants of the curve have ten limbs. *)
LEMMA CurveTen == d2 \in Ten /\ BaseX \in Ten /\ BaseY \in Ten
  BY CurveAssumption DEF Ten, Fe

(* The right operand of an addition, ... *)
LEMMA CachedIs ==
  ASSUME NEW p \in P3
  PROVE  ge_p3_to_cached[p] \in Cached
<1>1. p \in ge_p3 /\ p.X \in Ten /\ p.Y \in Ten /\ p.Z \in Ten /\ p.T \in Ten
  BY PointsAre, CoordinatesAre
<1>2. fe_add[p.Y][p.X] \in Ten /\ fe_sub[p.Y][p.X] \in Ten /\ fe_copy[p.Z] \in Ten /\ fe_mul[p.T][d2] \in Ten
  BY <1>1, AddTen, MulTen, CurveTen
<1>3. ge_p3_to_cached[p] = [YplusX |-> fe_add[p.Y][p.X], YminusX |-> fe_sub[p.Y][p.X],
                            Z |-> fe_copy[p.Z], T2d |-> fe_mul[p.T][d2]]
  BY <1>1 DEF ge_p3_to_cached
<1> QED
  BY <1>2, <1>3 DEF Cached

(* ... how sums and doubles end, ... *)
LEMMA JoinedIs ==
  ASSUME NEW plus \in Ten, NEW minus \in Ten, NEW t \in Ten, NEW z \in Ten
  PROVE  Joined[plus][minus][t][z] \in P3 /\ FromSquares[plus][minus][t][z] \in P3
<1>1. plus \in Fe /\ minus \in Fe /\ t \in Fe /\ z \in Fe
  BY TenIs
<1>2. fe_sub[plus][minus] \in Ten /\ fe_add[plus][minus] \in Ten /\ fe_add[z][t] \in Ten /\ fe_sub[z][t] \in Ten
  BY AddTen
<1>3. Joined[plus][minus][t][z] = [X |-> fe_sub[plus][minus], Y |-> fe_add[plus][minus],
                                   Z |-> fe_add[z][t], T |-> fe_sub[z][t]]
  BY <1>1 DEF Joined
<1>4. fe_add[minus][plus] \in Ten /\ fe_sub[minus][plus] \in Ten
  BY AddTen
<1>5. fe_sub[z][fe_add[minus][plus]] \in Ten /\ fe_sub[t][fe_sub[minus][plus]] \in Ten
  BY <1>4, AddTen
<1>6. FromSquares[plus][minus][t][z] = [X |-> fe_sub[z][fe_add[minus][plus]], Y |-> fe_add[minus][plus],
                                        Z |-> fe_sub[minus][plus], T |-> fe_sub[t][fe_sub[minus][plus]]]
  BY <1>1 DEF FromSquares
<1> QED
  BY <1>2, <1>3, <1>4, <1>5, <1>6 DEF P3

(* ... twice an element, ... *)
LEMMA TwiceIs == ASSUME NEW f \in Ten PROVE Twice[f] \in Ten
<1>1. Twice[f] = fe_add[f][f]
  BY TenIs DEF Twice
<1> QED
  BY <1>1, AddTen

(* ... the addition, ... *)
LEMMA AddIs ==
  ASSUME NEW p \in P3, NEW q \in Cached
  PROVE  ge_add[p][q] \in P3
<1>1. p \in ge_p3 /\ p.X \in Ten /\ p.Y \in Ten /\ p.Z \in Ten /\ p.T \in Ten
  BY PointsAre, CoordinatesAre
<1>2. q \in ge_cached /\ q.YplusX \in Ten /\ q.YminusX \in Ten /\ q.Z \in Ten /\ q.T2d \in Ten
  BY PointsAre, CoordinatesAre
<1>3. fe_add[p.Y][p.X] \in Ten /\ fe_sub[p.Y][p.X] \in Ten /\ fe_mul[p.Z][q.Z] \in Ten /\ fe_mul[q.T2d][p.T] \in Ten
  BY <1>1, <1>2, AddTen, MulTen
<1>4. PICK a \in Ten, b \in Ten, t \in Ten, z \in Ten :
        a = fe_mul[fe_add[p.Y][p.X]][q.YplusX] /\ b = fe_mul[fe_sub[p.Y][p.X]][q.YminusX]
        /\ t = fe_mul[q.T2d][p.T] /\ z = Twice[fe_mul[p.Z][q.Z]]
  BY <1>2, <1>3, MulTen, TwiceIs
<1>5. ge_add[p][q] = Joined[a][b][t][z]
  BY <1>1, <1>2, <1>4 DEF ge_add
<1> QED
  BY <1>5, JoinedIs

(* ... that of a point from the tables, ... *)
LEMMA MaddIs ==
  ASSUME NEW p \in P3, NEW q \in Pre
  PROVE  ge_madd[p][q] \in P3
<1>1. p \in ge_p3 /\ p.X \in Ten /\ p.Y \in Ten /\ p.Z \in Ten /\ p.T \in Ten
  BY PointsAre, CoordinatesAre
<1>2. q \in ge_precomp /\ q.yplusx \in Ten /\ q.yminusx \in Ten /\ q.xy2d \in Ten
  BY PointsAre, CoordinatesAre
<1>3. fe_add[p.Y][p.X] \in Ten /\ fe_sub[p.Y][p.X] \in Ten
  BY <1>1, <1>2, AddTen
<1>4. PICK a \in Ten, b \in Ten, t \in Ten, z \in Ten :
        a = fe_mul[fe_add[p.Y][p.X]][q.yplusx] /\ b = fe_mul[fe_sub[p.Y][p.X]][q.yminusx]
        /\ t = fe_mul[q.xy2d][p.T] /\ z = fe_add[p.Z][p.Z]
  BY <1>1, <1>2, <1>3, MulTen, AddTen
<1>5. ge_madd[p][q] = Joined[a][b][t][z]
  BY <1>1, <1>2, <1>4 DEF ge_madd
<1> QED
  BY <1>5, JoinedIs

(* ... the doublings, ... *)
LEMMA DoubleIs ==
  /\ \A p \in P2 : ge_p2_dbl[p] \in P3
  /\ \A p \in P3 : ge_p3_dbl[p] \in P3
<1>1. ASSUME NEW p \in P2
      PROVE  ge_p2_dbl[p] \in P3
  <2>1. p \in ge_p2 /\ p.X \in Ten /\ p.Y \in Ten /\ p.Z \in Ten
    BY PointsAre, CoordinatesAre
  <2>2. fe_add[p.X][p.Y] \in Ten
    BY <2>1, AddTen
  <2>3. PICK a \in Ten, b \in Ten, c \in Ten, e \in Ten :
          a = fe_sq[p.X] /\ b = fe_sq[p.Y] /\ c = fe_sq2[p.Z] /\ e = fe_sq[fe_add[p.X][p.Y]]
    BY <2>1, <2>2, MulTen
  <2>4. ge_p2_dbl[p] = FromSquares[a][b][c][e]
    BY <2>1, <2>3 DEF ge_p2_dbl
  <2> QED
    BY <2>4, JoinedIs
<1>2. ASSUME NEW p \in P3
      PROVE  ge_p3_dbl[p] \in P3
  <2>1. ge_p3_dbl[p] = ge_p2_dbl[ge_p3_to_p2(p)]
    BY PointsAre DEF ge_p3_dbl
  <2> QED
    BY <1>1, <2>1, ConversionsAre
<1> QED
  BY <1>1, <1>2

(* ... and an entry of the tables have ten limbs each. *)
LEMMA PrecompIs ==
  ASSUME NEW p \in P3
  PROVE  Precomp[p] \in Pre
<1>1. p \in ge_p3 /\ p.X \in Ten /\ p.Y \in Ten /\ p.Z \in Ten
  BY PointsAre, CoordinatesAre
<1>2. PICK r \in Ten : r = fe_invert[p.Z]
  BY <1>1, InvertTen
<1>3. PICK x \in Ten, y \in Ten : x = fe_mul[p.X][r] /\ y = fe_mul[p.Y][r]
  BY <1>1, MulTen
<1>4. x \in Fe /\ y \in Fe /\ r \in Fe
  BY TenIs
<1>5. Precomp[p] = PrecompOf[x][y]
  BY <1>1, <1>2, <1>3, <1>4 DEF Precomp, ScaledBy
<1>6. fe_add[y][x] \in Ten /\ fe_sub[y][x] \in Ten /\ fe_mul[x][y] \in Ten
  BY AddTen, MulTen
<1>7. fe_mul[fe_mul[x][y]][d2] \in Ten
  BY <1>6, MulTen, CurveTen
<1>8. PrecompOf[x][y] = [yplusx |-> fe_add[y][x], yminusx |-> fe_sub[y][x], xy2d |-> fe_mul[fe_mul[x][y]][d2]]
  BY <1>4 DEF PrecompOf
<1> QED
  BY <1>5, <1>6, <1>7, <1>8 DEF Pre

(* A list that grows by what F makes of its last member. *)
Appends(step, F, T, n) == \A k \in 1 .. n : \A ps \in Seq(T) : Len(ps) = k => step[ps][k] = Append(ps, F[ps[k]])
Counts(s, n) == s \in Seq(Nat) /\ Len(s) = n /\ \A k \in 1 .. n : s[k] = k
Closed(F, T) == \A x \in T : F[x] \in T
StartsWith(start, first) == start = <<first>>

(* It has one member more than steps. *)
LEMMA ListGrows ==
  ASSUME NEW T, NEW first \in T, NEW F, Closed(F, T), NEW n \in Nat, NEW s, Counts(s, n),
         NEW step, Appends(step, F, T, n), NEW start, StartsWith(start, first)
  PROVE  Along(step, start, s) \in Seq(T) /\ Len(Along(step, start, s)) = n + 1
<1> DEFINE J == [k \in 0 .. n |-> {ps \in Seq(T) : Len(ps) = k + 1}]
<1>1. \A k \in 0 .. n : J[k] = {ps \in Seq(T) : Len(ps) = k + 1}
  OBVIOUS
<1> HIDE DEF J
<1>2. s \in Seq(Nat) /\ Len(s) = n /\ \A k \in 1 .. n : s[k] = k
  BY DEF Counts
<1>3. start \in J[0]
  <2>1. start \in Seq(T) /\ Len(start) = 0 + 1
    BY DEF StartsWith
  <2>2. 0 \in 0 .. n
    OBVIOUS
  <2> QED
    BY <1>1, <2>1, <2>2
<1>4. \A k \in 1 .. Len(s) : \A ps \in J[k - 1] : step[ps][s[k]] \in J[k]
  <2> SUFFICES ASSUME NEW k \in 1 .. n, NEW ps \in J[k - 1]
               PROVE  step[ps][k] \in J[k]
    BY <1>2
  <2>1. k - 1 \in 0 .. n /\ k \in 0 .. n /\ (k - 1) + 1 = k
    OBVIOUS
  <2>2. ps \in Seq(T) /\ Len(ps) = k
    BY <1>1, <2>1
  <2>3. PICK x \in T : x = F[ps[k]]
    BY <2>2 DEF Closed
  <2>4. Append(ps, x) \in Seq(T) /\ Len(Append(ps, x)) = k + 1
    BY <2>2
  <2>5. step[ps][k] = Append(ps, x)
    BY <2>2, <2>3 DEF Appends
  <2> QED
    BY <1>1, <2>1, <2>4, <2>5
<1>5. Along(step, start, s) \in J[n]
  BY <1>3, <1>4, <1>2, AlongInvariant
<1>6. n \in 0 .. n
  OBVIOUS
<1> QED
  BY <1>1, <1>5, <1>6

(* The loops' counters. *)
LEMMA EightIs ==
  ASSUME NEW s, s = <<1, 2, 3, 4, 5, 6, 7, 8>>
  PROVE  s \in Seq(1 .. 8) /\ s \in Seq(Nat)
  OBVIOUS

(* The same up to 7. *)
LEMMA SevenIs ==
  ASSUME NEW s, s = <<1, 2, 3, 4, 5, 6, 7>>
  PROVE  s \in Seq(Nat) /\ Len(s) = 7 /\ \A k \in 1 .. 7 : s[k] = k
<1>1. ASSUME NEW k \in 1 .. 7
      PROVE  s[k] = k
  <2>1. k = 1 \/ k = 2 \/ k = 3 \/ k = 4 \/ k = 5 \/ k = 6 \/ k = 7
    OBVIOUS
  <2> QED
    BY <2>1
<1> QED
  BY <1>1

(* The base point and its multiples. *)
LEMMA BaseIs == B \in P3
<1>1. BaseX \in Ten /\ BaseY \in Ten /\ fe_1 \in Ten
  BY CurveTen, ConstantsTen
<1>2. fe_mul[BaseX][BaseY] \in Ten
  BY <1>1, MulTen
<1> QED
  BY <1>1, <1>2 DEF B, P3

(* The sum of two points. *)
LEMMA PlusIs ==
  ASSUME NEW p \in P3, NEW q \in P3
  PROVE  Plus[p][q] \in P3
<1>1. ge_add[p][ge_p3_to_cached[q]] \in P3
  BY CachedIs, AddIs
<1>2. Plus[p][q] = ge_p1p1_to_p3[ge_add[p][ge_p3_to_cached[q]]]
  BY PointsAre DEF Plus
<1> QED
  BY <1>1, <1>2, ConversionsAre

(* 256 times a point. *)
LEMMA Times256Is == ASSUME NEW p \in P3 PROVE Times256[p] \in P3
<1>1. PICK step : step = [q \in ge_p3 |-> [k \in Nat |-> ge_p1p1_to_p3[ge_p3_dbl[q]]]]
  OBVIOUS
<1>2. PICK s : s = <<1, 2, 3, 4, 5, 6, 7, 8>>
  OBVIOUS
<1>3. s \in Seq(Nat)
  BY <1>2, EightIs
<1>4. Times256[p] = Along(step, p, s)
  BY <1>1, <1>2, PointsAre DEF Times256
<1>5. \A q \in P3 : \A k \in Nat : step[q][k] \in P3
  <2> SUFFICES ASSUME NEW q \in P3, NEW k \in Nat
               PROVE  step[q][k] \in P3
    OBVIOUS
  <2>1. step[q][k] = ge_p1p1_to_p3[ge_p3_dbl[q]]
    BY <1>1, PointsAre
  <2> QED
    BY <2>1, DoubleIs, ConversionsAre
<1> QED
  BY <1>3, <1>4, <1>5, AlongStays

(* Two digits for each byte. *)
LEMMA NibblesAre == Nibbles = 2 * SeedBytes /\ Nibbles \div 2 = SeedBytes /\ SeedBytes \in Nat /\ SeedBytes >= 4
<1>1. SeedBytes \in Nat /\ SeedBytes >= 4
  BY SeedAssumption
<1>2. Nibbles = 2 * SeedBytes
  BY DEF Nibbles, SeedBytes
<1> QED
  BY <1>1, <1>2

(* B, 256 B, 256^2 B, ... *)
LEMMA PowersAre == \A k \in 1 .. SeedBytes : Powers[k] \in P3
<1>1. PICK n \in Nat : n = SeedBytes - 1
  BY NibblesAre
<1>2. PICK s : s = [k \in 1 .. n |-> k]
  OBVIOUS
<1>3. Counts(s, n)
  BY <1>2 DEF Counts
<1>4. PICK step : step = [ps \in Seq(ge_p3) |-> [k \in Nat |-> Append(ps, Times256[ps[k]])]]
  OBVIOUS
<1>5. PICK start : start = <<B>>
  OBVIOUS
<1>6. Powers = Along(step, start, s)
  BY <1>1, <1>2, <1>4, <1>5, NibblesAre DEF Powers
<1>7. Closed(Times256, P3) /\ StartsWith(start, B)
  BY <1>5, Times256Is DEF Closed, StartsWith
<1>8. Appends(step, Times256, P3, n)
  <2> SUFFICES ASSUME NEW k \in 1 .. n, NEW ps \in Seq(P3)
               PROVE  step[ps][k] = Append(ps, Times256[ps[k]])
    BY DEF Appends
  <2>1. ps \in Seq(ge_p3)
    BY PointsAre
  <2> QED
    BY <1>4, <2>1
<1>9. Powers \in Seq(P3) /\ Len(Powers) = n + 1
  BY <1>3, <1>6, <1>7, <1>8, BaseIs, ListGrows
<1> QED
  BY <1>1, <1>9, NibblesAre

(* The table of a point, ... *)
LEMMA TableIs ==
  ASSUME NEW p \in P3, NEW by \in P3
  PROVE  \A j \in 1 .. 8 : Table[p][by][j] \in Pre
<1>1. PICK n \in Nat : n = 7
  OBVIOUS
<1>2. PICK s : s = <<1, 2, 3, 4, 5, 6, 7>>
  OBVIOUS
<1>3. Counts(s, n)
  BY <1>1, <1>2, SevenIs DEF Counts
<1>4. PICK step : step = [qs \in Seq(ge_p3) |-> [k \in Nat |-> Append(qs, Plus[qs[k]][by])]]
  OBVIOUS
<1>5. PICK start : start = <<p>>
  OBVIOUS
<1>6. PICK ps : ps = Along(step, start, s)
  OBVIOUS
<1>7. PICK F : F = [x \in P3 |-> Plus[x][by]]
  OBVIOUS
<1>8. \A x \in P3 : F[x] = Plus[x][by] /\ F[x] \in P3
  BY <1>7, PlusIs
<1>9. Appends(step, F, P3, n)
  <2> SUFFICES ASSUME NEW k \in 1 .. n, NEW qs \in Seq(P3), Len(qs) = k
               PROVE  step[qs][k] = Append(qs, F[qs[k]])
    BY DEF Appends
  <2>1. qs \in Seq(ge_p3) /\ qs[k] \in P3
    BY PointsAre
  <2>2. F[qs[k]] = Plus[qs[k]][by]
    BY <1>8, <2>1
  <2> QED
    BY <1>4, <2>1, <2>2
<1>10. ps \in Seq(P3) /\ Len(ps) = n + 1
  <2>1. Closed(F, P3) /\ StartsWith(start, p)
    BY <1>5, <1>8 DEF Closed, StartsWith
  <2> QED
    BY <1>3, <1>6, <1>9, <2>1, ListGrows
<1>11. \A j \in 1 .. 8 : Precomp[ps[j]] \in Pre
  <2>1. \A j \in 1 .. 8 : ps[j] \in P3
    <3>1. PICK m \in Nat : m = 8 /\ m = Len(ps)
      BY <1>1, <1>10
    <3>2. \A j \in 1 .. m : ps[j] \in P3
      BY <1>10, <3>1
    <3> QED
      BY <3>1, <3>2
  <2> QED
    BY <2>1, PrecompIs
<1>12. Table[p][by] = [k \in 1 .. 8 |-> Precomp[ps[k]]] \o <<>>
  <2>1. p \in ge_p3 /\ by \in ge_p3
    BY PointsAre
  <2> QED
    BY <1>2, <1>4, <1>5, <1>6, <2>1 DEF Table
<1>13. PICK t : t = [k \in 1 .. 8 |-> Precomp[ps[k]]]
  OBVIOUS
<1>14. PICK m \in Nat : m = 8
  OBVIOUS
<1>15. t = [k \in 1 .. m |-> t[k]] /\ \A k \in 1 .. m : t[k] \in Pre
  BY <1>11, <1>13, <1>14
<1>16. t \o <<>> = t
  BY <1>15, Tupled
<1> QED
  BY <1>11, <1>12, <1>13, <1>16

(* ... and those of all the powers. *)
LEMMA TablesAre == \A k \in 1 .. SeedBytes : \A j \in 1 .. 8 : base[k][j] \in Pre
<1>1. PICK t : t = [k \in 1 .. SeedBytes |-> Table[Powers[k]][Powers[k]]]
  OBVIOUS
<1>2. PICK T : T = {t[k] : k \in 1 .. SeedBytes}
  OBVIOUS
<1>3. \A k \in 1 .. SeedBytes : t[k] \in T
  BY <1>2
<1>4. t = [k \in 1 .. SeedBytes |-> t[k]]
  BY <1>1
<1>5. t \o <<>> = t
  BY <1>3, <1>4, NibblesAre, Tupled
<1>6. base = t
  BY <1>1, <1>5, NibblesAre DEF base
<1> QED
  BY <1>1, <1>6, PowersAre, TableIs

-----------------------------------------------------------------------------
(* The base point times a scalar. *)

(* A choice from the table without a branch. *)
LEMMA CmovIs ==
  ASSUME NEW t \in Pre, NEW u \in Pre, NEW b \in {0, 1}
  PROVE  cmov[t][u][b] \in Pre
<1>1. t \in ge_precomp /\ u \in ge_precomp
  BY PointsAre
<1>2. cmov[t][u][b] = [yplusx |-> fe_cmov[t.yplusx][u.yplusx][b], yminusx |-> fe_cmov[t.yminusx][u.yminusx][b],
                       xy2d |-> fe_cmov[t.xy2d][u.xy2d][b]]
  BY <1>1 DEF cmov
<1>3. /\ fe_cmov[t.yplusx][u.yplusx][b] \in Ten /\ fe_cmov[t.yminusx][u.yminusx][b] \in Ten
      /\ fe_cmov[t.xy2d][u.xy2d][b] \in Ten
  BY CoordinatesAre, CmovTen
<1> QED
  BY <1>2, <1>3 DEF Pre

(* A negated entry. *)
LEMMA NegatedIs ==
  ASSUME NEW t \in Pre, NEW b \in {0, 1}
  PROVE  NegatedIf[t][b] \in Pre
<1>1. t \in ge_precomp
  BY PointsAre
<1>2. Negated[t] = [yplusx |-> t.yminusx, yminusx |-> t.yplusx, xy2d |-> fe_neg[t.xy2d]]
  BY <1>1 DEF Negated
<1>3. t.yminusx \in Ten /\ t.yplusx \in Ten /\ fe_neg[t.xy2d] \in Ten
  BY CoordinatesAre, AddTen
<1>4. Negated[t] \in Pre
  BY <1>2, <1>3 DEF Pre
<1>5. NegatedIf[t][b] = cmov[t][Negated[t]][b]
  BY <1>1 DEF NegatedIf
<1> QED
  BY <1>4, <1>5, CmovIs

(* select takes a multiple from the table, or its negative. *)
LEMMA SelectIs ==
  ASSUME NEW pos \in Nat, pos < SeedBytes, NEW b \in -8 .. 8
  PROVE  select[pos][b] \in Pre
<1>1. PICK step : step = [u \in ge_precomp |-> [j \in Nat |->
                            cmov[u][base[pos + 1][j]][equal(b - 2 * (negative(b) * b), j)]]]
  OBVIOUS
<1>2. PICK s : s = <<1, 2, 3, 4, 5, 6, 7, 8>>
  OBVIOUS
<1>3. s \in Seq(1 .. 8)
  BY <1>2, EightIs
<1>4. PICK first : first = [yplusx |-> fe_1, yminusx |-> fe_1, xy2d |-> fe_0]
  OBVIOUS
<1>5. first \in Pre
  BY <1>4, ConstantsTen DEF Pre
<1>6. \A u \in Pre : \A j \in 1 .. 8 : step[u][j] \in Pre
  <2> SUFFICES ASSUME NEW u \in Pre, NEW j \in 1 .. 8
               PROVE  step[u][j] \in Pre
    OBVIOUS
  <2>1. step[u][j] = cmov[u][base[pos + 1][j]][equal(b - 2 * (negative(b) * b), j)]
    <3>1. u \in ge_precomp /\ j \in Nat
      BY PointsAre
    <3> QED
      BY <1>1, <3>1
  <2>2. base[pos + 1][j] \in Pre
    <3>1. pos + 1 \in 1 .. SeedBytes
      BY NibblesAre
    <3> QED
      BY <3>1, TablesAre
  <2>3. equal(b - 2 * (negative(b) * b), j) \in {0, 1}
    BY DEF equal
  <2> QED
    BY <2>1, <2>2, <2>3, CmovIs
<1>7. Along(step, first, s) \in Pre
  BY <1>3, <1>5, <1>6, AlongStays
<1>8. select[pos][b] = NegatedIf[Along(step, first, s)][negative(b)]
  BY <1>1, <1>2, <1>4 DEF select
<1>9. negative(b) \in {0, 1}
  BY DEF negative
<1> QED
  BY <1>7, <1>8, <1>9, NegatedIs

(* Small powers of two. *)
LEMMA TwoPowers ==
  /\ Power(2, 0) = 1 /\ Power(2, 1) = 2 /\ Power(2, 2) = 4 /\ Power(2, 3) = 8 /\ Power(2, 4) = 16
  /\ Power(2, 7) = 128 /\ Power(2, 8) = 256
<1>1. PICK b \in Nat : b = 2
  OBVIOUS
<1>2. Power(b, 0) = 1 /\ \A n \in Nat : Power(b, n + 1) = b * Power(b, n)
  BY PowerOf
<1>3. Power(b, 0 + 1) = 2
  BY <1>1, <1>2
<1>4. Power(b, 1 + 1) = 4
  BY <1>1, <1>2, <1>3
<1>5. Power(b, 2 + 1) = 8
  BY <1>1, <1>2, <1>4
<1>6. Power(b, 3 + 1) = 16
  BY <1>1, <1>2, <1>5
<1>7. Power(b, 4 + 1) = 32
  BY <1>1, <1>2, <1>6
<1>8. Power(b, 5 + 1) = 64
  BY <1>1, <1>2, <1>7
<1>9. Power(b, 6 + 1) = 128
  BY <1>1, <1>2, <1>8
<1>10. Power(b, 7 + 1) = 256
  BY <1>1, <1>2, <1>9
<1> QED
  BY <1>1, <1>2, <1>3, <1>4, <1>5, <1>6, <1>9, <1>10

(* The length of a string. *)
LEMMA StringBitsIs == StringBits \in Nat /\ StringBits > 15
  BY FieldBitsIs DEF StringBits

(* The nibbles of a string, the last of them perhaps shorter. *)
LEMMA NibblesFit ==
  /\ 4 * (Nibbles - 1) \in Nat /\ 4 * (Nibbles - 1) <= StringBits - 1 /\ StringBits <= 4 * Nibbles
  /\ \A i \in 0 .. Nibbles - 2 : 4 * i + 3 < StringBits
<1>1. PICK q \in Int, r \in 0 .. 7 : q = StringBits \div 8 /\ r = StringBits % 8
  <2>1. StringBits \div 8 \in Int /\ StringBits % 8 \in 0 .. 7
    BY StringBitsIs, SMT
  <2> QED
    BY <2>1
<1>2. StringBits = 8 * q + r
  BY <1>1, StringBitsIs, SMT
<1>3. r = 0 \/ r > 4
  BY <1>1, NibbleAssumption
<1>4. SeedBytes = (8 * q + r + 7) \div 8
  BY <1>2 DEF SeedBytes
<1>5. SeedBytes = IF r = 0 THEN q ELSE q + 1
  <2>1. (8 * q + r + 7) \div 8 = IF r = 0 THEN q ELSE q + 1
    BY SMT
  <2> QED
    BY <1>4, <2>1
<1>6. Nibbles = 2 * SeedBytes /\ SeedBytes \in Nat /\ SeedBytes >= 4
  BY NibblesAre
<1> QED
  BY <1>2, <1>3, <1>5, <1>6

(* A nibble; the last one is below 8 when the top bit is clear. *)
LEMMA NibbleIs ==
  ASSUME NEW a \in BitString(StringBits), NEW i \in 0 .. Nibbles - 1
  PROVE  /\ Nibble(a, i) \in 0 .. 15
         /\ i = Nibbles - 1 /\ a[StringBits] = 0 => Nibble(a, i) \in 0 .. 7
<1>1. PICK from \in Nat, to \in Nat :
        /\ from = 4 * i
        /\ to = (IF 4 * i + 3 < StringBits THEN 4 * i + 3 ELSE StringBits - 1)
        /\ from <= to /\ to - from <= 3 /\ to + 1 <= StringBits
        /\ i = Nibbles - 1 => to + 1 = StringBits
  <2>1. Nibbles \in Nat /\ Nibbles >= 8 /\ StringBits \in Nat
    BY NibblesAre, StringBitsIs
  <2>2. CASE i \in 0 .. Nibbles - 2
    BY <2>1, <2>2, NibblesFit
  <2>3. CASE i = Nibbles - 1
    BY <2>1, <2>3, NibblesFit
  <2> QED
    BY <2>1, <2>2, <2>3
<1>2. Nibble(a, i) = Number(a, from, to)
  BY <1>1 DEF Nibble
<1>3. \A k \in 1 .. StringBits : a[k] \in {0, 1}
  BY StringBitsIs, BitStringIs
<1>4. Binary(a, from, to)
  BY <1>1, <1>3, StringBitsIs DEF Binary
<1>5. \A n \in Nat : n <= 4 => Power(2, n) \in Nat /\ Power(2, n) <= 16 /\ (n <= 3 => Power(2, n) <= 8)
  <2> SUFFICES ASSUME NEW n \in Nat, n <= 4
               PROVE  Power(2, n) \in Nat /\ Power(2, n) <= 16 /\ (n <= 3 => Power(2, n) <= 8)
    OBVIOUS
  <2>1. n = 0 \/ n = 1 \/ n = 2 \/ n = 3 \/ n = 4
    OBVIOUS
  <2> QED
    BY <2>1, TwoPowers
<1>6. Nibble(a, i) \in 0 .. 15
  <2>1. PICK n \in Nat : n = to + 1 - from /\ n <= 4
    BY <1>1
  <2>2. Number(a, from, to) \in Nat /\ Number(a, from, to) < Power(2, to + 1 - from)
    BY <1>1, <1>4, NumberIs
  <2> QED
    BY <1>2, <1>5, <2>1, <2>2
<1>7. ASSUME i = Nibbles - 1, a[StringBits] = 0
      PROVE  Nibble(a, i) \in 0 .. 7
  <2>1. PICK n \in Nat : n = to - from /\ n <= 3
    BY <1>1
  <2>2. a[to + 1] = 0
    BY <1>1, <1>7
  <2>3. Number(a, from, to) \in Nat /\ Number(a, from, to) < Power(2, to - from)
    BY <1>1, <1>4, <2>2, NumberShort
  <2> QED
    BY <1>2, <1>5, <2>1, <2>3
<1> QED
  BY <1>6, <1>7

(* One member of a sequence replaced. *)
LEMMA SeqPut ==
  ASSUME NEW n \in Nat, NEW e \in Seq(Int), Len(e) = n, NEW i \in 1 .. n, NEW v \in Int, NEW g, Put(g, e, i, v)
  PROVE  g \in Seq(Int) /\ Len(g) = n /\ \A j \in 1 .. n : g[j] = IF j = i THEN v ELSE e[j]
  BY DEF Put

(* The digits while the carry has passed the first k of them. *)
Signing(e, k) ==
  /\ e \in Seq(Int) /\ Len(e) = Nibbles
  /\ \A j \in 1 .. k : e[j] \in -8 .. 8
  /\ \A j \in k + 1 .. Nibbles : e[j] \in 0 .. (IF j = k + 1 THEN 16 ELSE 15)
  /\ e[Nibbles] \in 0 .. (IF k = Nibbles - 1 THEN 8 ELSE 7)

(* The carry passes digit k. *)
LEMMA NibbleCarried ==
  ASSUME NEW k \in 1 .. Nibbles - 1, NEW e, Signing(e, k - 1)
  PROVE  Signing(NibbleCarry[e][k], k)
<1>1. Nibbles \in Nat /\ Nibbles >= 8 /\ k \in Nat
  BY NibblesAre
<1>2. e \in Seq(Int) /\ Len(e) = Nibbles /\ e \in Fe
  BY DEF Signing, Fe
<1>3. /\ \A j \in 1 .. k - 1 : e[j] \in -8 .. 8
      /\ \A j \in k .. Nibbles : e[j] \in 0 .. (IF j = k THEN 16 ELSE 15)
      /\ e[Nibbles] \in 0 .. 7
  <2>1. (k - 1) + 1 = k /\ k - 1 # Nibbles - 1
    BY <1>1
  <2> QED
    BY <2>1 DEF Signing
<1>4. PICK v \in 0 .. 16 : v = e[k]
  BY <1>1, <1>3
<1>5. PICK c \in {0, 1} : c = (v + 8) \div 16 /\ v - 16 * c \in -8 .. 8
  <2>1. (v + 8) \div 16 \in {0, 1} /\ v - 16 * ((v + 8) \div 16) \in -8 .. 8
    BY SMT
  <2> QED
    BY <2>1
<1>6. PICK n \in Nat : n = k + 1 /\ n \in 1 .. Nibbles /\ k \in 1 .. Nibbles
  BY <1>1
<1>7. PICK h : PutTwo(h, e, k, e[k] - 16 * c, n, e[n] + c)
  BY DEF PutTwo
<1>8. NibbleCarry[e][k] = h
  <2>1. NibbleCarry[e][k] = [e EXCEPT ![k] = @ - 16 * c, ![k + 1] = @ + c]
    BY <1>1, <1>2, <1>4, <1>5 DEF NibbleCarry
  <2>2. [e EXCEPT ![k] = @ - 16 * c, ![k + 1] = @ + c] = [e EXCEPT ![k] = e[k] - 16 * c, ![n] = e[n] + c]
    BY <1>1, <1>6
  <2> QED
    BY <1>7, <2>1, <2>2 DEF PutTwo
<1>9. e[n] \in 0 .. 15 /\ (n = Nibbles => e[n] \in 0 .. 7)
  BY <1>1, <1>3, <1>6
<1>10. h \in Seq(Int) /\ Len(h) = Nibbles
       /\ \A j \in 1 .. Nibbles : h[j] = IF j = k THEN v - 16 * c ELSE IF j = n THEN e[n] + c ELSE e[j]
  <2>1. PICK x \in Int, y \in Int : x = v - 16 * c /\ y = e[n] + c
    BY <1>9
  <2>2. PICK g : Put(g, e, k, x)
    BY DEF Put
  <2>3. g \in Seq(Int) /\ Len(g) = Nibbles /\ \A j \in 1 .. Nibbles : g[j] = IF j = k THEN x ELSE e[j]
    BY <1>1, <1>2, <1>6, <2>2, SeqPut
  <2>4. Put(h, g, n, y)
    BY <1>4, <1>7, <2>1, <2>2 DEF Put, PutTwo
  <2>5. h \in Seq(Int) /\ Len(h) = Nibbles /\ \A j \in 1 .. Nibbles : h[j] = IF j = n THEN y ELSE g[j]
    BY <1>1, <1>6, <2>3, <2>4, SeqPut
  <2>6. n # k
    BY <1>6
  <2> QED
    BY <2>1, <2>3, <2>5, <2>6
<1>11. \A j \in 1 .. k : h[j] \in -8 .. 8
  <2> SUFFICES ASSUME NEW j \in 1 .. k
               PROVE  h[j] \in -8 .. 8
    OBVIOUS
  <2>1. j \in 1 .. Nibbles /\ j # n
    BY <1>1, <1>6
  <2>2. CASE j = k
    BY <1>5, <1>10, <2>1, <2>2
  <2>3. CASE j # k
    <3>1. j \in 1 .. k - 1
      BY <1>1, <2>3
    <3> QED
      BY <1>3, <1>10, <2>1, <2>3, <3>1
  <2> QED
    BY <2>2, <2>3
<1>12. \A j \in k + 1 .. Nibbles : h[j] \in 0 .. (IF j = k + 1 THEN 16 ELSE 15)
  <2> SUFFICES ASSUME NEW j \in k + 1 .. Nibbles
               PROVE  h[j] \in 0 .. (IF j = k + 1 THEN 16 ELSE 15)
    OBVIOUS
  <2>1. j \in 1 .. Nibbles /\ j # k /\ j \in k .. Nibbles
    BY <1>1
  <2>2. CASE j = n
    <3>1. h[j] = e[n] + c
      BY <1>6, <1>10, <2>1, <2>2
    <3> QED
      BY <1>6, <1>9, <2>2, <3>1
  <2>3. CASE j # n
    BY <1>3, <1>6, <1>10, <2>1, <2>3
  <2> QED
    BY <2>2, <2>3
<1>13. h[Nibbles] \in 0 .. (IF k = Nibbles - 1 THEN 8 ELSE 7)
  <2>1. Nibbles \in 1 .. Nibbles /\ Nibbles # k
    BY <1>1
  <2>2. CASE n = Nibbles
    <3>1. h[Nibbles] = e[n] + c
      BY <1>10, <2>1, <2>2
    <3>2. e[n] \in 0 .. 7 /\ k = Nibbles - 1
      BY <1>1, <1>6, <1>9, <2>2
    <3> QED
      BY <3>1, <3>2
  <2>3. CASE n # Nibbles
    <3>1. h[Nibbles] = e[Nibbles]
      BY <1>10, <2>1, <2>3
    <3> QED
      BY <1>3, <3>1
  <2> QED
    BY <2>2, <2>3
<1> QED
  BY <1>8, <1>10, <1>11, <1>12, <1>13 DEF Signing

(* A scalar whose top bit is clear has digits from -8 to 8. *)
LEMMA SignedNibblesAre ==
  ASSUME NEW a \in BitString(StringBits), a[StringBits] = 0
  PROVE  SignedNibbles[a] \in Fe /\ \A j \in 1 .. Nibbles : SignedNibbles[a][j] \in -8 .. 8
<1>1. Nibbles \in Nat /\ Nibbles >= 8
  BY NibblesAre
<1>2. PICK t : t = [i \in 1 .. Nibbles |-> Nibble(a, i - 1)]
  OBVIOUS
<1>3. \A i \in 1 .. Nibbles : t[i] \in 0 .. 15 /\ (i = Nibbles => t[i] \in 0 .. 7)
  <2> SUFFICES ASSUME NEW i \in 1 .. Nibbles
               PROVE  t[i] \in 0 .. 15 /\ (i = Nibbles => t[i] \in 0 .. 7)
    OBVIOUS
  <2>1. PICK m \in 0 .. Nibbles - 1 : m = i - 1
    BY <1>1
  <2>2. t[i] = Nibble(a, m)
    BY <1>2, <2>1
  <2>3. Nibble(a, m) \in 0 .. 15 /\ (m = Nibbles - 1 => Nibble(a, m) \in 0 .. 7)
    BY NibbleIs
  <2> QED
    BY <2>1, <2>2, <2>3
<1>4. t = [i \in 1 .. Nibbles |-> t[i]]
  BY <1>2
<1>5. t \o <<>> = t /\ t \in Seq(Int) /\ Len(t) = Nibbles
  <2>1. \A i \in 1 .. Nibbles : t[i] \in Int
    BY <1>3
  <2> QED
    BY <1>1, <1>4, <2>1, Tupled
<1>6. Signing(t, 0)
  <2>1. \A j \in 0 + 1 .. Nibbles : t[j] \in 0 .. (IF j = 0 + 1 THEN 16 ELSE 15)
    BY <1>1, <1>3
  <2>2. t[Nibbles] \in 0 .. 7 /\ 0 # Nibbles - 1
    BY <1>1, <1>3
  <2>3. \A j \in 1 .. 0 : t[j] \in -8 .. 8
    OBVIOUS
  <2> QED
    BY <1>5, <2>1, <2>2, <2>3 DEF Signing
<1>7. PICK n \in Nat : n = Nibbles - 1
  BY <1>1
<1>8. PICK s : s = [i \in 1 .. n |-> i]
  OBVIOUS
<1>9. s \in Seq(Nat) /\ Len(s) = n /\ \A k \in 1 .. n : s[k] = k
  BY <1>7, <1>8
<1> DEFINE J == [k \in 0 .. n |-> {e \in Seq(Int) : Signing(e, k)}]
<1>10. \A k \in 0 .. n : J[k] = {e \in Seq(Int) : Signing(e, k)}
  OBVIOUS
<1> HIDE DEF J
<1>11. t \in J[0]
  BY <1>5, <1>6, <1>7, <1>10
<1>12. \A k \in 1 .. Len(s) : \A e \in J[k - 1] : NibbleCarry[e][s[k]] \in J[k]
  <2> SUFFICES ASSUME NEW k \in 1 .. n, NEW e \in J[k - 1]
               PROVE  NibbleCarry[e][k] \in J[k]
    BY <1>9
  <2>1. k - 1 \in 0 .. n /\ k \in 0 .. n /\ k \in 1 .. Nibbles - 1
    BY <1>7
  <2>2. Signing(e, k - 1)
    BY <1>10, <2>1
  <2>3. Signing(NibbleCarry[e][k], k)
    BY <2>1, <2>2, NibbleCarried
  <2>4. NibbleCarry[e][k] \in Seq(Int)
    BY <2>3 DEF Signing
  <2> QED
    BY <1>10, <2>1, <2>3, <2>4
<1>13. Along(NibbleCarry, t, s) \in J[n]
  BY <1>9, <1>11, <1>12, AlongInvariant
<1>14. SignedNibbles[a] = Along(NibbleCarry, t, s)
  <2>1. a \in Fe
    BY StringBitsIs, BitStringIs
  <2>2. SignedNibbles[a] = Along(NibbleCarry, t \o <<>>, s)
    BY <1>2, <1>7, <1>8, <2>1 DEF SignedNibbles
  <2> QED
    BY <1>5, <2>2
<1>15. Signing(SignedNibbles[a], n)
  BY <1>7, <1>10, <1>13, <1>14
<1>16. \A j \in 1 .. Nibbles : j \in 1 .. n \/ j = Nibbles
  BY <1>1, <1>7
<1> QED
  BY <1>1, <1>7, <1>15, <1>16 DEF Signing, Fe

(* The digits of a scalar, and what they are added up to. *)
SignedDigits(e) == e \in Fe /\ \A j \in 1 .. Nibbles : e[j] \in -8 .. 8

(* Every second digit's multiple is added. *)
LEMMA AddDigitsIs ==
  ASSUME NEW h \in P3, NEW e, SignedDigits(e), NEW first \in {0, 1}
  PROVE  AddDigits[h][e][first] \in P3
<1>1. PICK n \in Nat : n = SeedBytes /\ Nibbles = 2 * n /\ Nibbles \div 2 = n
  BY NibblesAre
<1>2. PICK step : step = [p \in ge_p3 |-> [i \in Nat |-> ge_p1p1_to_p3[ge_madd[p][select[i \div 2][e[i + 1]]]]]]
  OBVIOUS
<1>3. PICK s : s = [k \in 1 .. n |-> 2 * (k - 1) + first]
  OBVIOUS
<1>4. s \in Seq(0 .. Nibbles - 1)
  <2>1. \A k \in 1 .. n : 2 * (k - 1) + first \in 0 .. Nibbles - 1
    BY <1>1
  <2> QED
    BY <1>3, <2>1
<1>5. \A p \in P3 : \A i \in 0 .. Nibbles - 1 : step[p][i] \in P3
  <2> SUFFICES ASSUME NEW p \in P3, NEW i \in 0 .. Nibbles - 1
               PROVE  step[p][i] \in P3
    OBVIOUS
  <2>1. i \in Nat /\ i < 2 * n /\ i + 1 \in 1 .. Nibbles
    BY <1>1
  <2>2. PICK q \in Nat : q = i \div 2 /\ q < n
    <3>1. i \div 2 \in Nat /\ i \div 2 < n
      BY <2>1, SMT
    <3> QED
      BY <3>1
  <2>3. e[i + 1] \in -8 .. 8
    BY <2>1 DEF SignedDigits
  <2>4. select[q][e[i + 1]] \in Pre
    BY <1>1, <2>2, <2>3, SelectIs
  <2>5. step[p][i] = ge_p1p1_to_p3[ge_madd[p][select[q][e[i + 1]]]]
    BY <1>2, <2>1, <2>2, PointsAre
  <2> QED
    BY <2>4, <2>5, MaddIs, ConversionsAre
<1>6. Along(step, h, s) \in P3
  <2>1. PICK T : T = 0 .. Nibbles - 1
    OBVIOUS
  <2>2. s \in Seq(T) /\ \A p \in P3 : \A i \in T : step[p][i] \in P3
    BY <1>4, <1>5, <2>1
  <2> QED
    BY <2>2, AlongStays
<1>7. AddDigits[h][e][first] = Along(step, h, s)
  <2>1. h \in ge_p3 /\ e \in Fe
    BY PointsAre DEF SignedDigits
  <2> QED
    BY <1>1, <1>2, <1>3, <2>1 DEF AddDigits
<1> QED
  BY <1>6, <1>7

(* Two more doublings. *)
LEMMA TwoIs == ASSUME NEW s, s = <<1, 2>> PROVE s \in Seq(Nat)
  OBVIOUS

(* Sixteen times a point. *)
LEMMA Times16Is ==
  ASSUME NEW h \in P3
  PROVE  Times16[h] \in P3
<1>1. PICK step : step = [s \in ge_p2 |-> [k \in Nat |-> ge_p1p1_to_p2[ge_p2_dbl[s]]]]
  OBVIOUS
<1>2. PICK two : two = <<1, 2>>
  OBVIOUS
<1>3. two \in Seq(Nat)
  BY <1>2, TwoIs
<1>4. PICK first : first = ge_p1p1_to_p2[ge_p3_dbl[h]]
  OBVIOUS
<1>5. first \in P2
  BY <1>4, DoubleIs, ConversionsAre
<1>6. \A p \in P2 : \A k \in Nat : step[p][k] \in P2
  <2> SUFFICES ASSUME NEW p \in P2, NEW k \in Nat
               PROVE  step[p][k] \in P2
    OBVIOUS
  <2>1. step[p][k] = ge_p1p1_to_p2[ge_p2_dbl[p]]
    BY <1>1, PointsAre
  <2> QED
    BY <2>1, DoubleIs, ConversionsAre
<1>7. Along(step, first, two) \in P2
  BY <1>3, <1>5, <1>6, AlongStays
<1>8. Times16[h] = ge_p1p1_to_p3[ge_p2_dbl[Along(step, first, two)]]
  BY <1>1, <1>2, <1>4, PointsAre DEF Times16
<1> QED
  BY <1>7, <1>8, DoubleIs, ConversionsAre

(* a B, for a scalar whose top bit is clear. *)
LEMMA BaseMultipleIs ==
  ASSUME NEW a \in BitString(StringBits), a[StringBits] = 0
  PROVE  ge_scalarmult_base[a] \in P3
<1>1. PICK e : e = SignedNibbles[a]
  OBVIOUS
<1>2. SignedDigits(e)
  BY <1>1, SignedNibblesAre DEF SignedDigits
<1>3. ge_p3_0 \in P3
  BY ConstantsTen DEF ge_p3_0, P3
<1>4. a \in Fe
  BY StringBitsIs, BitStringIs
<1>5. ge_scalarmult_base[a] = AddDigits[Times16[AddDigits[ge_p3_0][e][1]]][e][0]
  BY <1>1, <1>4 DEF ge_scalarmult_base
<1>6. PICK odd \in P3 : odd = AddDigits[ge_p3_0][e][1]
  BY <1>2, <1>3, AddDigitsIs
<1>7. PICK p \in P3 : p = Times16[odd]
  BY Times16Is
<1>8. AddDigits[p][e][0] \in P3
  BY <1>2, AddDigitsIs
<1> QED
  BY <1>5, <1>6, <1>7, <1>8

(* The encoding of a point has all its bits. *)
LEMMA EncodingIs ==
  ASSUME NEW h \in P3
  PROVE  ge_p3_tobytes(h) \in BitString(StringBits)
<1>1. h \in ge_p2 \union ge_p3 /\ h.X \in Ten /\ h.Y \in Ten /\ h.Z \in Ten
  BY PointsAre, CoordinatesAre
<1>2. PICK recip \in Ten : recip = fe_invert[h.Z]
  BY <1>1, InvertTen
<1>3. recip \in Fe
  BY TenIs
<1>4. ge_p3_tobytes(h) = EncodedWith[h][recip]
  BY <1>1, <1>2 DEF ge_p3_tobytes, Encoded
<1>5. PICK y \in Ten, x \in Ten : y = fe_mul[h.Y][recip] /\ x = fe_mul[h.X][recip]
  BY <1>1, MulTen
<1>6. PICK s \in BitString(StringBits) : s = fe_tobytes[y]
  BY ToBytesIs
<1>7. PICK sign \in {0, 1} : sign = fe_isnegative(x)
  BY ToBytesIs
<1>8. EncodedWith[h][recip] = [s EXCEPT ![StringBits] = (@ + sign) % 2]
  BY <1>1, <1>3, <1>5, <1>6, <1>7 DEF EncodedWith
<1>9. PICK n \in Nat : n = StringBits /\ n \in 1 .. n
  BY StringBitsIs
<1>10. s \in Seq({0, 1}) /\ Len(s) = n /\ s[n] \in {0, 1}
  BY <1>9, BitStringIs
<1>11. PICK b \in {0, 1} : b = (s[n] + sign) % 2
  <2>1. \A u, v \in {0, 1} : (u + v) % 2 \in {0, 1}
    BY SMT
  <2> QED
    BY <1>10, <2>1
<1>12. [s EXCEPT ![n] = b] \in Seq({0, 1}) /\ Len([s EXCEPT ![n] = b]) = n
  BY <1>9, <1>10
<1>13. [s EXCEPT ![StringBits] = (@ + sign) % 2] = [s EXCEPT ![n] = b]
  BY <1>9, <1>11
<1> QED
  BY <1>4, <1>8, <1>9, <1>12, <1>13 DEF BitString

-----------------------------------------------------------------------------
(* Keys. *)

(* SHA-512 gives every string of bits twice as many bits as a key has. *)
Sha512Total == \A s \in Seq({0, 1}) : Sha512[s] \in BitString(2 * StringBits)

(* One bit of a string replaced. *)
LEMMA BitPut ==
  ASSUME NEW n \in Nat, NEW s \in BitString(n), NEW i \in 1 .. n, NEW v \in {0, 1}, NEW t, Put(t, s, i, v)
  PROVE  t \in BitString(n) /\ t[i] = v
  BY DEF Put, BitString

(* A clamped scalar's top bit is clear. *)
LEMMA ClampedIs ==
  ASSUME NEW s \in BitString(StringBits)
  PROVE  Clamped(s) \in BitString(StringBits) /\ Clamped(s)[StringBits] = 0
<1>1. PICK n \in Nat : n = StringBits /\ n > 15
  BY StringBitsIs
<1>2. PICK i1 \in 1 .. n, i2 \in 1 .. n, i3 \in 1 .. n, m \in 1 .. n, top \in 1 .. n :
        i1 = 1 /\ i2 = 2 /\ i3 = 3 /\ m = n - 1 /\ top = n
  BY <1>1
<1>3. PICK t1 : Put(t1, s, i1, 0)
  BY DEF Put
<1>4. t1 \in BitString(n)
  BY <1>1, <1>2, <1>3, BitPut
<1>5. PICK t2 : Put(t2, t1, i2, 0)
  BY DEF Put
<1>6. t2 \in BitString(n)
  BY <1>1, <1>2, <1>4, <1>5, BitPut
<1>7. PICK t3 : Put(t3, t2, i3, 0)
  BY DEF Put
<1>8. t3 \in BitString(n)
  BY <1>1, <1>2, <1>6, <1>7, BitPut
<1>9. PICK t4 : Put(t4, t3, m, 1)
  BY DEF Put
<1>10. t4 \in BitString(n)
  BY <1>1, <1>2, <1>8, <1>9, BitPut
<1>11. PICK t5 : Put(t5, t4, top, 0)
  BY DEF Put
<1>12. t5 \in BitString(n) /\ t5[top] = 0
  BY <1>1, <1>2, <1>10, <1>11, BitPut
<1>13. Clamped(s) = t5
  BY <1>1, <1>2, <1>3, <1>5, <1>7, <1>9, <1>11 DEF Clamped, Put
<1> QED
  BY <1>1, <1>2, <1>12, <1>13

(* The public key of a keypair call. *)
LEMMA PublicKeyIs ==
  ASSUME Sha512Total, NEW s \in Seq({0, 1})
  PROVE  ed25519_create_keypair[s].public_key \in BitString(StringBits)
<1>1. PICK n \in Nat : n = StringBits
  BY StringBitsIs
<1>2. PICK h : h = Sha512[s]
  OBVIOUS
<1>3. h \in Seq({0, 1}) /\ Len(h) = 2 * n
  BY <1>1, <1>2 DEF Sha512Total, BitString
<1>4. Low(h) \in BitString(StringBits) /\ High(h) \in BitString(StringBits)
  <2>1. SubSeq(h, 1, n) \in Seq({0, 1}) /\ Len(SubSeq(h, 1, n)) = n
    BY <1>3, SubSeqProperties
  <2>2. SubSeq(h, n + 1, 2 * n) \in Seq({0, 1}) /\ Len(SubSeq(h, n + 1, 2 * n)) = n
    BY <1>3, SubSeqProperties
  <2> QED
    BY <1>1, <2>1, <2>2 DEF Low, High, BitString
<1>5. PICK a \in BitString(StringBits) : a = Clamped(Low(h)) /\ a[StringBits] = 0
  BY <1>4, ClampedIs
<1>6. PICK prefix \in BitString(StringBits) : prefix = High(h)
  BY <1>4
<1>7. s \in Fe /\ a \in Fe /\ prefix \in Fe
  <2>1. a \in Fe /\ prefix \in Fe
    BY StringBitsIs, BitStringIs
  <2>2. s \in Seq(Int)
    OBVIOUS
  <2> QED
    BY <2>1, <2>2 DEF Fe
<1>8. ed25519_create_keypair[s] = KeysOf[a][prefix]
  BY <1>2, <1>5, <1>6, <1>7 DEF ed25519_create_keypair
<1>9. KeysOf[a][prefix].public_key = PublicOf[a]
  BY <1>7 DEF KeysOf
<1>10. PublicOf[a] = ge_p3_tobytes(ge_scalarmult_base[a])
  BY <1>7 DEF PublicOf
<1>11. PICK p \in P3 : p = ge_scalarmult_base[a]
  BY <1>5, BaseMultipleIs
<1>12. ge_p3_tobytes(p) \in BitString(StringBits)
  BY EncodingIs
<1> QED
  BY <1>8, <1>9, <1>10, <1>11, <1>12

(* Bytes as bits, ... *)
LEMMA BitsOfBytesIs ==
  ASSUME NEW b \in Seq(Byte)
  PROVE  BitsOfBytes[b] \in Seq({0, 1})
<1>1. PICK n \in Nat : n = 8 * Len(b)
  OBVIOUS
<1>2. PICK t : t = [k \in 1 .. n |-> (b[(k + 7) \div 8] \div 2 ^ ((k - 1) % 8)) % 2]
  OBVIOUS
<1>3. \A k \in 1 .. n : t[k] \in {0, 1}
  <2> SUFFICES ASSUME NEW k \in 1 .. n
               PROVE  t[k] \in {0, 1}
    OBVIOUS
  <2>1. (k + 7) \div 8 \in 1 .. Len(b)
    BY <1>1, SMT
  <2>2. PICK x \in Nat : x = b[(k + 7) \div 8]
    BY <2>1 DEF Byte
  <2>3. PICK m \in Nat : m = (k - 1) % 8
    <3>1. (k - 1) % 8 \in Nat
      BY SMT
    <3> QED
      BY <3>1
  <2>4. PICK p \in Nat : p = 2 ^ m /\ p > 0
    BY TwoPower
  <2>5. x \div p \in Int
    BY <2>4, SMT
  <2>6. (x \div p) % 2 \in {0, 1}
    BY <2>5, SMT
  <2> QED
    BY <1>2, <2>2, <2>3, <2>4, <2>6
<1>4. t = [k \in 1 .. n |-> t[k]]
  BY <1>2
<1>5. t \o <<>> = t /\ t \in Seq({0, 1})
  BY <1>3, <1>4, Tupled
<1>6. BitsOfBytes[b] = t \o <<>>
  BY <1>1, <1>2 DEF BitsOfBytes, Byte
<1> QED
  BY <1>5, <1>6

(* ... and the bits of a key as bytes. *)
LEMMA BytesOfBitsIs ==
  ASSUME NEW s \in BitString(StringBits)
  PROVE  BytesOfBits[s] \in Seed
<1>1. PICK n \in Nat : n = StringBits
  BY StringBitsIs
<1>2. Len(s) = n /\ s \in Fe /\ \A i \in 1 .. n : s[i] \in {0, 1}
  BY <1>1, BitStringIs
<1>3. SeedBytes \in Nat /\ 8 * SeedBytes - 4 <= n - 1
  BY <1>1, NibblesAre, NibblesFit
<1>4. PICK t : t = [k \in 1 .. SeedBytes |-> Number(s, 8 * k - 8, IF 8 * k < Len(s) THEN 8 * k - 1 ELSE Len(s) - 1)]
  OBVIOUS
<1>5. \A k \in 1 .. SeedBytes : t[k] \in Byte
  <2> SUFFICES ASSUME NEW k \in 1 .. SeedBytes
               PROVE  t[k] \in Byte
    OBVIOUS
  <2>1. PICK from \in Nat, to \in Int :
          /\ from = 8 * k - 8 /\ to = (IF 8 * k < n THEN 8 * k - 1 ELSE n - 1)
          /\ from <= to + 1 /\ to + 1 <= n /\ to + 1 - from <= 8
    BY <1>3
  <2>2. t[k] = Number(s, from, to)
    BY <1>2, <1>4, <2>1
  <2>3. Binary(s, from, to)
    BY <1>2, <2>1 DEF Binary
  <2>4. Number(s, from, to) \in Nat /\ Number(s, from, to) < Power(2, to + 1 - from)
    BY <2>1, <2>3, NumberIs
  <2>5. PICK m \in Nat, more \in Nat : m = to + 1 - from /\ m + more = 8
    <3>1. to + 1 - from \in Nat /\ 8 - (to + 1 - from) \in Nat /\ (to + 1 - from) + (8 - (to + 1 - from)) = 8
      BY <2>1
    <3> QED
      BY <3>1
  <2>6. Power(2, m) \in Nat /\ Power(2, m) <= 256
    <3>1. PICK b \in Nat : b = 2 /\ b > 0
      OBVIOUS
    <3>2. Power(b, m) \in Nat /\ Power(b, m) <= Power(b, m + more)
      BY <3>1, PowerOf, PowerGrows
    <3> QED
      BY <2>5, <3>1, <3>2, TwoPowers
  <2> QED
    BY <2>2, <2>4, <2>5, <2>6 DEF Byte
<1>6. t = [k \in 1 .. SeedBytes |-> t[k]]
  BY <1>4
<1>7. t \o <<>> = t /\ t \in Seq(Byte) /\ Len(t) = SeedBytes
  BY <1>3, <1>5, <1>6, Tupled
<1>8. BytesOfBits[s] = t \o <<>>
  BY <1>2, <1>4 DEF BytesOfBits
<1> QED
  BY <1>7, <1>8 DEF Seed

(* A seed's key is a string of bytes as long as the seed. *)
LEMMA KeyIs ==
  ASSUME Sha512Total, NEW b \in Seed
  PROVE  KeyOf(b) \in Seed
<1>1. BitsOfBytes[b] \in Seq({0, 1})
  BY BitsOfBytesIs DEF Seed
<1> QED
  BY <1>1, PublicKeyIs, BytesOfBitsIs DEF KeyOf

-----------------------------------------------------------------------------
(* The lines a kernel prints. *)

(* The lines and the seeds they are for.  A line is printed for a tried    *)
(* seed when its address matches, and for no other.                        *)
LineOf(b) == [address |-> Address(b), seed |-> b58enc[b]]
TriedIn(T, b) == \E id \in Threads : \E n \in DOMAIN T[id] : \E k \in DOMAIN T[id][n] : T[id][n][k] = b

LinesMatch ==
  /\ \A line \in printed : \E b \in Seed : TriedIn(tried, b) /\ Match(Address(b)) /\ line = LineOf(b)
  /\ \A b \in Seed : TriedIn(tried, b) /\ Match(Address(b)) => LineOf(b) \in printed
FoundInv == ScanInv /\ LinesMatch

(* A thread's walks are replaced.                                        *)
Walked(T, U, id, walks) == U = [T EXCEPT ![id] = walks]

(* A launch adds an empty walk, in which nothing is tried yet. *)
LEMMA NothingTried ==
  ASSUME NEW T \in [Threads -> Seq(Seq(Seed))], NEW id \in Threads, NEW U, Walked(T, U, id, Append(T[id], <<>>)), NEW b
  PROVE  TriedIn(U, b) <=> TriedIn(T, b)
<1>1. U[id] = Append(T[id], <<>>) /\ \A o \in Threads : o # id => U[o] = T[o]
  BY DEF Walked
<1>2. PICK w : w = T[id]
  OBVIOUS
<1>3. w \in Seq(Seq(Seed))
  BY <1>2
<1>4. PICK v : v = Append(w, <<>>)
  OBVIOUS
<1>5. /\ DOMAIN w = 1 .. Len(w) /\ DOMAIN v = 1 .. Len(w) + 1 /\ Len(w) \in Nat
      /\ v[Len(w) + 1] = <<>> /\ \A n \in 1 .. Len(w) : v[n] = w[n]
  BY <1>3, <1>4
<1>6. DOMAIN v[Len(w) + 1] = {}
  BY <1>5
<1>7. ASSUME TriedIn(U, b)
      PROVE  TriedIn(T, b)
  <2>1. PICK o \in Threads : \E n \in DOMAIN U[o] : \E k \in DOMAIN U[o][n] : U[o][n][k] = b
    BY <1>7 DEF TriedIn
  <2>2. CASE o # id
    BY <1>1, <2>1, <2>2 DEF TriedIn
  <2>3. CASE o = id
    <3>1. PICK n \in DOMAIN v : \E k \in DOMAIN v[n] : v[n][k] = b
      <4>1. U[o] = v
        BY <1>1, <1>2, <1>4, <2>3
      <4> QED
        BY <2>1, <4>1
    <3>2. n \in 1 .. Len(w)
      BY <1>5, <1>6, <3>1
    <3>3. n \in DOMAIN w /\ \E k \in DOMAIN w[n] : w[n][k] = b
      BY <1>5, <3>1, <3>2
    <3> QED
      BY <1>2, <3>3 DEF TriedIn
  <2> QED
    BY <2>2, <2>3
<1>8. ASSUME TriedIn(T, b)
      PROVE  TriedIn(U, b)
  <2>1. PICK o \in Threads : \E n \in DOMAIN T[o] : \E k \in DOMAIN T[o][n] : T[o][n][k] = b
    BY <1>8 DEF TriedIn
  <2>2. CASE o # id
    BY <1>1, <2>1, <2>2 DEF TriedIn
  <2>3. CASE o = id
    <3>1. PICK n \in DOMAIN w : \E k \in DOMAIN w[n] : w[n][k] = b
      BY <1>2, <2>1, <2>3
    <3>2. n \in DOMAIN v /\ v[n] = w[n]
      BY <1>5
    <3>3. \E k \in DOMAIN v[n] : v[n][k] = b
      BY <3>1, <3>2
    <3> QED
      BY <1>1, <1>2, <1>4, <3>2, <3>3 DEF TriedIn
  <2> QED
    BY <2>2, <2>3
<1> QED
  BY <1>7, <1>8

(* An attempt adds its seed to the last walk. *)
LEMMA OneMoreTried ==
  ASSUME NEW T \in [Threads -> Seq(Seq(Seed))], NEW id \in Threads, NEW next \in Seed, NEW U,
         Walked(T, U, id, [T[id] EXCEPT ![Len(T[id])] = Append(@, next)]), T[id] # <<>>, NEW b
  PROVE  TriedIn(U, b) <=> TriedIn(T, b) \/ b = next
<1>1. PICK w : w = T[id]
  OBVIOUS
<1>2. w \in Seq(Seq(Seed)) /\ w # <<>>
  BY <1>1
<1>3. PICK m \in Nat : m = Len(w) /\ m \in 1 .. m
  BY <1>2
<1>4. PICK x \in Seq(Seed) : x = w[m]
  BY <1>2, <1>3
<1>5. PICK y : y = Append(x, next)
  OBVIOUS
<1>6. /\ DOMAIN x = 1 .. Len(x) /\ DOMAIN y = 1 .. Len(x) + 1 /\ Len(x) \in Nat
      /\ y[Len(x) + 1] = next /\ \A k \in 1 .. Len(x) : y[k] = x[k]
  BY <1>5
<1>7. PICK v : v = [w EXCEPT ![m] = y]
  OBVIOUS
<1>8. DOMAIN v = DOMAIN w /\ DOMAIN w = 1 .. m /\ v[m] = y /\ \A n \in 1 .. m : n # m => v[n] = w[n]
  BY <1>2, <1>3, <1>7
<1>9. U[id] = v /\ \A o \in Threads : o # id => U[o] = T[o]
  <2>1. [w EXCEPT ![m] = Append(@, next)] = v
    BY <1>2, <1>3, <1>4, <1>5, <1>7
  <2>2. Walked(T, U, id, v)
    BY <1>1, <1>3, <2>1
  <2> QED
    BY <2>2 DEF Walked
<1>10. ASSUME TriedIn(U, b)
       PROVE  TriedIn(T, b) \/ b = next
  <2>1. PICK o \in Threads : \E n \in DOMAIN U[o] : \E k \in DOMAIN U[o][n] : U[o][n][k] = b
    BY <1>10 DEF TriedIn
  <2>2. CASE o # id
    BY <1>9, <2>1, <2>2 DEF TriedIn
  <2>3. CASE o = id
    <3>1. PICK n \in DOMAIN v : \E k \in DOMAIN v[n] : v[n][k] = b
      BY <1>9, <2>1, <2>3
    <3>2. CASE n # m
      <4>1. n \in DOMAIN w /\ \E k \in DOMAIN w[n] : w[n][k] = b
        BY <1>8, <3>1, <3>2
      <4> QED
        BY <1>1, <4>1 DEF TriedIn
    <3>3. CASE n = m
      <4>1. PICK k \in DOMAIN y : y[k] = b
        BY <1>8, <3>1, <3>3
      <4>2. CASE k = Len(x) + 1
        BY <1>6, <4>1, <4>2
      <4>3. CASE k # Len(x) + 1
        <5>1. k \in DOMAIN x /\ x[k] = b
          BY <1>6, <4>1, <4>3
        <5>2. m \in DOMAIN w /\ \E j \in DOMAIN w[m] : w[m][j] = b
          BY <1>3, <1>4, <1>8, <5>1
        <5> QED
          BY <1>1, <5>2 DEF TriedIn
      <4> QED
        BY <4>2, <4>3
    <3> QED
      BY <3>2, <3>3
  <2> QED
    BY <2>2, <2>3
<1>11. ASSUME TriedIn(T, b)
       PROVE  TriedIn(U, b)
  <2>1. PICK o \in Threads : \E n \in DOMAIN T[o] : \E k \in DOMAIN T[o][n] : T[o][n][k] = b
    BY <1>11 DEF TriedIn
  <2>2. CASE o # id
    BY <1>9, <2>1, <2>2 DEF TriedIn
  <2>3. CASE o = id
    <3>1. PICK n \in DOMAIN w : \E k \in DOMAIN w[n] : w[n][k] = b
      BY <1>1, <2>1, <2>3
    <3>2. \E k \in DOMAIN v[n] : v[n][k] = b
      <4>1. CASE n # m
        BY <1>8, <3>1, <4>1
      <4>2. CASE n = m
        <5>1. PICK k \in DOMAIN x : x[k] = b
          BY <1>4, <3>1, <4>2
        <5>2. k \in DOMAIN y /\ y[k] = b
          BY <1>6, <5>1
        <5> QED
          BY <1>8, <4>2, <5>2
      <4> QED
        BY <4>1, <4>2
    <3>3. n \in DOMAIN v
      BY <1>8
    <3> QED
      BY <1>9, <3>2, <3>3 DEF TriedIn
  <2> QED
    BY <2>2, <2>3
<1>12. ASSUME b = next
       PROVE  TriedIn(U, b)
  <2>1. Len(x) + 1 \in DOMAIN y /\ y[Len(x) + 1] = b
    BY <1>6, <1>12
  <2>2. m \in DOMAIN v /\ \E k \in DOMAIN v[m] : v[m][k] = b
    BY <1>3, <1>8, <2>1
  <2> QED
    BY <1>9, <2>2 DEF TriedIn
<1> QED
  BY <1>10, <1>11, <1>12

(* Before the first launch nothing is tried or printed. *)
LEMMA FoundStarts == ScanInit => FoundInv
<1> SUFFICES ASSUME ScanInit PROVE FoundInv
  OBVIOUS
<1>1. printed = {} /\ tried = [id \in Threads |-> <<>>]
  BY DEF ScanInit
<1>2. \A b : ~TriedIn(tried, b)
  BY <1>1 DEF TriedIn
<1> QED
  BY <1>1, <1>2, ScanStarts DEF FoundInv, LinesMatch

(* A launch prints nothing and tries nothing. *)
LEMMA DrawFinds ==
  ASSUME FoundInv, NEW id \in Threads, Draw(id)
  PROVE  FoundInv'
<1>1. ScanInv'
  BY DrawKeeps DEF FoundInv
<1>2. tried \in [Threads -> Seq(Seq(Seed))]
  BY DEF FoundInv, ScanInv
<1>3. Walked(tried, tried', id, Append(tried[id], <<>>)) /\ printed' = printed
  BY <1>2 DEF Draw, Walked
<1>4. \A b : TriedIn(tried', b) <=> TriedIn(tried, b)
  BY <1>2, <1>3, NothingTried
<1> QED
  BY <1>1, <1>3, <1>4 DEF FoundInv, LinesMatch

(* An attempt prints the line of its seed exactly when the address matches. *)
LEMMA AttemptFinds ==
  ASSUME FoundInv, NEW id \in Threads, Attempt(id)
  PROVE  FoundInv'
<1>1. ScanInv'
  BY AttemptKeeps DEF FoundInv
<1>2. tried \in [Threads -> Seq(Seq(Seed))] /\ seed[id] \in Seed
      /\ Scanning(id, state[id], attempts[id], seed[id], tried[id])
  BY DEF FoundInv, ScanInv
<1>3. PICK next \in Seed : next = seed[id]
  BY <1>2
<1>4. tried[id] # <<>>
  BY <1>2, Attempts DEF Attempt, Scanning
<1>5. Walked(tried, tried', id, [tried[id] EXCEPT ![Len(tried[id])] = Append(@, next)])
  BY <1>2, <1>3 DEF Attempt, Walked
<1>6. \A b : TriedIn(tried', b) <=> TriedIn(tried, b) \/ b = next
  BY <1>2, <1>4, <1>5, OneMoreTried
<1>7. printed' = IF Match(Address(next)) THEN printed \union {LineOf(next)} ELSE printed
  BY <1>3 DEF Attempt, LineOf
<1>8. \A line \in printed' : \E b \in Seed : TriedIn(tried', b) /\ Match(Address(b)) /\ line = LineOf(b)
  <2> SUFFICES ASSUME NEW line \in printed'
               PROVE  \E b \in Seed : TriedIn(tried', b) /\ Match(Address(b)) /\ line = LineOf(b)
    OBVIOUS
  <2>1. CASE line \in printed
    <3>1. PICK b \in Seed : TriedIn(tried, b) /\ Match(Address(b)) /\ line = LineOf(b)
      BY <2>1 DEF FoundInv, LinesMatch
    <3> QED
      BY <1>6, <3>1
  <2>2. CASE line \notin printed
    <3>1. Match(Address(next)) /\ line = LineOf(next)
      BY <1>7, <2>2
    <3> QED
      BY <1>6, <3>1
  <2> QED
    BY <2>1, <2>2
<1>9. \A b \in Seed : TriedIn(tried', b) /\ Match(Address(b)) => LineOf(b) \in printed'
  <2> SUFFICES ASSUME NEW b \in Seed, TriedIn(tried', b), Match(Address(b))
               PROVE  LineOf(b) \in printed'
    OBVIOUS
  <2>1. CASE b = next
    BY <1>7, <2>1
  <2>2. CASE b # next
    <3>1. LineOf(b) \in printed
      BY <1>6, <2>2 DEF FoundInv, LinesMatch
    <3> QED
      BY <1>7, <3>1
  <2> QED
    BY <2>1, <2>2
<1> QED
  BY <1>1, <1>8, <1>9 DEF FoundInv, LinesMatch

(***************************************************************************)
(* The inductive invariant: the seeds' walks and the lines printed.        *)
(***************************************************************************)
THEOREM FoundInvariance == ScanSpec => []FoundInv
<1>1. FoundInv /\ [Scan]_scanVars => FoundInv'
  <2> SUFFICES ASSUME FoundInv, [Scan]_scanVars PROVE FoundInv'
    OBVIOUS
  <2>1. CASE Scan
    BY <2>1, DrawFinds, AttemptFinds DEF Scan
  <2>2. CASE UNCHANGED scanVars
    BY <2>2 DEF scanVars, FoundInv, LinesMatch, ScanInv
  <2> QED
    BY <2>1, <2>2
<1> QED
  BY <1>1, FoundStarts, PTL DEF ScanSpec

(* Matching from the end is having the suffix as the end. *)
LEMMA EndsMatch ==
  ASSUME NEW text \in Seq(Nat)
  PROVE  Match(text) <=> EndsInSuffix(text)
<1>1. suffix \in Seq(Nat) /\ Len(suffix) \in Nat /\ Len(text) \in Nat
  BY SuffixAssumption
<1>2. ASSUME Match(text)
      PROVE  EndsInSuffix(text)
  <2>1. PICK k \in 0 .. Len(text) : k = Len(text) - Len(suffix)
    <3>1. Len(text) - Len(suffix) \in 0 .. Len(text)
      BY <1>1, <1>2 DEF Match
    <3> QED
      BY <3>1
  <2>2. PICK t : t = SubSeq(text, k + 1, Len(text))
    OBVIOUS
  <2>3. t \in Seq(Nat) /\ Len(t) = Len(suffix) /\ \A j \in 1 .. Len(suffix) : t[j] = text[k + j]
    <3>1. t \in Seq(Nat) /\ Len(t) = Len(suffix) /\ \A j \in 1 .. Len(suffix) : t[j] = text[(k + 1) + j - 1]
      <4>1. \A i \in k + 1 .. Len(text) : text[i] \in Nat
        BY <1>1
      <4>2. (Len(text) - (k + 1)) + 1 = Len(suffix) /\ (k + 1 <= Len(text) <=> Len(suffix) > 0)
        BY <1>1, <2>1
      <4>3. /\ t \in Seq(Nat) /\ Len(t) = IF k + 1 <= Len(text) THEN (Len(text) - (k + 1)) + 1 ELSE 0
            /\ \A j \in 1 .. (Len(text) - (k + 1)) + 1 : t[j] = text[(k + 1) + j - 1]
        BY <1>1, <2>1, <2>2, <4>1, SubSeqProperties
      <4> QED
        BY <1>1, <4>2, <4>3
    <3>2. \A j \in 1 .. Len(suffix) : (k + 1) + j - 1 = k + j
      BY <1>1
    <3> QED
      BY <3>1, <3>2
  <2>4. \A j \in 1 .. Len(suffix) : text[k + j] = suffix[j]
    <3>1. \A j \in DOMAIN suffix : text[(Len(text) - Len(suffix)) + j] = suffix[j]
      BY <1>2 DEF Match
    <3>2. DOMAIN suffix = 1 .. Len(suffix)
      BY <1>1
    <3> QED
      BY <2>1, <3>1, <3>2
  <2>5. t = suffix
    BY <1>1, <2>3, <2>4, SeqEqual
  <2> QED
    BY <2>2, <2>5 DEF EndsInSuffix
<1>3. ASSUME EndsInSuffix(text)
      PROVE  Match(text)
  <2>1. PICK k \in 0 .. Len(text) : SubSeq(text, k + 1, Len(text)) = suffix
    BY <1>3 DEF EndsInSuffix
  <2>2. Len(suffix) = Len(text) - k /\ \A j \in 1 .. Len(text) - k : suffix[j] = text[(k + 1) + j - 1]
    BY <1>1, <2>1, SubSeqProperties
  <2>3. \A j \in DOMAIN suffix : text[Len(text) - Len(suffix) + j] = suffix[j]
    <3> SUFFICES ASSUME NEW j \in DOMAIN suffix
                 PROVE  text[Len(text) - Len(suffix) + j] = suffix[j]
      OBVIOUS
    <3>1. j \in 1 .. Len(text) - k /\ Len(text) - Len(suffix) + j = (k + 1) + j - 1
      BY <1>1, <2>2
    <3> QED
      BY <2>2, <3>1
  <2> QED
    BY <1>1, <2>2, <2>3 DEF Match
<1> QED
  BY <1>2, <1>3

(* The Base58 text of bytes is a sequence of digits. *)
LEMMA TextIs ==
  ASSUME NEW bin \in Seq(Byte)
  PROVE  b58enc[bin] \in Seq(Nat)
<1>1. PICK f \in Nat : \E rest, t, x : b58enc[bin] = Zeros(f) \o t /\ Same58(rest, t, x)
  BY EncodedIs
<1>2. PICK t : b58enc[bin] = Zeros(f) \o t /\ Bare(t, 58)
  BY <1>1 DEF Same58
<1> QED
  BY <1>2, ZerosAgain

(***************************************************************************)
(* The printed lines are the tried seeds whose address ends in the suffix, *)
(* each with its own key, and reading either text back gives the bytes.    *)
(***************************************************************************)
THEOREM FoundKeysAreExact == Sha512Total => (ScanSpec => []FoundKeysMatch)
<1>1. ASSUME Sha512Total, FoundInv
      PROVE  FoundKeysMatch
  <2>1. \A b \in Seed : /\ Decoded[b58enc[b]] = b /\ KeyOf(b) \in Seed /\ Decoded[Address(b)] = KeyOf(b)
                       /\ (Match(Address(b)) <=> EndsInSuffix(Address(b)))
    <3> SUFFICES ASSUME NEW b \in Seed
                 PROVE  /\ Decoded[b58enc[b]] = b /\ KeyOf(b) \in Seed /\ Decoded[Address(b)] = KeyOf(b)
                        /\ (Match(Address(b)) <=> EndsInSuffix(Address(b)))
      OBVIOUS
    <3>1. PICK key \in Seed : key = KeyOf(b)
      BY <1>1, KeyIs
    <3>2. b \in Seq(Byte) /\ key \in Seq(Byte)
      BY DEF Seed
    <3>3. Decoded[b58enc[b]] = b /\ Decoded[b58enc[key]] = key
      BY <3>2, Base58IsExact
    <3>4. Address(b) \in Seq(Nat)
      BY <3>1, <3>2, TextIs DEF Address
    <3> QED
      BY <3>1, <3>3, <3>4, EndsMatch DEF Address
  <2>2. tried \in [Threads -> Seq(Seq(Seed))]
    BY <1>1 DEF FoundInv, ScanInv
  <2>3. ASSUME NEW id \in Threads, NEW n \in DOMAIN tried[id], n = Len(tried[id]) /\ tried[id][n] # <<>>,
               NEW last, last = tried[id][n][Len(tried[id][n])]
        PROVE  /\ Decoded[Address(last)] = KeyOf(last) /\ Decoded[b58enc[last]] = last
               /\ [address |-> Address(last), seed |-> b58enc[last]] \in printed <=> EndsInSuffix(Address(last))
    <3>1. PICK walk \in Seq(Seed) : walk = tried[id][n] /\ walk # <<>>
      BY <2>2, <2>3
    <3>2. Len(walk) \in DOMAIN walk /\ last = walk[Len(walk)]
      BY <2>3, <3>1
    <3>3. last \in Seed
      BY <3>2
    <3>4. TriedIn(tried, last)
      BY <3>1, <3>2 DEF TriedIn
    <3>5. Decoded[Address(last)] = KeyOf(last) /\ Decoded[b58enc[last]] = last
      BY <2>1, <3>3
    <3>6. ASSUME LineOf(last) \in printed
          PROVE  EndsInSuffix(Address(last))
      <4>1. PICK b \in Seed : Match(Address(b)) /\ LineOf(last) = LineOf(b)
        BY <1>1, <3>6 DEF FoundInv, LinesMatch
      <4>2. b58enc[last] = b58enc[b]
        BY <4>1 DEF LineOf
      <4>3. last = b
        BY <2>1, <3>3, <4>2
      <4> QED
        BY <2>1, <4>1, <4>3
    <3>7. ASSUME EndsInSuffix(Address(last))
          PROVE  LineOf(last) \in printed
      <4>1. Match(Address(last))
        BY <2>1, <3>3, <3>7
      <4> QED
        BY <1>1, <3>3, <3>4, <4>1 DEF FoundInv, LinesMatch
    <3> QED
      BY <3>5, <3>6, <3>7 DEF LineOf
  <2>4. ASSUME NEW line \in printed
        PROVE  \E id \in Threads : \E n \in DOMAIN tried[id] : \E k \in DOMAIN tried[id][n] :
                 tried[id][n][k] = Decoded[line.seed] /\ KeyOf(tried[id][n][k]) = Decoded[line.address]
    <3>1. PICK b \in Seed : TriedIn(tried, b) /\ line = LineOf(b)
      BY <1>1, <2>4 DEF FoundInv, LinesMatch
    <3>2. Decoded[line.seed] = b /\ Decoded[line.address] = KeyOf(b)
      BY <2>1, <3>1 DEF LineOf
    <3> QED
      BY <3>1, <3>2 DEF TriedIn
  <2> QED
    BY <2>3, <2>4 DEF FoundKeysMatch, Address
<1>2. FoundInv /\ Sha512Total => FoundKeysMatch
  BY <1>1
<1> SUFFICES ASSUME Sha512Total PROVE ScanSpec => []FoundKeysMatch
  OBVIOUS
<1>3. FoundInv => FoundKeysMatch
  BY <1>2
<1> QED
  BY <1>3, FoundInvariance, PTL

-----------------------------------------------------------------------------
(* The enclave.  Both of its properties rest on what g_signing_params and  *)
(* its sealed copies have in common: a key of an enclave that was set up,  *)
(* and the counter_value it was created with.                              *)

Params == [initialized : BOOLEAN, key : Nat, counter : Nat, counter_value : Nat]

TypeInv ==
  /\ params \in Params
  /\ alive \in BOOLEAN
  /\ ctxt \in [enclaveEnabled : BOOLEAN, public_key : Nat]
  /\ blobs \in SUBSET Params
  /\ counters \in Seq(Nat) /\ passed \in Seq(Nat) /\ Len(passed) = Len(counters)
  /\ used \in Nat

(* A set-up enclave's parameters: the counter exists and its recorded      *)
(* value is the first one, whatever was restored since.                    *)
SetUp(p) == p.initialized /\ p.counter \in DOMAIN counters /\ p.counter_value = 1
ParamsInv == (alive => SetUp(params)) /\ \A data \in blobs : SetUp(data)

(* A counter stands at one more than it let through, or further. *)
CounterInv == \A c \in DOMAIN counters : passed[c] <= 1 /\ counters[c] >= 1 + passed[c]

EInv == TypeInv /\ ParamsInv /\ CounterInv /\ SignsAsPublished

-----------------------------------------------------------------------------
(* A machine starts without counters, sealed data or keys. *)
LEMMA EnclaveStarts == EnclaveInit => EInv
<1> SUFFICES ASSUME EnclaveInit PROVE EInv
  OBVIOUS
<1>1. TypeInv
  <2>1. params \in Params /\ ctxt \in [enclaveEnabled : BOOLEAN, public_key : Nat]
    BY DEF EnclaveInit, Params, Fresh, NoKey, NoContext
  <2>2. counters \in Seq(Nat) /\ passed \in Seq(Nat) /\ Len(passed) = Len(counters)
    BY DEF EnclaveInit
  <2>3. alive \in BOOLEAN /\ blobs \in SUBSET Params /\ used \in Nat
    BY DEF EnclaveInit
  <2>4. QED  BY <2>1, <2>2, <2>3 DEF TypeInv
<1>2. ParamsInv /\ SignsAsPublished
  <2>1. alive = FALSE /\ blobs = {}
    BY DEF EnclaveInit
  <2>2. QED  BY <2>1 DEF ParamsInv, SignsAsPublished
<1>3. CounterInv
  <2>1. DOMAIN counters = {}
    BY DEF EnclaveInit
  <2>2. QED  BY <2>1 DEF CounterInv
<1>4. QED  BY <1>1, <1>2, <1>3 DEF EInv

(* A new counter is the last one; the others keep their values. *)
LEMMA NewCounter ==
  ASSUME TypeInv, ParamsInv, CounterInv,
         counters' = Append(counters, 1), passed' = Append(passed, 0), blobs' = blobs
  PROVE  /\ counters' \in Seq(Nat) /\ passed' \in Seq(Nat) /\ Len(passed') = Len(counters')
         /\ Len(counters') \in DOMAIN counters' /\ CounterInv'
         /\ \A p : SetUp(p) => SetUp(p)'
  BY DEF TypeInv, CounterInv, SetUp

(* An increment keeps the counters' domain. *)
LEMMA Incremented ==
  ASSUME TypeInv, NEW c \in DOMAIN counters, counters' = [counters EXCEPT ![c] = @ + 1]
  PROVE  /\ counters' \in Seq(Nat) /\ DOMAIN counters' = DOMAIN counters /\ Len(counters') = Len(counters)
         /\ counters'[c] = counters[c] + 1
         /\ \A o \in DOMAIN counters : o # c => counters'[o] = counters[o]
  BY DEF TypeInv

(* init_ed25519 leaves a new key with a new counter. *)
LEMMA InitKeeps == ASSUME EInv, InitEd25519 PROVE EInv'
<1>1. /\ used' \in Nat /\ used' # NoKey
      /\ params' = [initialized |-> TRUE, key |-> used', counter |-> Len(counters'), counter_value |-> 1]
      /\ ctxt' = [enclaveEnabled |-> TRUE, public_key |-> used'] /\ alive' = TRUE
      /\ counters' = Append(counters, 1) /\ passed' = Append(passed, 0) /\ blobs' = blobs
  BY DEF InitEd25519, EInv, TypeInv, NoKey
<1>2. /\ counters' \in Seq(Nat) /\ passed' \in Seq(Nat) /\ Len(passed') = Len(counters')
      /\ Len(counters') \in DOMAIN counters' /\ CounterInv'
      /\ \A p : SetUp(p) => SetUp(p)'
  BY <1>1, NewCounter DEF EInv
<1>3. TypeInv'
  BY <1>1, <1>2 DEF EInv, TypeInv, Params
<1>4. ParamsInv'
  BY <1>1, <1>2 DEF EInv, ParamsInv, SetUp
<1>5. SignsAsPublished'
  BY <1>1 DEF SignsAsPublished, Signer
<1>6. QED  BY <1>2, <1>3, <1>4, <1>5 DEF EInv

(* A failing initialisation may leave its counter, never a key shown. *)
LEMMA InitFailureKeeps ==
  ASSUME EInv, NEW counted \in BOOLEAN, NEW cleared \in BOOLEAN, InitFails(counted, cleared)
  PROVE  EInv'
<1>1. /\ ~alive /\ params' = params /\ alive' = alive /\ blobs' = blobs /\ used' = used
      /\ ctxt' \in [enclaveEnabled : BOOLEAN, public_key : Nat]
  BY DEF InitFails, EInv, TypeInv, NoKey
<1>2. SignsAsPublished'
  BY <1>1 DEF SignsAsPublished
<1>3. CASE counted
  <2>1. counters' = Append(counters, 1) /\ passed' = Append(passed, 0)
    BY <1>3 DEF InitFails
  <2>2. /\ counters' \in Seq(Nat) /\ passed' \in Seq(Nat) /\ Len(passed') = Len(counters') /\ CounterInv'
        /\ \A p : SetUp(p) => SetUp(p)'
    BY <1>1, <2>1, NewCounter DEF EInv
  <2>3. QED  BY <1>1, <1>2, <2>2 DEF EInv, TypeInv, ParamsInv
<1>4. CASE ~counted
  <2>1. counters' = counters /\ passed' = passed
    BY <1>4 DEF InitFails
  <2>2. QED  BY <1>1, <1>2, <2>1 DEF EInv, TypeInv, ParamsInv, SetUp, CounterInv
<1>5. QED  BY <1>3, <1>4

(* Sealing stores what the context holds. *)
LEMMA SealKeeps == ASSUME EInv, GetData PROVE EInv'
  BY DEF GetData, EInv, TypeInv, ParamsInv, SetUp, CounterInv, SignsAsPublished, Signer

(* Restoring sealed data shows its key and uses its counter up. *)
LEMMA ReinitKeeps == ASSUME EInv, NEW data \in blobs, Reinit(data) PROVE EInv'
<1> DEFINE c == params.counter
<1>1. /\ alive /\ c \in DOMAIN counters /\ counters[c] = 1 /\ SetUp(data) /\ data \in Params
  BY DEF Reinit, CounterMatches, EInv, TypeInv, ParamsInv, SetUp
<1>2. /\ counters' = [counters EXCEPT ![c] = @ + 1] /\ passed' = [passed EXCEPT ![c] = @ + 1]
      /\ params' = Restored(data) /\ alive' = alive /\ blobs' = blobs /\ used' = used
      /\ ctxt' = [ctxt EXCEPT !.public_key = params'.key]
  BY DEF Reinit
<1>3. /\ params' \in Params /\ params'.initialized /\ params'.counter = data.counter
      /\ params'.counter_value = data.counter_value
  BY <1>1, <1>2 DEF Restored, Params
<1>4. /\ counters' \in Seq(Nat) /\ DOMAIN counters' = DOMAIN counters /\ Len(counters') = Len(counters)
      /\ counters'[c] = counters[c] + 1
      /\ \A o \in DOMAIN counters : o # c => counters'[o] = counters[o]
  BY <1>1, <1>2, Incremented DEF EInv
<1>5. /\ passed' \in Seq(Nat) /\ Len(passed') = Len(passed) /\ passed'[c] = passed[c] + 1
      /\ \A o \in DOMAIN counters : o # c => passed'[o] = passed[o]
  BY <1>1, <1>2 DEF EInv, TypeInv
<1>6. TypeInv'
  BY <1>2, <1>3, <1>4, <1>5 DEF EInv, TypeInv, Params
<1>7. ParamsInv'
  BY <1>1, <1>2, <1>3, <1>4 DEF EInv, ParamsInv, SetUp
<1>8. CounterInv'
  <2> SUFFICES ASSUME NEW o \in DOMAIN counters PROVE passed'[o] <= 1 /\ counters'[o] >= 1 + passed'[o]
    BY <1>4 DEF CounterInv
  <2>1. passed[o] \in Nat /\ counters[o] \in Nat /\ passed[o] <= 1 /\ counters[o] >= 1 + passed[o]
    BY DEF EInv, TypeInv, CounterInv
  <2>2. CASE o = c
    BY <1>1, <1>4, <1>5, <2>1, <2>2
  <2>3. CASE o # c
    BY <1>4, <1>5, <2>1, <2>3
  <2>4. QED  BY <2>2, <2>3
<1>9. SignsAsPublished'
  BY <1>2, <1>3 DEF SignsAsPublished, Signer, EInv, TypeInv
<1>10. QED  BY <1>6, <1>7, <1>8, <1>9 DEF EInv

(* A failing restore may use its counter up and shows nothing else. *)
LEMMA ReinitFailureKeeps ==
  ASSUME EInv, NEW data \in blobs, NEW incremented \in BOOLEAN, NEW cleared \in BOOLEAN,
         ReinitFails(data, incremented, cleared)
  PROVE  EInv'
<1> DEFINE c == params.counter
<1>1. /\ alive /\ c \in DOMAIN counters
      /\ params' = params /\ alive' = alive /\ blobs' = blobs /\ passed' = passed /\ used' = used
  BY DEF ReinitFails, EInv, ParamsInv, SetUp
<1>2. /\ counters' \in Seq(Nat) /\ DOMAIN counters' = DOMAIN counters /\ Len(counters') = Len(counters)
      /\ \A o \in DOMAIN counters : counters'[o] >= counters[o]
  <2>1. CASE incremented
    <3>1. counters' = [counters EXCEPT ![c] = @ + 1]
      BY <2>1 DEF ReinitFails
    <3>2. /\ counters' \in Seq(Nat) /\ DOMAIN counters' = DOMAIN counters /\ Len(counters') = Len(counters)
          /\ counters'[c] = counters[c] + 1
          /\ \A o \in DOMAIN counters : o # c => counters'[o] = counters[o]
      BY <1>1, <3>1, Incremented DEF EInv
    <3>3. \A o \in DOMAIN counters : counters[o] \in Nat
      BY DEF EInv, TypeInv
    <3>4. QED  BY <1>1, <3>2, <3>3
  <2>2. CASE ~incremented
    BY <2>2 DEF ReinitFails, EInv, TypeInv
  <2>3. QED  BY <2>1, <2>2
<1>3. /\ ctxt' \in [enclaveEnabled : BOOLEAN, public_key : Nat]
      /\ ctxt'.public_key # NoKey => ctxt'.public_key = ctxt.public_key
  BY DEF ReinitFails, AfterRefusal, EInv, TypeInv, NoKey
<1>4. TypeInv'
  BY <1>1, <1>2, <1>3 DEF EInv, TypeInv
<1>5. ParamsInv'
  BY <1>1, <1>2 DEF EInv, ParamsInv, SetUp
<1>6. CounterInv'
  <2> SUFFICES ASSUME NEW o \in DOMAIN counters PROVE passed[o] <= 1 /\ counters'[o] >= 1 + passed[o]
    BY <1>1, <1>2 DEF CounterInv
  <2>1. /\ passed[o] \in Nat /\ counters[o] \in Nat /\ counters'[o] \in Nat
        /\ passed[o] <= 1 /\ counters[o] >= 1 + passed[o]
    BY <1>2 DEF EInv, TypeInv, CounterInv
  <2>2. QED  BY <1>2, <2>1
<1>7. SignsAsPublished'
  BY <1>1, <1>3 DEF EInv, SignsAsPublished, Signer
<1>8. QED  BY <1>4, <1>5, <1>6, <1>7 DEF EInv

(* Signing, releasing and losing the enclave make no key or counter. *)
LEMMA OthersKeep == ASSUME EInv, SignWith \/ ReleaseContext \/ LoseEnclave PROVE EInv'
<1>1. CASE SignWith
  BY <1>1 DEF SignWith, EInv, TypeInv, ParamsInv, SetUp, CounterInv, SignsAsPublished, Signer
<1>2. CASE ReleaseContext
  BY <1>2 DEF ReleaseContext, EInv, TypeInv, Params, Fresh, NoKey, ParamsInv, SetUp, CounterInv, SignsAsPublished
<1>3. CASE LoseEnclave
  <2>1. /\ alive' = FALSE /\ params' \in Params /\ ctxt' \in [enclaveEnabled : BOOLEAN, public_key : Nat]
        /\ blobs' = blobs /\ counters' = counters /\ passed' = passed /\ used' = used
    <3>1. NoContext \in [enclaveEnabled : BOOLEAN, public_key : Nat] /\ Fresh \in Params
      BY DEF NoContext, Fresh, NoKey, Params
    <3>2. ctxt \in [enclaveEnabled : BOOLEAN, public_key : Nat]
      BY DEF EInv, TypeInv
    <3>3. ctxt' = ctxt \/ ctxt' = NoContext
      BY <1>3 DEF LoseEnclave
    <3>4. /\ alive' = FALSE /\ params' = Fresh
          /\ blobs' = blobs /\ counters' = counters /\ passed' = passed /\ used' = used
      BY <1>3 DEF LoseEnclave
    <3>5. QED  BY <3>1, <3>2, <3>3, <3>4
  <2>2. QED  BY <2>1 DEF EInv, TypeInv, ParamsInv, SetUp, CounterInv, SignsAsPublished
<1>4. QED  BY <1>1, <1>2, <1>3

(* Every reachable state of the enclave satisfies its inductive invariant. *)
THEOREM EnclaveInvariance == EnclaveSpec => []EInv
<1>1. EInv /\ [Enclave]_enclaveVars => EInv'
  <2> SUFFICES ASSUME EInv, [Enclave]_enclaveVars PROVE EInv'
    OBVIOUS
  <2>1. CASE UNCHANGED enclaveVars
    <3>1. /\ params' = params /\ alive' = alive /\ ctxt' = ctxt /\ blobs' = blobs
          /\ counters' = counters /\ passed' = passed /\ used' = used
      BY <2>1 DEF enclaveVars
    <3>2. TypeInv' /\ CounterInv'
      BY <3>1 DEF EInv, TypeInv, CounterInv
    <3>3. ParamsInv' /\ SignsAsPublished'
      BY <3>1 DEF EInv, ParamsInv, SetUp, SignsAsPublished, Signer
    <3>4. QED  BY <3>2, <3>3 DEF EInv
  <2>2. CASE Enclave
    BY <2>2, InitKeeps, InitFailureKeeps, SealKeeps, ReinitKeeps, ReinitFailureKeeps, OthersKeep DEF Enclave
  <2>3. QED  BY <2>1, <2>2
<1>2. QED  BY <1>1, EnclaveStarts, PTL DEF EnclaveSpec

(* A public key the host's context shows is the one the enclave signs      *)
(* with, whatever calls failed and whatever data was restored.             *)
THEOREM KeysArePublished == EnclaveSpec => []SignsAsPublished
<1>1. EInv => SignsAsPublished
  BY DEF EInv
<1>2. QED  BY <1>1, EnclaveInvariance, PTL

(* No monotonic counter lets two reinitialisations through. *)
THEOREM OneReinitPerCounter == EnclaveSpec => []CountersPassOnce
<1>1. EInv => CountersPassOnce
  <2>1. TypeInv => DOMAIN passed = DOMAIN counters
    BY DEF TypeInv
  <2>2. QED  BY <2>1 DEF EInv, CounterInv, CountersPassOnce
<1>2. QED  BY <1>1, EnclaveInvariance, PTL
=============================================================================
