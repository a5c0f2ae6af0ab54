-------------------------------- MODULE Sha2 --------------------------------
(***************************************************************************)
(* SHA-256 (sha256.cu with the macros of tomcrypt_macros.h) and SHA-512    *)
(* (sha512.cu, sha512.c), which differ in the width of a word and in the   *)
(* parameters collected in a record alg.  A word is a tuple of 16-bit      *)
(* limbs, most significant first; data is a sequence of bytes.             *)
(***************************************************************************)
EXTENDS Words

Sha256 == [limbs |-> 2, rounds |-> 64, block |-> 64, room |-> 56,
           Sigma0 |-> <<2, 13, 22>>, Sigma1 |-> <<6, 11, 25>>, Gamma0 |-> <<7, 18, 3>>, Gamma1 |-> <<17, 19, 10>>]
Sha512 == [limbs |-> 4, rounds |-> 80, block |-> 128, room |-> 112,
           Sigma0 |-> <<28, 34, 39>>, Sigma1 |-> <<14, 18, 41>>, Gamma0 |-> <<1, 8, 7>>, Gamma1 |-> <<19, 61, 6>>]

(* The constants of SHA-512, sixteen rounds at a time; those of SHA-256    *)
(* are their upper halves.                                                 *)
K0 == <<
  <<17034, 12184, 55080, 44578>>, <<28983, 17553, 9199, 26061>>, <<46528, 64463, 60493, 15151>>,
  <<59829, 56229, 33161, 56252>>, <<14678, 49755, 62280, 46392>>, <<23025, 4593, 46597, 53273>>,
  <<37439, 33444, 44825, 20379>>, <<43804, 24277, 55917, 33048>>, <<55303, 43672, 41731, 578>>,
  <<4739, 23297, 17776, 28606>>, <<9265, 34238, 20196, 45708>>, <<21772, 32195, 54783, 46306>>,
  <<29374, 23924, 62075, 35183>>, <<32990, 45566, 15126, 38577>>, <<39900, 1703, 9671, 4661>>,
  <<49563, 61812, 53097, 9876>> >>
K16 == <<
  <<58523, 27073, 40689, 19154>>, <<61374, 18310, 14415, 9699>>, <<4033, 40390, 35724, 54709>>,
  <<9228, 41420, 30636, 40037>>, <<11753, 11375, 22827, 629>>, <<19060, 33962, 28326, 58499>>,
  <<23728, 43484, 48449, 64468>>, <<30457, 35034, 33553, 21429>>, <<38974, 20818, 61030, 57259>>,
  <<43057, 50797, 11700, 12816>>, <<45059, 10184, 39163, 8511>>, <<48985, 32711, 48879, 3812>>,
  <<50912, 3059, 15784, 36802>>, <<54695, 37191, 37642, 42789>>, <<1738, 25425, 57347, 33391>>,
  <<5161, 10599, 2574, 28272>> >>
K32 == <<
  <<10167, 2693, 18130, 12284>>, <<11803, 8504, 23590, 51494>>, <<19756, 28156, 23236, 10989>>,
  <<21304, 3347, 40341, 46047>>, <<25866, 29524, 35759, 25566>>, <<30314, 2747, 15479, 45736>>,
  <<33218, 51502, 18413, 44774>>, <<37490, 11397, 5250, 13627>>, <<41663, 59553, 19697, 868>>,
  <<43034, 26187, 48194, 12289>>, <<49739, 35696, 53496, 38801>>, <<51052, 20899, 1620, 48688>>,
  <<53650, 59417, 55023, 21016>>, <<54937, 1572, 21861, 43280>>, <<62478, 13701, 22385, 8234>>,
  <<4202, 41072, 12987, 53688>> >>
K48 == <<
  <<6564, 49430, 47314, 53448>>, <<7735, 27656, 20801, 43859>>, <<10056, 30540, 57230, 60313>>,
  <<13488, 48309, 57755, 18600>>, <<14620, 3251, 50633, 23139>>, <<20184, 43594, 58177, 35531>>,
  <<23452, 51791, 30563, 58227>>, <<26670, 28659, 54962, 47267>>, <<29839, 33518, 24047, 45820>>,
  <<30885, 25455, 17175, 12128>>, <<33992, 30740, 41456, 43890>>, <<36039, 520, 6756, 14828>>,
  <<37054, 65530, 9059, 7720>>, <<42064, 27883, 56962, 48617>>, <<48889, 41975, 45766, 30997>>,
  <<50801, 30962, 58226, 21291>> >>
K64 == <<
  <<51751, 16078, 59942, 24988>>, <<53638, 47303, 8640, 49671>>, <<60122, 32214, 52704, 60190>>,
  <<62845, 20351, 61038, 53624>>, <<1776, 26538, 29207, 28602>>, <<2659, 32197, 41672, 39078>>,
  <<4415, 38916, 48889, 3502>>, <<7025, 2869, 4892, 18203>>, <<10459, 30709, 8964, 32132>>,
  <<13002, 43899, 16583, 9363>>, <<15518, 48650, 5577, 48828>>, <<17181, 26564, 39952, 3404>>,
  <<19653, 54462, 52030, 17078>>, <<22911, 10652, 64613, 32298>>, <<24523, 28587, 15062, 64236>>,
  <<27716, 6540, 19015, 22551>> >>
K == K0 \o K16 \o K32 \o K48 \o K64
InitialState == <<
  <<27145, 58983, 62396, 51464>>, <<47975, 44677, 33994, 42811>>, <<15470, 62322, 65172, 63531>>,
  <<42319, 62778, 24349, 14065>>, <<20750, 21119, 44518, 33489>>, <<39685, 26764, 11070, 27679>>,
  <<8067, 55723, 64321, 48491>>, <<23520, 52505, 4990, 8569>> >>

Narrow(alg, words) == [i \in DOMAIN words |-> SubSeq(words[i], 1, alg.limbs)] \o <<>>
K256 == Narrow(Sha256, K)
KOf(alg) == IF alg.limbs = 4 THEN K ELSE K256

Ch(x, y, z)  == Xor[z][And[x][Xor[y][z]]]
Maj(x, y, z) == Or[And[Or[x][y]][z]][And[x][y]]
Sigma(by, x) == Xor[Xor[RotR[x][by[1]]][RotR[x][by[2]]]][RotR[x][by[3]]]
Gamma(by, x) == Xor[Xor[RotR[x][by[1]]][RotR[x][by[2]]]][ShiftR[x][by[3]]]

(* W[0..15] from the block, the others from them. *)
Load(alg, block) ==
  [i \in 1..16 |-> [l \in 1..alg.limbs |->
     256 * block[2 * alg.limbs * (i - 1) + 2 * l - 1] + block[2 * alg.limbs * (i - 1) + 2 * l]] \o <<>>] \o <<>>
Schedule(alg, block) ==
  Along([w \in Seq(Seq(Nat)) |-> [i \in Nat |->
           Append(w, Plus[Plus[Gamma(alg.Gamma1, w[i - 2])][w[i - 7]]]
                         [Plus[Gamma(alg.Gamma0, w[i - 15])][w[i - 16]]])]],
        Load(alg, block), [i \in 1..(alg.rounds - 16) |-> i + 16])

(* RND; the registers move on by one instead of changing places. *)
Moved == [s \in Seq(Seq(Nat)) |-> [t0 \in Seq(Nat) |-> [t1 \in Seq(Nat) |->
            <<Plus[t0][t1], s[1], s[2], s[3], Plus[s[4]][t0], s[5], s[6], s[7]>>]]]
Rnd(alg, s, kw) ==
  Moved[s][Plus[Plus[s[8]][Sigma(alg.Sigma1, s[5])]][Plus[Ch(s[5], s[6], s[7])][kw]]]
       [Plus[Sigma(alg.Sigma0, s[1])][Maj(s[1], s[2], s[3])]]

Compressed(alg, state, w) ==
  Along([s \in Seq(Seq(Nat)) |-> [i \in Nat |-> Rnd(alg, s, Plus[KOf(alg)[i]][w[i]])]], state,
        [i \in 1..alg.rounds |-> i])
Sums == [x \in Seq(Seq(Nat)) |-> [y \in Seq(Seq(Nat)) |-> [i \in DOMAIN x |-> Plus[x[i]][y[i]]] \o <<>>]]
compress ==
  [alg \in {Sha256, Sha512} |-> [state \in Seq(Seq(Nat)) |-> [block \in Seq(Nat) |->
     LET w == Schedule(alg, block) IN Sums[state][Compressed(alg, state, w)]]]]

-----------------------------------------------------------------------------
(* The streaming state: curlen is Len(buf), length counts bits.            *)
init(alg) == [state |-> Narrow(alg, InitialState), length |-> 0, buf |-> <<>>]
HashState == [state : Seq(Seq(Nat)), length : Nat, buf : Seq(Nat)]

Absorbed ==
  [alg \in {Sha256, Sha512} |-> [md \in HashState |-> [block \in Seq(Nat) |->
     [state |-> compress[alg][md.state][block], length |-> md.length + 8 * alg.block, buf |-> <<>>]]]]

(* One turn of the loop of process: <<md, the bytes still to take>>.  A    *)
(* whole block is compressed where it is, others are gathered in buf.      *)
Turn(alg, t) ==
  LET n == IF Len(t[2]) < alg.block - Len(t[1].buf) THEN Len(t[2]) ELSE alg.block - Len(t[1].buf)
      filled == t[1].buf \o SubSeq(t[2], 1, n)
  IN IF Len(filled) = alg.block
     THEN <<Absorbed[alg][t[1]][filled], SubSeq(t[2], n + 1, Len(t[2]))>>
     ELSE <<[t[1] EXCEPT !.buf = filled], SubSeq(t[2], n + 1, Len(t[2]))>>
process ==
  [alg \in {Sha256, Sha512} |-> [md \in HashState |-> [in \in Seq(Nat) |->
     Along([t \in HashState \X Seq(Nat) |-> [k \in Nat |-> IF t[2] = <<>> THEN t ELSE Turn(alg, t)]],
           <<md, in>>, [k \in 1..(Len(in) \div alg.block + 2) |-> k])[1]]]]

ZeroBytes(n) == [k \in 1..n |-> 0] \o <<>>
FourBytes(n) == <<(n \div 16777216) % 256, (n \div 65536) % 256, (n \div 256) % 256, n % 256>>
LengthBytes(n) == FourBytes((n \div 65536) \div 65536) \o FourBytes(n)
WordBytes ==
  [alg \in {Sha256, Sha512} |-> [words \in Seq(Seq(Nat)) |->
     [k \in 1..(16 * alg.limbs) |->
        LET limb == words[(k - 1) \div (2 * alg.limbs) + 1][((k - 1) % (2 * alg.limbs)) \div 2 + 1]
        IN IF k % 2 = 1 THEN limb \div 256 ELSE limb % 256] \o <<>>]]

(* done, final: the one bit, zeros, through a block of its own if there is *)
(* no room for the length.                                                 *)
PaddingEarly(alg, md) ==  \* mutant: an exactly fitting tail gets a block of its own
  LET one == md.buf \o <<128>>
  IN IF Len(one) >= alg.room
     THEN <<one \o ZeroBytes(alg.block - Len(one)), ZeroBytes(alg.block - 8)>>
     ELSE <<one \o ZeroBytes(alg.block - 8 - Len(one))>>
Padding(alg, md) ==
  LET one == md.buf \o <<128>>
  IN IF Len(one) > alg.room
     THEN <<one \o ZeroBytes(alg.block - Len(one)), ZeroBytes(alg.block - 8)>>
     ELSE <<one \o ZeroBytes(alg.block - 8 - Len(one))>>

(* The last block or two, the length at the end of the last. *)
Ended ==
  [alg \in {Sha256, Sha512} |-> [state \in Seq(Seq(Nat)) |-> [blocks \in Seq(Seq(Nat)) |-> [bits \in Nat |->
     WordBytes[alg][Along([s \in Seq(Seq(Nat)) |-> [k \in Nat |->
                             compress[alg][s][IF k = Len(blocks) THEN blocks[k] \o LengthBytes(bits) ELSE blocks[k]]]],
                          state, [k \in DOMAIN blocks |-> k])]]]]]
done(alg, md) == Ended[alg][md.state][Padding(alg, md)][md.length + 8 * Len(md.buf)]

hash(alg, message) == done(alg, process[alg][init(alg)][message])
=============================================================================
