---------------------------- MODULE GroupElement ----------------------------
(***************************************************************************)
(* The points of the curve -x^2 + y^2 = 1 + d x^2 y^2 (ge.cu, ge.c,        *)
(* precomp_data.h).  Points are records of field elements in the code's    *)
(* four coordinate systems: p2 (X:Y:Z), p3 with T = XY/Z, p1p1 the result  *)
(* of an addition, and the two forms of a right operand, cached and        *)
(* precomp.  The tables of precomp_data.h are given by the rule that       *)
(* generated them.                                                         *)
(***************************************************************************)
EXTENDS ScalarMod

CONSTANTS
  d, d2, sqrtm1,  \* the curve's constant, its double, a root of -1, as limbs
  BaseX, BaseY    \* the base point

ASSUME CurveAssumption == \A c \in {d, d2, sqrtm1, BaseX, BaseY} : c \in Fe /\ Len(c) = 10
(* The last byte of a string has bits in both of its halves. *)
ASSUME NibbleAssumption == StringBits % 8 = 0 \/ StringBits % 8 > 4

-----------------------------------------------------------------------------
ge_p2      == [X : Fe, Y : Fe, Z : Fe]
ge_p3      == [X : Fe, Y : Fe, Z : Fe, T : Fe]
ge_p1p1    == [X : Fe, Y : Fe, Z : Fe, T : Fe]
ge_cached  == [YplusX : Fe, YminusX : Fe, Z : Fe, T2d : Fe]
ge_precomp == [yplusx : Fe, yminusx : Fe, xy2d : Fe]

ge_p2_0 == [X |-> fe_0, Y |-> fe_1, Z |-> fe_1]
ge_p3_0 == [X |-> fe_0, Y |-> fe_1, Z |-> fe_1, T |-> fe_0]

ge_p1p1_to_p2 ==
  [p \in ge_p1p1 |-> [X |-> fe_mul[p.X][p.T], Y |-> fe_mul[p.Y][p.Z], Z |-> fe_mul[p.Z][p.T]]]
ge_p1p1_to_p3 ==
  [p \in ge_p1p1 |-> [X |-> fe_mul[p.X][p.T], Y |-> fe_mul[p.Y][p.Z],
                      Z |-> fe_mul[p.Z][p.T], T |-> fe_mul[p.X][p.Y]]]
ge_p3_to_p2(p) == [X |-> fe_copy[p.X], Y |-> fe_copy[p.Y], Z |-> fe_copy[p.Z]]
ge_p3_to_cached ==
  [p \in ge_p3 |-> [YplusX |-> fe_add[p.Y][p.X], YminusX |-> fe_sub[p.Y][p.X],
                    Z |-> fe_copy[p.Z], T2d |-> fe_mul[p.T][d2]]]

(* p + q from (y+x)(y'+x'), (y-x)(y'-x'), 2dTT' and 2ZZ'.                  *)
Joined ==
  [plus \in Fe |-> [minus \in Fe |-> [t \in Fe |-> [z \in Fe |->
     [X |-> fe_sub[plus][minus], Y |-> fe_add[plus][minus], Z |-> fe_add[z][t], T |-> fe_sub[z][t]]]]]]
(* The same for p - q, whose 2dTT' is subtracted. *)
Parted ==
  [plus \in Fe |-> [minus \in Fe |-> [t \in Fe |-> [z \in Fe |->
     [X |-> fe_sub[plus][minus], Y |-> fe_add[plus][minus], Z |-> fe_sub[z][t], T |-> fe_add[z][t]]]]]]
Twice == [f \in Fe |-> fe_add[f][f]]

ge_add ==
  [p \in ge_p3 |-> [q \in ge_cached |->
     Joined[fe_mul[fe_add[p.Y][p.X]][q.YplusX]][fe_mul[fe_sub[p.Y][p.X]][q.YminusX]]
           [fe_mul[q.T2d][p.T]][Twice[fe_mul[p.Z][q.Z]]]]]
ge_sub ==
  [p \in ge_p3 |-> [q \in ge_cached |->
     Parted[fe_mul[fe_add[p.Y][p.X]][q.YminusX]][fe_mul[fe_sub[p.Y][p.X]][q.YplusX]]
           [fe_mul[q.T2d][p.T]][Twice[fe_mul[p.Z][q.Z]]]]]
ge_madd ==
  [p \in ge_p3 |-> [q \in ge_precomp |->
     Joined[fe_mul[fe_add[p.Y][p.X]][q.yplusx]][fe_mul[fe_sub[p.Y][p.X]][q.yminusx]]
           [fe_mul[q.xy2d][p.T]][fe_add[p.Z][p.Z]]]]
ge_msub ==
  [p \in ge_p3 |-> [q \in ge_precomp |->
     Parted[fe_mul[fe_add[p.Y][p.X]][q.yminusx]][fe_mul[fe_sub[p.Y][p.X]][q.yplusx]]
           [fe_mul[q.xy2d][p.T]][fe_add[p.Z][p.Z]]]]

FromSquares ==
  [xx \in Fe |-> [yy \in Fe |-> [zz2 \in Fe |-> [xy \in Fe |->
     [X |-> fe_sub[xy][fe_add[yy][xx]], Y |-> fe_add[yy][xx], Z |-> fe_sub[yy][xx],
      T |-> fe_sub[zz2][fe_sub[yy][xx]]]]]]]
ge_p2_dbl ==
  [p \in ge_p2 |-> FromSquares[fe_sq[p.X]][fe_sq[p.Y]][fe_sq2[p.Z]][fe_sq[fe_add[p.X][p.Y]]]]
ge_p3_dbl == [p \in ge_p3 |-> ge_p2_dbl[ge_p3_to_p2(p)]]

(* y with the sign of x in the top bit. *)
EncodedWith ==
  [h \in ge_p2 \union ge_p3 |-> [recip \in Fe |->
     [fe_tobytes[fe_mul[h.Y][recip]] EXCEPT
        ![StringBits] = (@ + fe_isnegative(fe_mul[h.X][recip])) % 2]]]
Encoded == [h \in ge_p2 \union ge_p3 |-> EncodedWith[h][fe_invert[h.Z]]]
ge_tobytes(h)    == Encoded[h]
ge_p3_tobytes(h) == Encoded[h]

(* The point -A that s encodes, or Invalid.  x is uv^3 (uv^7)^((q-5)/8).   *)
Invalid == [error |-> -1]
Root ==
  [u, v \in Fe |->
     LET v3 == fe_mul[fe_sq[v]][v]
     IN fe_mul[fe_mul[fe_pow22523[fe_mul[fe_mul[fe_sq[v3]][v]][u]]][v3]][u]]
Signed ==
  [x, y \in Fe, sign \in {0, 1} |->
     LET nx == IF fe_isnegative(x) = sign THEN fe_neg[x] ELSE x
     IN [X |-> nx, Y |-> y, Z |-> fe_1, T |-> fe_mul[nx][y]]]
ge_frombytes_negate_vartime ==
  [s \in Fe |->
     LET y  == fe_frombytes[s]
         yy == fe_sq[y]
         u  == fe_sub[yy][fe_1]
         v  == fe_add[fe_mul[yy][d]][fe_1]
         root == Root[u, v]
         vxx == fe_mul[fe_sq[root]][v]
     IN IF ~fe_isnonzero(fe_sub[vxx][u]) THEN Signed[root, y, s[StringBits]]
        ELSE IF ~fe_isnonzero(fe_add[vxx][u]) THEN Signed[fe_mul[root][sqrtm1], y, s[StringBits]]
        ELSE Invalid]

-----------------------------------------------------------------------------
(* The tables.  base[pos][j] is j 256^pos B and Bi[j] is (2j - 1) B, each  *)
(* scaled to Z = 1.                                                        *)
PrecompOf ==
  [x \in Fe |-> [y \in Fe |->
     [yplusx |-> fe_add[y][x], yminusx |-> fe_sub[y][x], xy2d |-> fe_mul[fe_mul[x][y]][d2]]]]
ScaledBy == [p \in ge_p3 |-> [recip \in Fe |-> PrecompOf[fe_mul[p.X][recip]][fe_mul[p.Y][recip]]]]
Precomp  == [p \in ge_p3 |-> ScaledBy[p][fe_invert[p.Z]]]

B == [X |-> BaseX, Y |-> BaseY, Z |-> fe_1, T |-> fe_mul[BaseX][BaseY]]

Plus     == [p \in ge_p3 |-> [q \in ge_p3 |-> ge_p1p1_to_p3[ge_add[p][ge_p3_to_cached[q]]]]]
Times256 == [p \in ge_p3 |->
               Along([q \in ge_p3 |-> [k \in Nat |-> ge_p1p1_to_p3[ge_p3_dbl[q]]]], p, <<1, 2, 3, 4, 5, 6, 7, 8>>)]
Nibbles  == 2 * ((StringBits + 7) \div 8)
Powers   == Along([ps \in Seq(ge_p3) |-> [k \in Nat |-> Append(ps, Times256[ps[k]])]], <<B>>,
                  [k \in 1..(Nibbles \div 2 - 1) |-> k])
Table    == [p \in ge_p3 |-> [by \in ge_p3 |->
               LET ps == Along([qs \in Seq(ge_p3) |-> [k \in Nat |-> Append(qs, Plus[qs[k]][by])]],
                               <<p>>, <<1, 2, 3, 4, 5, 6, 7>>)
               IN [k \in 1..8 |-> Precomp[ps[k]]] \o <<>>]]

base == [k \in 1..(Nibbles \div 2) |-> Table[Powers[k]][Powers[k]]] \o <<>>
Bi   == Table[B][Plus[B][B]]

-----------------------------------------------------------------------------
(* select: b 256^pos B for -8 <= b <= 8, without a branch on b.            *)
cmov ==
  [t \in ge_precomp |-> [u \in ge_precomp |-> [b \in {0, 1} |->
     [yplusx |-> fe_cmov[t.yplusx][u.yplusx][b], yminusx |-> fe_cmov[t.yminusx][u.yminusx][b],
      xy2d |-> fe_cmov[t.xy2d][u.xy2d][b]]]]]
equal(b, c) == IF b = c THEN 1 ELSE 0
negative(b) == IF b < 0 THEN 1 ELSE 0
Negated     == [t \in ge_precomp |-> [yplusx |-> t.yminusx, yminusx |-> t.yplusx, xy2d |-> fe_neg[t.xy2d]]]
NegatedIf   == [t \in ge_precomp |-> [b \in {0, 1} |-> cmov[t][Negated[t]][b]]]
select ==
  [pos \in Nat |-> [b \in -8..8 |->
     NegatedIf[Along([u \in ge_precomp |-> [j \in Nat |->
                        cmov[u][base[pos + 1][j]][equal(b - 2 * (negative(b) * b), j)]]],
                     [yplusx |-> fe_1, yminusx |-> fe_1, xy2d |-> fe_0], <<1, 2, 3, 4, 5, 6, 7, 8>>)]
              [negative(b)]]]

(* The signed digits of a in base 16: component i + 1 is e[i]. *)
Nibble(a, i) == Number(a, 4 * i, IF 4 * i + 3 < StringBits THEN 4 * i + 3 ELSE StringBits - 1)
NibbleCarry ==
  [e \in Fe |-> [i \in Nat |->
     LET carry == (e[i] + 8) \div 16 IN [e EXCEPT ![i] = @ - 16 * carry, ![i + 1] = @ + carry]]]
SignedNibbles ==
  [a \in Fe |-> Along(NibbleCarry, [i \in 1..Nibbles |-> Nibble(a, i - 1)] \o <<>>,
                      [i \in 1..(Nibbles - 1) |-> i])]

AddDigits ==
  [h \in ge_p3 |-> [e \in Fe |-> [first \in {0, 1} |->
     Along([p \in ge_p3 |-> [i \in Nat |-> ge_p1p1_to_p3[ge_madd[p][select[i \div 2][e[i + 1]]]]]], h,
           [k \in 1..(Nibbles \div 2) |-> 2 * (k - 1) + first])]]]
Times16 ==
  [h \in ge_p3 |->
     ge_p1p1_to_p3[ge_p2_dbl[Along([s \in ge_p2 |-> [k \in Nat |-> ge_p1p1_to_p2[ge_p2_dbl[s]]]],
                                   ge_p1p1_to_p2[ge_p3_dbl[h]], <<1, 2>>)]]]
(* a B: the odd digits, sixteen times, the even digits. *)
ge_scalarmult_base ==
  [a \in Fe |-> LET e == SignedNibbles[a] IN AddDigits[Times16[AddDigits[ge_p3_0][e][1]]][e][0]]

-----------------------------------------------------------------------------
(* slide: a as sum of r[i] 2^i with r[i] odd or 0 and |r[i]| <= 15.        *)
Absorb(r, i, j) ==
  LET top == r[j] * 2 ^ (j - i)
      free == {k \in j..StringBits : r[k] = 0}
      stop == IF free = {} THEN StringBits + 1 ELSE CHOOSE k \in free : \A m \in free : k <= m
  IN CASE r[i] + top <= 15  -> [r EXCEPT ![i] = @ + top, ![j] = 0]
       [] r[i] - top >= -15 -> [k \in 1..StringBits |->
                                  IF k = i THEN r[i] - top
                                  ELSE IF k = stop THEN 1
                                  ELSE IF k \in j..stop THEN 0
                                  ELSE r[k]] \o <<>>
Fits(r, i, j) == r[i] + r[j] * 2 ^ (j - i) <= 15 \/ r[i] - r[j] * 2 ^ (j - i) >= -15

(* The inner loop at i: it ends at the first digit that does not fit. *)
SlideAt ==
  [r \in Fe |-> [i \in Nat |->
     IF r[i] = 0 THEN r
     ELSE Along([rb \in Fe \X BOOLEAN |-> [b \in Nat |->
                   LET j == i + b
                   IN IF rb[2] \/ j > StringBits \/ rb[1][j] = 0 THEN rb
                      ELSE IF Fits(rb[1], i, j) THEN <<Absorb(rb[1], i, j), FALSE>> ELSE <<rb[1], TRUE>>]],
                <<r, FALSE>>, <<1, 2, 3, 4, 5, 6>>)[1]]]
slide == [a \in Fe |-> Along(SlideAt, a, [i \in 1..StringBits |-> i])]

(* Mutant: the multiples are A, 2A, ..., 8A. *)
OddMultiplesByOne ==
  [A \in ge_p3 |->
     Along([ai \in Seq(ge_cached) |-> [k \in Nat |-> Append(ai, ge_p3_to_cached[ge_p1p1_to_p3[ge_add[A][ai[k]]]])]],
           <<ge_p3_to_cached[A]>>, <<1, 2, 3, 4, 5, 6, 7>>)]

(* A, 3A, ..., 15A and a A + b B, from the top digit down. *)
OddMultiples ==
  [A \in ge_p3 |->
     LET A2 == ge_p1p1_to_p3[ge_p3_dbl[A]]
     IN Along([ai \in Seq(ge_cached) |-> [k \in Nat |-> Append(ai, ge_p3_to_cached[ge_p1p1_to_p3[ge_add[A2][ai[k]]]])]],
              <<ge_p3_to_cached[A]>>, <<1, 2, 3, 4, 5, 6, 7>>)]

WithA ==
  [t \in ge_p1p1, digit \in Int, Ai \in Seq(ge_cached) |->
     CASE digit > 0 -> ge_add[ge_p1p1_to_p3[t]][Ai[digit \div 2 + 1]]
       [] digit < 0 -> ge_sub[ge_p1p1_to_p3[t]][Ai[(-digit) \div 2 + 1]]
       [] OTHER     -> t]
WithB ==
  [t \in ge_p1p1, digit \in Int |->
     CASE digit > 0 -> ge_madd[ge_p1p1_to_p3[t]][Bi[digit \div 2 + 1]]
       [] digit < 0 -> ge_msub[ge_p1p1_to_p3[t]][Bi[(-digit) \div 2 + 1]]
       [] OTHER     -> t]

TopDigit(a, b) ==
  LET used == {i \in 1..StringBits : a[i] # 0 \/ b[i] # 0}
  IN IF used = {} THEN 0 ELSE CHOOSE i \in used : \A k \in used : k <= i

SlidDouble ==
  [a, b \in Fe, Ai \in Seq(ge_cached) |->
     LET top == TopDigit(a, b)
     IN Along([r \in ge_p2 |-> [i \in Nat |-> ge_p1p1_to_p2[WithB[WithA[ge_p2_dbl[r], a[i], Ai], b[i]]]]],
              ge_p2_0, [k \in 1..top |-> top + 1 - k])]

ge_double_scalarmult_vartime(a, A, b) == SlidDouble[slide[a], slide[b], OddMultiples[A]]
=============================================================================
