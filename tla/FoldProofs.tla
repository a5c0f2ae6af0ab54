----------------------------- MODULE FoldProofs -----------------------------
(***************************************************************************)
(* Folds over sequences of any length.  Induction is stated on sets, which *)
(* the provers can instantiate: a set of numbers with 0 and the successor  *)
(* of each member has all of them, because its complement would have a     *)
(* least element.  At the end, numbers as digits and powers of a base.     *)
(***************************************************************************)
EXTENDS Strict, WellFoundedInduction, SequenceTheorems, TLAPS

(* A set of natural numbers has a least element. *)
LEMMA Least ==
  ASSUME NEW S, S \subseteq Nat, S # {}
  PROVE  \E j \in S : \A m \in S : j <= m
<1> DEFINE Below == OpToRel(<, Nat)
<1>1. IsWellFoundedOn(Below, Nat)
  BY NatLessThanWellFounded
<1>2. \A x, y \in Nat : <<y, x>> \in Below <=> y < x
  BY DEF OpToRel
<1> HIDE DEF Below
<1>3. PICK x \in S : \A y \in S : ~ (<<y, x>> \in Below)
  BY <1>1, WFMin
<1>4. ASSUME NEW y \in S
      PROVE  x <= y
  <2>1. x \in Nat /\ y \in Nat /\ ~(y < x)
    BY <1>2, <1>3
  <2> QED
    BY <2>1
<1> QED
  BY <1>3, <1>4

(* A set with 0 and the successor of each member has every number. *)
LEMMA Induction ==
  ASSUME NEW S, 0 \in S, \A n \in Nat : n \in S => n + 1 \in S
  PROVE  Nat \subseteq S
<1> DEFINE T == Nat \ S
<1>1. SUFFICES ASSUME T # {}
               PROVE  FALSE
  OBVIOUS
<1>2. T \subseteq Nat
  OBVIOUS
<1>3. \A x \in T : x \in Nat /\ x \notin S
  OBVIOUS
<1> HIDE DEF T
<1>4. PICK x \in T : \A m \in T : x <= m
  BY <1>1, <1>2, Least
<1>5. x \in Nat /\ x # 0
  BY <1>3, <1>4
<1>6. x - 1 \in Nat /\ ~(x <= x - 1)
  BY <1>5
<1>7. x - 1 \in S
  BY <1>4, <1>6 DEF T
<1> QED
  BY <1>3, <1>4, <1>5, <1>6, <1>7

(* Up to a bound. *)
LEMMA InductionTo ==
  ASSUME NEW n \in Nat, NEW S, 0 \in S, \A k \in 1 .. n : k - 1 \in S => k \in S
  PROVE  0 .. n \subseteq S
<1> DEFINE U == {k \in Nat : k <= n => k \in S}
<1>1. 0 \in U
  OBVIOUS
<1>2. \A k \in Nat : k \in U => k + 1 \in U
  OBVIOUS
<1> HIDE DEF U
<1>3. Nat \subseteq U
  BY <1>1, <1>2, Induction
<1> QED
  BY <1>3 DEF U

-----------------------------------------------------------------------------
(* The recursion of Walk and Along has a solution, ...                     *)
Runs(v, step, first, s, n) == v = [k \in 0 .. n |-> IF k = 0 THEN first ELSE step[v[k - 1]][s[k]]]

(* There is such a sequence of values, ... *)
LEMMA RunExists ==
  ASSUME NEW step, NEW first, NEW s, NEW n \in Nat
  PROVE  \E v : Runs(v, step, first, s, n)
<1> DEFINE S == {m \in Nat : \E v : Runs(v, step, first, s, m)}
<1>1. 0 \in S
  <2> DEFINE w == [k \in 0 .. 0 |-> first]
  <2>1. Runs(w, step, first, s, 0)
    BY DEF Runs
  <2> QED
    BY <2>1
<1>2. ASSUME NEW m \in Nat, m \in S
      PROVE  m + 1 \in S
  <2>1. PICK v : Runs(v, step, first, s, m)
    BY <1>2
  <2> DEFINE w == [k \in 0 .. m + 1 |-> IF k <= m THEN v[k] ELSE step[v[m]][s[m + 1]]]
  <2>2. \A k \in 0 .. m : w[k] = v[k] /\ v[k] = IF k = 0 THEN first ELSE step[v[k - 1]][s[k]]
    BY <2>1 DEF Runs
  <2>3. w[m + 1] = step[v[m]][s[m + 1]]
    OBVIOUS
  <2>4. \A k \in 0 .. m + 1 : w[k] = IF k = 0 THEN first ELSE step[w[k - 1]][s[k]]
    <3> SUFFICES ASSUME NEW k \in 0 .. m + 1
                 PROVE  w[k] = IF k = 0 THEN first ELSE step[w[k - 1]][s[k]]
      OBVIOUS
    <3>1. CASE k = m + 1
      <4>1. k # 0 /\ k - 1 = m /\ m \in 0 .. m
        BY <3>1
      <4> HIDE DEF w
      <4> QED
        BY <2>2, <2>3, <3>1, <4>1
    <3>2. CASE k # m + 1 /\ k # 0
      <4>1. k \in 0 .. m /\ k - 1 \in 0 .. m
        BY <3>2
      <4> HIDE DEF w
      <4> QED
        BY <2>2, <3>2, <4>1
    <3>3. CASE k = 0
      <4>1. k \in 0 .. m
        BY <3>3
      <4> HIDE DEF w
      <4> QED
        BY <2>2, <3>3, <4>1
    <3> QED
      BY <3>1, <3>2, <3>3
  <2>5. w = [k \in 0 .. m + 1 |-> w[k]]
    OBVIOUS
  <2> HIDE DEF w
  <2>6. Runs(w, step, first, s, m + 1)
    BY <2>4, <2>5 DEF Runs
  <2> QED
    BY <2>6
<1> HIDE DEF S
<1>3. Nat \subseteq S
  BY <1>1, <1>2, Induction
<1> QED
  BY <1>3 DEF S

(* ... and Walk ends where one does. *)
LEMMA WalkRuns ==
  ASSUME NEW step, NEW first, NEW T, NEW s \in Seq(T)
  PROVE  \E v : Runs(v, step, first, s, Len(s)) /\ Walk(step, first, s) = v[Len(s)]
<1>1. \E v : Runs(v, step, first, s, Len(s))
  BY RunExists
<1> DEFINE value == CHOOSE v : v = [k \in 0 .. Len(s) |-> IF k = 0 THEN first ELSE step[v[k - 1]][s[k]]]
<1>2. Walk(step, first, s) = value[Len(s)]
  BY DEF Walk
<1>3. Runs(value, step, first, s, Len(s))
  BY <1>1 DEF Runs
<1> QED
  BY <1>2, <1>3

(* ... which is the only one: any values that follow the steps agree.      *)
Follows(w, step, first, s, n) == w[0] = first /\ \A k \in 1 .. n : w[k] = step[w[k - 1]][s[k]]

LEMMA RunUnique ==
  ASSUME NEW step, NEW first, NEW s, NEW n \in Nat, NEW v, Runs(v, step, first, s, n),
         NEW w, Follows(w, step, first, s, n)
  PROVE  \A k \in 0 .. n : w[k] = v[k]
<1> USE DEF Follows
<1> DEFINE S == {k \in 0 .. n : w[k] = v[k]}
<1>1. \A k \in 0 .. n : v[k] = IF k = 0 THEN first ELSE step[v[k - 1]][s[k]]
  BY DEF Runs
<1>2. 0 \in S
  BY <1>1
<1>3. \A k \in 1 .. n : k - 1 \in S => k \in S
  BY <1>1
<1> HIDE DEF S
<1>4. 0 .. n \subseteq S
  BY <1>2, <1>3, InductionTo
<1> QED
  BY <1>4 DEF S

(* Along goes on where the last piece ended. *)
LEMMA PieceOf ==
  ASSUME NEW T, NEW s \in Seq(T), NEW j \in Nat, 12 * j < Len(s), NEW end,
         end = IF 12 * (j + 1) < Len(s) THEN 12 * (j + 1) ELSE Len(s)
  PROVE  /\ Piece(s, j + 1) \in Seq(T)
         /\ Len(Piece(s, j + 1)) = end - 12 * j
         /\ \A k \in 1 .. end - 12 * j : Piece(s, j + 1)[k] = s[12 * j + k]
<1>1. end \in Nat /\ end <= Len(s) /\ 12 * j + 1 <= end
  <2>1. Len(s) \in Nat
    OBVIOUS
  <2> QED
    BY <2>1
<1>2. Piece(s, j + 1) = SubSeq(s, 12 * (j + 1) - 11, end)
  BY DEF Piece
<1>3. PICK m \in Nat : m = 12 * (j + 1) - 11 /\ m = 12 * j + 1 /\ m >= 1
  OBVIOUS
<1>4. /\ SubSeq(s, m, end) \in Seq(T) /\ Len(SubSeq(s, m, end)) = end - m + 1
      /\ \A k \in 1 .. end - m + 1 : SubSeq(s, m, end)[k] = s[m + k - 1]
  <2>1. m <= end
    BY <1>1, <1>3
  <2> QED
    BY ONLY <1>1, <1>3, <2>1, s \in Seq(T)
<1>5. end - m + 1 = end - 12 * j /\ \A k \in 1 .. end - 12 * j : m + k - 1 = 12 * j + k
  BY ONLY <1>1, <1>3, j \in Nat
<1>6. Piece(s, j + 1) = SubSeq(s, m, end)
  BY <1>2, <1>3
<1> QED
  BY <1>4, <1>5, <1>6

(* Along, piece by piece, ends where the values of one walk end. *)
LEMMA AlongRuns ==
  ASSUME NEW step, NEW first, NEW T, NEW s \in Seq(T)
  PROVE  \E v : Runs(v, step, first, s, Len(s)) /\ Along(step, first, s) = v[Len(s)]
<1>1. PICK v : Runs(v, step, first, s, Len(s))
  BY RunExists
<1> DEFINE M == (Len(s) + 11) \div 12
           End(j) == IF 12 * j < Len(s) THEN 12 * j ELSE Len(s)
           Next(x, j) == CHOOSE y \in {Walk(step, z, piece) : z \in {x}, piece \in {Piece(s, j)}} : TRUE
           UpTo(u) == u = [j \in 0 .. M |-> IF j = 0 THEN first ELSE Next(u[j - 1], j)]
<1>2. M \in Nat /\ 12 * M >= Len(s) /\ End(M) = Len(s) /\ \A j \in 0 .. M - 1 : 12 * j < Len(s)
  OBVIOUS
<1>3. ASSUME NEW x, NEW j
      PROVE  Next(x, j) = Walk(step, x, Piece(s, j))
  OBVIOUS
<1>4. ASSUME NEW j \in 1 .. M
      PROVE  Walk(step, v[End(j - 1)], Piece(s, j)) = v[End(j)]
  <2> DEFINE p == Piece(s, j)
             b == 12 * (j - 1)
             x == v[b]
  <2>1. b \in Nat /\ b < Len(s) /\ End(j - 1) = b /\ (j - 1) + 1 = j /\ j - 1 \in Nat
    BY <1>2
  <2>2. p \in Seq(T) /\ Len(p) = End(j) - b /\ \A k \in 1 .. Len(p) : p[k] = s[b + k]
    <3> DEFINE i == j - 1
    <3>1. i \in Nat /\ 12 * i < Len(s) /\ i + 1 = j /\ b = 12 * i
      BY <2>1
    <3>2. End(j) = IF 12 * (i + 1) < Len(s) THEN 12 * (i + 1) ELSE Len(s)
      BY <3>1
    <3> HIDE DEF i, b, End
    <3>3. /\ Piece(s, i + 1) \in Seq(T) /\ Len(Piece(s, i + 1)) = End(j) - 12 * i
          /\ \A k \in 1 .. End(j) - 12 * i : Piece(s, i + 1)[k] = s[12 * i + k]
      BY <3>1, <3>2, PieceOf
    <3> QED
      BY <3>1, <3>3
  <2> HIDE DEF p, x
  <2>3. PICK w : Runs(w, step, x, p, Len(p)) /\ Walk(step, x, p) = w[Len(p)]
    BY <2>2, WalkRuns
  <2> DEFINE y == [k \in 0 .. Len(p) |-> v[b + k]]
  <2>4. \A k \in 0 .. Len(s) : v[k] = IF k = 0 THEN first ELSE step[v[k - 1]][s[k]]
    BY <1>1 DEF Runs
  <2>5. \A k \in 0 .. Len(p) : y[k] = v[b + k] /\ b + k \in 0 .. Len(s)
    BY <2>1, <2>2
  <2>6. Len(p) \in Nat /\ y[0] = x
    BY <2>1, <2>2, <2>5 DEF x
  <2>7. ASSUME NEW k \in 1 .. Len(p)
        PROVE  y[k] = step[y[k - 1]][p[k]]
    <3> DEFINE n == b + k
    <3>1. n \in 0 .. Len(s) /\ n # 0 /\ y[k] = v[n] /\ k - 1 \in 0 .. Len(p) /\ n - 1 = b + (k - 1)
      BY <2>1, <2>5, <2>6
    <3>2. y[k - 1] = v[n - 1] /\ p[k] = s[n]
      BY <2>2, <2>5, <3>1
    <3> HIDE DEF y, n
    <3> QED
      BY <2>4, <3>1, <3>2
  <2> HIDE DEF y
  <2>8. \A k \in 0 .. Len(p) : y[k] = w[k]
    <3>1. \A k \in 1 .. Len(p) : y[k] = step[y[k - 1]][p[k]]
      BY <2>7
    <3>2. PICK n \in Nat : n = Len(p)
      BY <2>6
    <3>3. Runs(w, step, x, p, n) /\ Follows(y, step, x, p, n)
      BY <2>3, <2>6, <3>1, <3>2 DEF Follows
    <3>4. \A k \in 0 .. n : y[k] = w[k]
      BY ONLY <3>3, n \in Nat, RunUnique
    <3> QED
      BY <3>2, <3>4
  <2>9. y[Len(p)] = v[End(j)]
    <3>1. End(j) \in Nat /\ b + Len(p) = End(j)
      BY <2>1, <2>2
    <3>2. PICK n \in Nat : n = Len(p)
      BY <2>6
    <3>3. y[n] = v[b + n]
      <4>1. n \in 0 .. Len(p)
        BY ONLY <3>2
      <4> QED
        BY ONLY <2>5, <4>1
    <3> QED
      BY ONLY <3>1, <3>2, <3>3
  <2> QED
    BY <2>1, <2>3, <2>6, <2>8, <2>9 DEF x, p
<1> HIDE DEF Next
<1> DEFINE good == [j \in 0 .. M |-> v[End(j)]]
<1>5. UpTo(good)
  <2>1. \A j \in 1 .. M : good[j] = v[End(j)] /\ good[j - 1] = v[End(j - 1)]
    BY <1>2
  <2>2. \A j \in 1 .. M : good[j] = Next(good[j - 1], j)
    <3> SUFFICES ASSUME NEW j \in 1 .. M
                 PROVE  good[j] = Next(good[j - 1], j)
      OBVIOUS
    <3>1. Next(v[End(j - 1)], j) = Walk(step, v[End(j - 1)], Piece(s, j))
      BY <1>3
    <3> HIDE DEF good
    <3> QED
      BY <1>4, <2>1, <3>1
  <2>3. v[0] = first /\ good[0] = v[0]
    BY <1>1, <1>2 DEF Runs
  <2>4. \A j \in 0 .. M : good[j] = IF j = 0 THEN first ELSE Next(good[j - 1], j)
    <3> HIDE DEF good, M
    <3> QED
      BY <1>2, <2>2, <2>3
  <2>5. good = [j \in 0 .. M |-> good[j]]
    OBVIOUS
  <2> HIDE DEF good
  <2> QED
    BY <2>4, <2>5
<1> DEFINE u == CHOOSE f : UpTo(f)
<1>6. UpTo(u)
  BY <1>5
<1>7. Along(step, first, s) = u[M]
  BY DEF Along, Next
<1> HIDE DEF u
<1>8. \A j \in 0 .. M : u[j] = v[End(j)]
  <2> DEFINE S == {j \in 0 .. M : u[j] = v[End(j)]}
  <2>1. \A j \in 0 .. M : u[j] = IF j = 0 THEN first ELSE Next(u[j - 1], j)
    BY <1>6
  <2>2. 0 \in S
    <3>1. v[0] = first /\ End(0) = 0
      BY <1>1 DEF Runs
    <3> QED
      BY <1>2, <2>1, <3>1
  <2>3. \A j \in 1 .. M : j - 1 \in S => j \in S
    <3> SUFFICES ASSUME NEW j \in 1 .. M, j - 1 \in S
                 PROVE  u[j] = v[End(j)]
      OBVIOUS
    <3>1. u[j] = Next(u[j - 1], j) /\ u[j - 1] = v[End(j - 1)]
      BY <2>1
    <3>2. Next(v[End(j - 1)], j) = Walk(step, v[End(j - 1)], Piece(s, j))
      BY <1>3
    <3> QED
      BY <1>4, <3>1, <3>2
  <2> HIDE DEF S
  <2>4. 0 .. M \subseteq S
    BY <1>2, <2>2, <2>3, InductionTo
  <2> QED
    BY <2>4 DEF S
<1>9. u[M] = v[Len(s)]
  BY <1>2, <1>8
<1> QED
  BY <1>1, <1>7, <1>9

-----------------------------------------------------------------------------
(* What a user of Along needs.  Its value is the end of any sequence of    *)
(* values that follows the steps; ...                                      *)
LEMMA AlongIs ==
  ASSUME NEW step, NEW first, NEW T, NEW s \in Seq(T), NEW w, Follows(w, step, first, s, Len(s))
  PROVE  Along(step, first, s) = w[Len(s)]
<1>1. PICK v : Runs(v, step, first, s, Len(s)) /\ Along(step, first, s) = v[Len(s)]
  BY AlongRuns
<1>2. PICK n \in Nat : n = Len(s)
  OBVIOUS
<1>3. \A k \in 0 .. n : w[k] = v[k]
  <2>1. Runs(v, step, first, s, n) /\ Follows(w, step, first, s, n)
    BY <1>1, <1>2
  <2> QED
    BY ONLY <2>1, n \in Nat, RunUnique
<1> QED
  BY <1>1, <1>2, <1>3

(* ... and there is one.                                                   *)
LEMMA AlongHas ==
  ASSUME NEW step, NEW first, NEW T, NEW s \in Seq(T)
  PROVE  \E w : Follows(w, step, first, s, Len(s)) /\ Along(step, first, s) = w[Len(s)]
<1>1. PICK v : Runs(v, step, first, s, Len(s)) /\ Along(step, first, s) = v[Len(s)]
  BY AlongRuns
<1>2. Len(s) \in Nat /\ \A k \in 0 .. Len(s) : v[k] = IF k = 0 THEN first ELSE step[v[k - 1]][s[k]]
  BY <1>1 DEF Runs
<1>3. Follows(v, step, first, s, Len(s))
  BY <1>2 DEF Follows
<1> QED
  BY <1>1, <1>3

(* Along nothing. *)
LEMMA AlongNothing ==
  ASSUME NEW step, NEW first
  PROVE  Along(step, first, <<>>) = first
<1>1. <<>> \in Seq({}) /\ Len(<<>>) = 0
  OBVIOUS
<1> DEFINE w == [k \in {0} |-> first]
<1>2. w[0] = first
  OBVIOUS
<1> HIDE DEF w
<1>3. PICK s \in Seq({}) : s = <<>>
  BY <1>1
<1>4. Along(step, first, s) = w[Len(s)]
  <2>1. Follows(w, step, first, s, Len(s))
    BY <1>1, <1>2, <1>3 DEF Follows
  <2> QED
    BY <2>1, AlongIs
<1> QED
  BY <1>1, <1>2, <1>3, <1>4

(* One more element, one more step. *)
LEMMA AlongAppend ==
  ASSUME NEW step, NEW first, NEW T, NEW s \in Seq(T), NEW t \in Seq(T),
         Len(t) = Len(s) + 1, \A k \in 1 .. Len(s) : t[k] = s[k]
  PROVE  Along(step, first, t) = step[Along(step, first, s)][t[Len(t)]]
<1>1. PICK w : Follows(w, step, first, t, Len(t)) /\ Along(step, first, t) = w[Len(t)]
  BY AlongHas
<1>2. Len(s) \in Nat
  OBVIOUS
<1>3. Follows(w, step, first, s, Len(s))
  BY <1>1, <1>2 DEF Follows
<1>4. Along(step, first, s) = w[Len(s)]
  BY <1>1, <1>3, AlongIs
<1>5. w[Len(t)] = step[w[Len(t) - 1]][t[Len(t)]] /\ Len(t) - 1 = Len(s)
  BY <1>1, <1>2 DEF Follows
<1> QED
  BY <1>1, <1>4, <1>5

(* The value after k elements is in J[k]. *)
LEMMA AlongInvariant ==
  ASSUME NEW step, NEW first, NEW T, NEW s \in Seq(T), NEW J, first \in J[0],
         \A k \in 1 .. Len(s) : \A x \in J[k - 1] : step[x][s[k]] \in J[k]
  PROVE  Along(step, first, s) \in J[Len(s)]
<1>1. PICK w : Follows(w, step, first, s, Len(s)) /\ Along(step, first, s) = w[Len(s)]
  BY AlongHas
<1> DEFINE S == {k \in 0 .. Len(s) : w[k] \in J[k]}
<1>2. Len(s) \in Nat
  OBVIOUS
<1>3. 0 \in S
  BY <1>1, <1>2 DEF Follows
<1>4. \A k \in 1 .. Len(s) : k - 1 \in S => k \in S
  <2> SUFFICES ASSUME NEW k \in 1 .. Len(s), w[k - 1] \in J[k - 1]
               PROVE  w[k] \in J[k]
    BY <1>2
  <2> QED
    BY <1>1 DEF Follows
<1> HIDE DEF S
<1>5. 0 .. Len(s) \subseteq S
  BY <1>2, <1>3, <1>4, InductionTo
<1> QED
  BY <1>1, <1>2, <1>5 DEF S

(* The value is in I all the way. *)
LEMMA AlongStays ==
  ASSUME NEW step, NEW first, NEW T, NEW s \in Seq(T), NEW I, first \in I,
         \A x \in I : \A e \in T : step[x][e] \in I
  PROVE  Along(step, first, s) \in I
<1> DEFINE J == [k \in 0 .. Len(s) |-> I]
<1>1. Len(s) \in Nat /\ \A k \in 1 .. Len(s) : s[k] \in T
  OBVIOUS
<1>2. \A k \in 0 .. Len(s) : J[k] = I
  OBVIOUS
<1>3. \A k \in 1 .. Len(s) : k - 1 \in 0 .. Len(s) /\ k \in 0 .. Len(s)
  BY <1>1
<1> HIDE DEF J
<1>4. first \in J[0] /\ \A k \in 1 .. Len(s) : \A x \in J[k - 1] : step[x][s[k]] \in J[k]
  BY <1>1, <1>2, <1>3
<1>5. Along(step, first, s) \in J[Len(s)]
  BY <1>4, AlongInvariant
<1> QED
  BY <1>1, <1>2, <1>5

(* Two folds agree whose steps agree on the values in I. *)
Agree(f, g, I, s, t) == \A k \in 1 .. Len(s) : \A x \in I : f[x][s[k]] \in I /\ f[x][s[k]] = g[x][t[k]]

LEMMA AlongAgree ==
  ASSUME NEW f, NEW g, NEW first, NEW T, NEW s \in Seq(T), NEW t \in Seq(T), Len(s) = Len(t),
         NEW I, first \in I, Agree(f, g, I, s, t)
  PROVE  Along(f, first, s) = Along(g, first, t)
<1>1. PICK w : Follows(w, f, first, s, Len(s)) /\ Along(f, first, s) = w[Len(s)]
  BY AlongHas
<1> DEFINE S == {k \in 0 .. Len(s) : w[k] \in I}
<1>2. Len(s) \in Nat
  OBVIOUS
<1>3. 0 \in S
  BY <1>1, <1>2 DEF Follows
<1>4. \A k \in 1 .. Len(s) : k - 1 \in S => k \in S
  BY <1>1, <1>2 DEF Follows, Agree
<1> HIDE DEF S
<1>5. 0 .. Len(s) \subseteq S
  BY <1>2, <1>3, <1>4, InductionTo
<1>6. Follows(w, g, first, t, Len(t))
  BY <1>1, <1>2, <1>5 DEF S, Follows, Agree
<1>7. Along(g, first, t) = w[Len(t)]
  BY <1>1, <1>6, AlongIs
<1> QED
  BY <1>1, <1>7

-----------------------------------------------------------------------------
(* The tuples of the models: a function on 1..n with nothing after it.     *)
LEMMA Tupled ==
  ASSUME NEW S, NEW n \in Nat, NEW f, f = [i \in 1 .. n |-> f[i]], \A i \in 1 .. n : f[i] \in S
  PROVE  f \o <<>> = f /\ f \in Seq(S) /\ Len(f) = n
<1>1. f \in [1 .. n -> S]
  OBVIOUS
<1> QED
  BY <1>1, ConcatEmptySeq

-----------------------------------------------------------------------------
(* Digits.  From the number v, the digits s[j + 1] .. s[n] in base b lead  *)
(* to the number r.                                                        *)
Leads(w, b, s, j, n, v, r) == w[j] = v /\ w[n] = r /\ \A i \in j + 1 .. n : w[i] = b * w[i - 1] + s[i]
Reads(b, s, j, n, v, r) == \E w : Leads(w, b, s, j, n, v, r)

(* No digits lead nowhere. *)
LEMMA ReadsNothing ==
  ASSUME NEW b, NEW s, NEW n \in Nat, NEW v
  PROVE  Reads(b, s, n, n, v, v)
<1> DEFINE w == [i \in {n} |-> v]
<1>1. w[n] = v /\ n + 1 .. n = {}
  OBVIOUS
<1> HIDE DEF w
<1>2. Leads(w, b, s, n, n, v, v)
  BY <1>1 DEF Leads
<1> QED
  BY <1>2 DEF Reads

(* One more digit in front ... *)
LEMMA ReadsFront ==
  ASSUME NEW b, NEW s, NEW j \in Nat, NEW n \in Nat, j < n, NEW v, NEW r, NEW u, u = b * v + s[j + 1],
         Reads(b, s, j + 1, n, u, r)
  PROVE  Reads(b, s, j, n, v, r)
<1>1. PICK w : Leads(w, b, s, j + 1, n, u, r)
  BY DEF Reads
<1> DEFINE x == [i \in j .. n |-> IF i = j THEN v ELSE w[i]]
<1>2. x[j] = v /\ \A i \in j + 1 .. n : x[i] = w[i]
  OBVIOUS
<1> HIDE DEF x
<1>3. j + 1 \in j + 1 .. n /\ n \in j + 1 .. n
  OBVIOUS
<1>4. w[j + 1] = u /\ w[n] = r /\ \A i \in (j + 1) + 1 .. n : w[i] = b * w[i - 1] + s[i]
  BY <1>1 DEF Leads
<1>5. ASSUME NEW i \in j + 1 .. n
      PROVE  x[i] = b * x[i - 1] + s[i]
  <2>1. CASE i = j + 1
    <3>1. x[i] = u /\ i - 1 = j
      BY <1>2, <1>3, <1>4, <2>1
    <3> QED
      BY <1>2, <2>1, <3>1
  <2>2. CASE i # j + 1
    <3>1. i - 1 \in j + 1 .. n /\ i \in (j + 1) + 1 .. n
      BY <2>2
    <3> QED
      BY <1>2, <1>4, <3>1
  <2> QED
    BY <2>1, <2>2
<1>6. Leads(x, b, s, j, n, v, r)
  BY <1>2, <1>3, <1>4, <1>5 DEF Leads
<1> QED
  BY <1>6 DEF Reads

(* ... and the first digit taken off. *)
LEMMA ReadsOn ==
  ASSUME NEW b, NEW s, NEW j \in Nat, NEW n \in Nat, j < n, NEW v, NEW r, Reads(b, s, j, n, v, r)
  PROVE  Reads(b, s, j + 1, n, b * v + s[j + 1], r)
<1>1. PICK w : Leads(w, b, s, j, n, v, r)
  BY DEF Reads
<1>2. w[j + 1] = b * v + s[j + 1]
  <2>1. j + 1 \in j + 1 .. n /\ (j + 1) - 1 = j
    OBVIOUS
  <2> QED
    BY <1>1, <2>1 DEF Leads
<1>3. \A i \in (j + 1) + 1 .. n : i \in j + 1 .. n
  OBVIOUS
<1>4. Leads(w, b, s, j + 1, n, b * v + s[j + 1], r)
  BY <1>1, <1>2, <1>3 DEF Leads
<1> QED
  BY <1>4 DEF Reads

(* One more digit behind. *)
LEMMA ReadsLast ==
  ASSUME NEW b, NEW s, NEW j \in Nat, NEW n \in Nat, j <= n, NEW v, NEW r, Reads(b, s, j, n, v, r)
  PROVE  Reads(b, s, j, n + 1, v, b * r + s[n + 1])
<1>1. PICK w : Leads(w, b, s, j, n, v, r)
  BY DEF Reads
<1> DEFINE x == [i \in j .. n + 1 |-> IF i = n + 1 THEN b * r + s[n + 1] ELSE w[i]]
<1>2. x[n + 1] = b * r + s[n + 1] /\ \A i \in j .. n : x[i] = w[i]
  OBVIOUS
<1> HIDE DEF x
<1>3. j \in j .. n /\ n \in j .. n
  OBVIOUS
<1>4. ASSUME NEW i \in j + 1 .. n + 1
      PROVE  x[i] = b * x[i - 1] + s[i]
  <2>1. CASE i = n + 1
    <3>1. i - 1 = n
      BY <2>1
    <3>2. x[n] = r
      BY <1>1, <1>2, <1>3 DEF Leads
    <3> QED
      BY <1>2, <2>1, <3>1, <3>2
  <2>2. CASE i # n + 1
    <3>1. i - 1 \in j .. n /\ i \in j .. n /\ i \in j + 1 .. n
      BY <2>2
    <3> QED
      BY <1>1, <1>2, <3>1 DEF Leads
  <2> QED
    BY <2>1, <2>2
<1>5. Leads(x, b, s, j, n + 1, v, b * r + s[n + 1])
  BY <1>1, <1>2, <1>3, <1>4 DEF Leads
<1> QED
  BY <1>5 DEF Reads

(* The other digits do not matter. *)
LEMMA ReadsSame ==
  ASSUME NEW b, NEW s, NEW t, NEW j, NEW n, NEW v, NEW r, Reads(b, s, j, n, v, r), \A i \in j + 1 .. n : s[i] = t[i]
  PROVE  Reads(b, t, j, n, v, r)
<1>1. PICK w : Leads(w, b, s, j, n, v, r)
  BY DEF Reads
<1>2. Leads(w, b, t, j, n, v, r)
  BY <1>1 DEF Leads
<1> QED
  BY <1>2 DEF Reads

(* Nor do their places. *)
LEMMA ReadsMoved ==
  ASSUME NEW b, NEW s, NEW t, NEW j \in Nat, NEW n \in Nat, j <= n, NEW z \in Int, z + j \in Nat, NEW v, NEW r,
         Reads(b, s, j, n, v, r), \A i \in j + 1 .. n : t[z + i] = s[i]
  PROVE  Reads(b, t, z + j, z + n, v, r)
<1>1. PICK w : Leads(w, b, s, j, n, v, r)
  BY DEF Reads
<1> DEFINE x == [i \in z + j .. z + n |-> w[i - z]]
<1>2. \A i \in j .. n : x[z + i] = w[i]
  OBVIOUS
<1> HIDE DEF x
<1>3. j \in j .. n /\ n \in j .. n
  OBVIOUS
<1>4. ASSUME NEW i \in (z + j) + 1 .. z + n
      PROVE  x[i] = b * x[i - 1] + t[i]
  <2>1. PICK k \in Int : k = i - z
    OBVIOUS
  <2>2. k \in j + 1 .. n /\ i = z + k /\ i - 1 = z + (k - 1) /\ k - 1 \in j .. n /\ k \in j .. n
    BY <2>1
  <2>3. w[k] = b * w[k - 1] + s[k] /\ t[z + k] = s[k]
    BY <1>1, <2>2 DEF Leads
  <2> QED
    BY <1>2, <2>2, <2>3
<1>5. Leads(x, b, t, z + j, z + n, v, r)
  BY <1>1, <1>2, <1>3, <1>4 DEF Leads
<1> QED
  BY <1>5 DEF Reads

(* The number is the only one, ... *)
LEMMA ReadsOne ==
  ASSUME NEW b, NEW s, NEW j \in Nat, NEW n \in Nat, j <= n, NEW v, NEW r, Reads(b, s, j, n, v, r),
         NEW q, Reads(b, s, j, n, v, q)
  PROVE  r = q
<1>1. PICK w : Leads(w, b, s, j, n, v, r)
  BY DEF Reads
<1>2. PICK x : Leads(x, b, s, j, n, v, q)
  BY DEF Reads
<1> DEFINE S == {k \in Nat : k <= n - j => w[j + k] = x[j + k]}
<1>3. 0 \in S
  BY <1>1, <1>2 DEF Leads
<1>4. ASSUME NEW k \in Nat, k \in S
      PROVE  k + 1 \in S
  <2> SUFFICES ASSUME k + 1 <= n - j
               PROVE  w[j + (k + 1)] = x[j + (k + 1)]
    OBVIOUS
  <2>1. j + (k + 1) \in j + 1 .. n /\ (j + (k + 1)) - 1 = j + k /\ k <= n - j
    OBVIOUS
  <2>2. w[j + k] = x[j + k]
    BY <1>4, <2>1
  <2> QED
    BY <1>1, <1>2, <2>1, <2>2 DEF Leads
<1> HIDE DEF S
<1>5. Nat \subseteq S
  BY <1>3, <1>4, Induction
<1>6. n - j \in Nat /\ j + (n - j) = n
  OBVIOUS
<1>7. n - j \in S
  BY <1>5, <1>6
<1>8. w[n] = x[n]
  BY <1>6, <1>7 DEF S
<1> QED
  BY <1>1, <1>2, <1>8 DEF Leads

(* ... and there is one, a natural number, for natural digits. *)
LEMMA ReadsNumber ==
  ASSUME NEW b \in Nat, NEW s, NEW j \in Nat, NEW v \in Nat
  PROVE  \A k \in Nat : (\A i \in j + 1 .. j + k : s[i] \in Nat) => \E r \in Nat : Reads(b, s, j, j + k, v, r)
<1> DEFINE S == {k \in Nat : (\A i \in j + 1 .. j + k : s[i] \in Nat) => \E r \in Nat : Reads(b, s, j, j + k, v, r)}
<1>1. 0 \in S
  <2>1. j + 0 = j
    OBVIOUS
  <2>2. Reads(b, s, j, j, v, v)
    BY ReadsNothing
  <2> QED
    BY <2>1, <2>2
<1>2. ASSUME NEW k \in Nat, k \in S
      PROVE  k + 1 \in S
  <2> SUFFICES ASSUME \A i \in j + 1 .. j + (k + 1) : s[i] \in Nat
               PROVE  \E r \in Nat : Reads(b, s, j, j + (k + 1), v, r)
    OBVIOUS
  <2>1. \A i \in j + 1 .. j + k : s[i] \in Nat
    OBVIOUS
  <2>2. PICK r \in Nat : Reads(b, s, j, j + k, v, r)
    BY <1>2, <2>1
  <2>3. j + k \in Nat /\ j <= j + k /\ j + (k + 1) = (j + k) + 1
    OBVIOUS
  <2>4. Reads(b, s, j, (j + k) + 1, v, b * r + s[(j + k) + 1])
    BY <2>2, <2>3, ReadsLast
  <2>5. b * r + s[(j + k) + 1] \in Nat
    <3>1. PICK x \in Nat : x = b * r
      OBVIOUS
    <3>2. PICK y \in Nat : y = s[(j + k) + 1]
      BY <2>3
    <3> QED
      BY <3>1, <3>2
  <2> QED
    BY <2>3, <2>4, <2>5
<1> HIDE DEF S
<1>3. Nat \subseteq S
  BY <1>1, <1>2, Induction
<1> QED
  BY <1>3 DEF S

(* Zeros in front of a number do not change it. *)
LEMMA ReadsZeros ==
  ASSUME NEW b \in Nat, NEW s, NEW n \in Nat, NEW r
  PROVE  \A j \in Nat : (j <= n /\ (\A i \in 1 .. j : s[i] = 0) /\ Reads(b, s, j, n, 0, r)) => Reads(b, s, 0, n, 0, r)
<1> DEFINE S == {j \in Nat : (j <= n /\ (\A i \in 1 .. j : s[i] = 0) /\ Reads(b, s, j, n, 0, r)) => Reads(b, s, 0, n, 0, r)}
<1>1. 0 \in S
  OBVIOUS
<1>2. ASSUME NEW j \in Nat, j \in S
      PROVE  j + 1 \in S
  <2> SUFFICES ASSUME j + 1 <= n, \A i \in 1 .. j + 1 : s[i] = 0, Reads(b, s, j + 1, n, 0, r)
               PROVE  Reads(b, s, 0, n, 0, r)
    OBVIOUS
  <2>1. s[j + 1] = 0 /\ b * 0 = 0 /\ j < n
    OBVIOUS
  <2>2. 0 = b * 0 + s[j + 1]
    BY <2>1
  <2>3. Reads(b, s, j, n, 0, r)
    BY <2>1, <2>2, ReadsFront
  <2> QED
    BY <1>2, <2>1, <2>3
<1> HIDE DEF S
<1>3. Nat \subseteq S
  BY <1>1, <1>2, Induction
<1> QED
  BY <1>3 DEF S

(* Products of equal factors. *)
CountTo(n) == [k \in 1 .. n |-> k]
Power(b, n) == Along([x \in Int |-> [k \in Nat |-> b * x]], 1, CountTo(n))

LEMMA CountToIs == ASSUME NEW n \in Nat PROVE CountTo(n) \in Seq(Nat) /\ Len(CountTo(n)) = n /\ \A k \in 1 .. n : CountTo(n)[k] = k
  BY DEF CountTo

LEMMA PowerOf ==
  ASSUME NEW b \in Nat
  PROVE  Power(b, 0) = 1 /\ \A n \in Nat : Power(b, n) \in Nat /\ Power(b, n + 1) = b * Power(b, n)
<1> DEFINE step == [x \in Int |-> [k \in Nat |-> b * x]]
<1>1. \A x \in Int : \A k \in Nat : step[x][k] = b * x
  OBVIOUS
<1>2. \A n : Power(b, n) = Along(step, 1, CountTo(n))
  BY DEF Power
<1> HIDE DEF step
<1>3. Power(b, 0) = 1
  <2>1. CountTo(0) = <<>>
    BY DEF CountTo
  <2> QED
    BY <1>2, <2>1, AlongNothing
<1>4. ASSUME NEW n \in Nat, Power(b, n) \in Nat
      PROVE  Power(b, n + 1) = b * Power(b, n) /\ Power(b, n + 1) \in Nat
  <2>1. PICK s, t : s = CountTo(n) /\ t = CountTo(n + 1)
    OBVIOUS
  <2>2. /\ s \in Seq(Nat) /\ t \in Seq(Nat) /\ Len(s) = n /\ Len(t) = n + 1
        /\ (\A k \in 1 .. n : s[k] = k) /\ \A i \in 1 .. n + 1 : t[i] = i
    BY <2>1, CountToIs
  <2>3. Along(step, 1, t) = step[Along(step, 1, s)][t[Len(t)]]
    <3>1. Len(t) = Len(s) + 1 /\ \A k \in 1 .. Len(s) : t[k] = s[k]
      BY <2>2
    <3> QED
      BY <2>2, <3>1, AlongAppend
  <2>4. t[Len(t)] \in Nat
    BY <2>2
  <2>5. PICK p \in Nat : p = Power(b, n)
    BY <1>4
  <2>6. Power(b, n + 1) = b * p
    <3>1. Along(step, 1, s) = p /\ Power(b, n + 1) = Along(step, 1, t)
      BY <1>2, <2>1, <2>5
    <3>2. step[p][t[Len(t)]] = b * p
      <4>1. PICK e \in Nat : e = t[Len(t)]
        BY <2>4
      <4>2. p \in Int
        OBVIOUS
      <4>3. step[p][e] = b * p
        BY ONLY <1>1, <4>2, e \in Nat
      <4> QED
        BY <4>1, <4>3
    <3> QED
      BY <2>3, <3>1, <3>2
  <2>7. b * p \in Nat
    OBVIOUS
  <2> QED
    BY <2>5, <2>6, <2>7
<1> DEFINE S == {n \in Nat : Power(b, n) \in Nat}
<1>5. 0 \in S /\ \A n \in Nat : n \in S => n + 1 \in S
  BY <1>3, <1>4
<1> HIDE DEF S
<1>6. Nat \subseteq S
  BY <1>5, Induction
<1>7. \A n \in Nat : Power(b, n) \in Nat
  BY <1>6 DEF S
<1> QED
  BY <1>3, <1>4, <1>7

(* They grow with the number of factors. *)
LEMMA PowerGrows ==
  ASSUME NEW b \in Nat, b > 0
  PROVE  \A n \in Nat : Power(b, n) > 0 /\ \A k \in Nat : Power(b, n) <= Power(b, n + k)
<1>0. \A n \in Nat : Power(b, n) \in Nat /\ Power(b, n + 1) = b * Power(b, n)
  BY PowerOf
<1>1. ASSUME NEW n \in Nat, Power(b, n) > 0
      PROVE  Power(b, n + 1) > 0 /\ Power(b, n) <= Power(b, n + 1)
  <2>1. PICK p \in Nat : p = Power(b, n) /\ p > 0
    BY <1>0, <1>1
  <2>2. b * p > 0 /\ b * p >= p
    BY SMT, <2>1
  <2> QED
    BY <1>0, <2>1, <2>2
<1> DEFINE S == {n \in Nat : Power(b, n) > 0}
<1>2. 0 \in S
  BY PowerOf
<1>3. \A n \in Nat : n \in S => n + 1 \in S
  BY <1>1
<1> HIDE DEF S
<1>4. Nat \subseteq S
  BY <1>2, <1>3, Induction
<1>5. \A n \in Nat : Power(b, n) > 0
  BY <1>4 DEF S
<1>6. ASSUME NEW n \in Nat
      PROVE  \A k \in Nat : Power(b, n) <= Power(b, n + k)
  <2> DEFINE T == {k \in Nat : Power(b, n) <= Power(b, n + k)}
  <2>1. 0 \in T
    <3>1. n + 0 = n
      OBVIOUS
    <3> QED
      BY <1>0, <3>1
  <2>2. ASSUME NEW k \in Nat, k \in T
        PROVE  k + 1 \in T
    <3>1. PICK m \in Nat : m = n + k /\ n + (k + 1) = m + 1
      OBVIOUS
    <3>2. Power(b, m) <= Power(b, m + 1) /\ Power(b, n) <= Power(b, m)
      BY <1>1, <1>5, <2>2, <3>1
    <3>3. Power(b, n) \in Nat /\ Power(b, m) \in Nat /\ Power(b, m + 1) \in Nat
      BY <1>0
    <3>4. Power(b, n) <= Power(b, m + 1)
      BY <3>2, <3>3
    <3> QED
      BY <3>1, <3>4
  <2> HIDE DEF T
  <2>3. Nat \subseteq T
    BY <2>1, <2>2, Induction
  <2> QED
    BY <2>3 DEF T
<1> QED
  BY <1>5, <1>6

(* A number of n digits in base b is below b to the n, ... *)
LEMMA ReadsBelow ==
  ASSUME NEW b \in Nat, b > 0, NEW s, NEW n \in Nat, \A i \in 1 .. n : s[i] \in Nat /\ s[i] < b,
         NEW r, Reads(b, s, 0, n, 0, r)
  PROVE  r \in Nat /\ r < Power(b, n)
<1>1. PICK w : Leads(w, b, s, 0, n, 0, r)
  BY DEF Reads
<1>2. w[0] = 0 /\ w[n] = r /\ \A i \in 1 .. n : w[i] = b * w[i - 1] + s[i]
  BY <1>1 DEF Leads
<1> DEFINE S == {k \in Nat : k <= n => w[k] \in Nat /\ w[k] < Power(b, k)}
<1>3. 0 \in S
  <2>1. Power(b, 0) = 1
    BY PowerOf
  <2> QED
    BY <1>2, <2>1
<1>4. ASSUME NEW k \in Nat, k \in S
      PROVE  k + 1 \in S
  <2> SUFFICES ASSUME k + 1 <= n
               PROVE  w[k + 1] \in Nat /\ w[k + 1] < Power(b, k + 1)
    OBVIOUS
  <2>1. k + 1 \in 1 .. n /\ (k + 1) - 1 = k
    OBVIOUS
  <2>2. PICK x \in Nat, y \in Nat, p \in Nat : x = w[k] /\ y = s[k + 1] /\ p = Power(b, k) /\ x < p /\ y < b
    <3>1. w[k] \in Nat /\ w[k] < Power(b, k)
      BY <1>4
    <3>2. s[k + 1] \in Nat /\ s[k + 1] < b
      BY <2>1
    <3>3. Power(b, k) \in Nat
      BY PowerOf
    <3> QED
      BY <3>1, <3>2, <3>3
  <2>3. b * x + y \in Nat /\ b * x + y < b * p
    <3>1. x + 1 <= p
      BY <2>2
    <3>2. b * (x + 1) <= b * p
      BY ONLY <3>1, b \in Nat, x \in Nat, p \in Nat, SMT
    <3>3. b * (x + 1) = b * x + b /\ b * x \in Nat
      BY SMT
    <3>4. b * p \in Nat
      OBVIOUS
    <3> QED
      BY <2>2, <3>2, <3>3, <3>4
  <2>4. Power(b, k + 1) = b * p
    BY <2>2, PowerOf
  <2>5. w[k + 1] = b * x + y
    BY <1>2, <2>1, <2>2
  <2> QED
    BY <2>3, <2>4, <2>5
<1> HIDE DEF S
<1>5. Nat \subseteq S
  BY <1>3, <1>4, Induction
<1>6. w[n] \in Nat /\ w[n] < Power(b, n)
  BY <1>5 DEF S
<1> QED
  BY <1>2, <1>6

(* ... and one that goes on from a positive number for k digits is not.    *)
LEMMA ReadsAbove ==
  ASSUME NEW b \in Nat, b > 0, NEW s, NEW j \in Nat, NEW k \in Nat, \A i \in j + 1 .. j + k : s[i] \in Nat,
         NEW v \in Nat, v > 0, NEW r, Reads(b, s, j, j + k, v, r)
  PROVE  r \in Nat /\ r >= Power(b, k)
<1>1. PICK w : Leads(w, b, s, j, j + k, v, r)
  BY DEF Reads
<1>2. w[j] = v /\ w[j + k] = r /\ \A i \in j + 1 .. j + k : w[i] = b * w[i - 1] + s[i]
  BY <1>1 DEF Leads
<1> DEFINE S == {m \in Nat : m <= k => w[j + m] \in Nat /\ w[j + m] >= Power(b, m)}
<1>3. 0 \in S
  <2>1. Power(b, 0) = 1 /\ j + 0 = j
    BY PowerOf
  <2> QED
    BY <1>2, <2>1
<1>4. ASSUME NEW m \in Nat, m \in S
      PROVE  m + 1 \in S
  <2> SUFFICES ASSUME m + 1 <= k
               PROVE  w[j + (m + 1)] \in Nat /\ w[j + (m + 1)] >= Power(b, m + 1)
    OBVIOUS
  <2>1. PICK i \in Nat : i = j + (m + 1) /\ i \in j + 1 .. j + k /\ i - 1 = j + m
    OBVIOUS
  <2>2. PICK x \in Nat, y \in Nat, p \in Nat : x = w[i - 1] /\ y = s[i] /\ p = Power(b, m) /\ x >= p
    <3>1. w[i - 1] \in Nat /\ w[i - 1] >= Power(b, m)
      BY <1>4, <2>1
    <3>2. s[i] \in Nat
      BY <2>1
    <3>3. Power(b, m) \in Nat
      BY PowerOf
    <3> QED
      BY <3>1, <3>2, <3>3
  <2>3. b * x + y \in Nat /\ b * x + y >= b * p
    <3>1. b * x >= b * p
      BY ONLY <2>2, b \in Nat, SMT
    <3>2. b * x \in Nat /\ b * p \in Nat
      OBVIOUS
    <3> QED
      BY ONLY <3>1, <3>2, y \in Nat
  <2>4. Power(b, m + 1) = b * p
    BY <2>2, PowerOf
  <2>5. w[i] = b * x + y
    BY <1>2, <2>1, <2>2
  <2> QED
    BY <2>1, <2>3, <2>4, <2>5
<1> HIDE DEF S
<1>5. Nat \subseteq S
  BY <1>3, <1>4, Induction
<1>6. w[j + k] \in Nat /\ w[j + k] >= Power(b, k)
  BY <1>5 DEF S
<1> QED
  BY <1>2, <1>6
=============================================================================
