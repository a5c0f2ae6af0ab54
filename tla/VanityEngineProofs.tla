------------------------- MODULE VanityEngineProofs -------------------------
(***************************************************************************)
(* The engine's loop keeps its types, and as long as the timed GPU works   *)
(* it never launches a kernel that lasts until the driver is reset, for    *)
(* every set of machines, target and bounds.                               *)
(***************************************************************************)
EXTENDS VanityEngine, TLAPS

-----------------------------------------------------------------------------
(* Arithmetic. *)
LEMMA TimesMonotone ==
    ASSUME NEW a \in Nat, NEW b \in Nat, NEW c \in Nat, a <= b
    PROVE  a * c <= b * c
  BY SMT

LEMMA DivBelow ==
    ASSUME NEW x \in Nat, NEW y \in Nat \ {0}
    PROVE  x \div y \in Nat /\ y * (x \div y) <= x
  BY SMT

LEMMA CancelTimes ==
    ASSUME NEW a \in Int, NEW b \in Int, NEW c \in Nat \ {0}, c * a <= c * b
    PROVE  a <= b
  BY SMT
-----------------------------------------------------------------------------
(* The tuning.                                                             *)
LEMMA RoundWithin ==
    ASSUME NEW x \in Nat, NEW y \in Nat \ {0}
    PROVE  Round(x, y) \in Nat /\ 2 * y * Round(x, y) <= 2 * x + y
<1>1. 2 * x + y \in Nat /\ 2 * y \in Nat \ {0}
  OBVIOUS
<1> QED
  BY <1>1, DivBelow DEF Round

LEMMA NextIsNat ==
    ASSUME NEW a \in Nat, NEW s \in Nat \ {0}
    PROVE  NextAttempts(a, s) \in Nat
<1>1. a * Target \in Nat /\ Target \in Nat /\ 4 * a \in Nat
  BY EngineAssumption
<1>2. Round(a, 4) \in Nat
  BY RoundWithin
<1>3. Round(a * Target, s) \in Nat
  BY <1>1, RoundWithin
<1> QED
  BY <1>1, <1>2, <1>3 DEF NextAttempts

LEMMA ClampInRange ==
    ASSUME NEW n \in Nat
    PROVE  Clamp(n) \in 1 .. MaxAtt /\ (Clamp(n) <= n \/ Clamp(n) = 1)
  BY EngineAssumption DEF Clamp

(* The next launch, after one of a attempts that took s ticks (d each and  *)
(* o of overhead) is under the limit where an attempt costs c ticks.       *)
LEMMA TuningIsShort ==
    ASSUME NEW a \in Nat \ {0}, NEW d \in Nat \ {0}, NEW o \in Nat,
           NEW s \in Nat, s = d * a + o,
           NEW c \in Nat \ {0}, c <= 3 * d, 8 * c <= Limit, 8 * d <= Limit,
           4 * Target <= Limit, a * c < Limit
    PROVE  Clamp(NextAttempts(a, s)) * c < Limit
<1> DEFINE n == NextAttempts(a, s)
<1>1. Target \in Nat \ {0} /\ Limit \in Nat
  BY EngineAssumption
<1>2. d * a \in Nat /\ d * a <= s
  OBVIOUS
<1>3. s > 0
  <2>1. 1 * a <= d * a
    BY TimesMonotone
  <2> QED
    BY <1>2, <2>1
<1>4. n \in Nat
  BY <1>3, NextIsNat
<1>5. n * c < Limit
  <2>1. CASE Target > 4 * s
    <3>1. n = 4 * a
      BY <2>1 DEF NextAttempts
    <3>2. c * a <= (3 * d) * a
      BY TimesMonotone
    <3>3. n * c = 4 * (c * a) /\ (3 * d) * a = 3 * (d * a)
      BY <3>1
    <3>4. c * a \in Nat
      OBVIOUS
    <3> HIDE DEF n
    <3> QED
      BY <1>1, <1>2, <2>1, <3>2, <3>3, <3>4
  <2>2. CASE ~ (Target > 4 * s) /\ s > 4 * Target
    <3>1. n = Round(a, 4)
      BY <2>2 DEF NextAttempts
    <3>2. n <= a
      BY <1>4, <3>1, RoundWithin, SMTT(30)
    <3>3. n * c <= a * c
      BY <1>4, <3>2, TimesMonotone
    <3> HIDE DEF n
    <3> QED
      BY <1>1, <1>4, <3>3
  <2>3. CASE ~ (Target > 4 * s) /\ ~ (s > 4 * Target)
    <3>1. n = Round(a * Target, s)
      BY <2>3 DEF NextAttempts
    <3>2. 2 * s * n <= 2 * (a * Target) + s
      BY <1>1, <1>3, <3>1, RoundWithin
    <3> HIDE DEF n
    <3>3. s * (2 * (d * n)) <= s * (2 * Target + d)
      <4>1. d * (2 * s * n) <= d * (2 * (a * Target) + s)
        BY <1>1, <1>4, <3>2, TimesMonotone
      <4>2. (d * a) * Target <= s * Target
        BY <1>1, <1>2, TimesMonotone
      <4>3. d * (2 * s * n) = s * (2 * (d * n))
        BY <1>4
      <4>4. d * (2 * (a * Target) + s) = 2 * ((d * a) * Target) + d * s
        BY <1>1
      <4>5. s * (2 * Target + d) = 2 * (s * Target) + d * s
        BY <1>1
      <4> QED
        BY <4>1, <4>2, <4>3, <4>4, <4>5, <1>1, <1>4
    <3>4. 2 * (d * n) <= 2 * Target + d
      BY <1>1, <1>3, <1>4, <3>3, CancelTimes
    <3>5. c * n <= (3 * d) * n
      BY <1>4, TimesMonotone
    <3>6. (3 * d) * n = 3 * (d * n) /\ n * c = c * n
      BY <1>4
    <3>7. d * n \in Nat /\ c * n \in Nat
      BY <1>4
    <3> QED
      BY ONLY <1>1, <3>4, <3>5, <3>6, <3>7, 4 * Target <= Limit, 8 * d <= Limit, d \in Nat \ {0}
  <2> QED
    BY <2>1, <2>2, <2>3
<1> HIDE DEF n
<1>6. Clamp(n) \in 1 .. MaxAtt /\ (Clamp(n) <= n \/ Clamp(n) = 1)
  BY <1>4, ClampInRange
<1>7. Clamp(n) \in Nat
  BY <1>6, EngineAssumption
<1>8. Clamp(n) <= n => Clamp(n) * c <= n * c
  BY <1>4, <1>7, TimesMonotone
<1>9. Clamp(n) * c < Limit
  BY <1>1, <1>4, <1>5, <1>6, <1>7, <1>8
<1> QED
  BY <1>9 DEF n
-----------------------------------------------------------------------------
(* Types.                                                                  *)
LEMMA SetupFacts ==
    ASSUME TypeOK
    PROVE  /\ setup.gpus \in Nat /\ setup.fixed \in Nat
           /\ setup.costs \in [Gpus -> SUBSET (Nat \ {0})]
           /\ setup.delays \subseteq Nat
           /\ attempts \in Nat
  BY EngineAssumption DEF TypeOK, Gpus, MaxGpus

(* What the passing of time leaves of one GPU's queue: launches with the   *)
(* attempts they had; the last one needs that much less at the most.       *)
Kernels == [att : Nat, left : Nat]
LeftOf(q) == IF q = <<>> THEN 0 ELSE q[Len(q)].left

LEMMA EndsAreKernels ==
    ASSUME NEW q \in Seq(Kernels), q # <<>>
    PROVE  Len(q) \in Nat \ {0} /\ q[1] \in Kernels /\ q[Len(q)] \in Kernels
  OBVIOUS

LEMMA LeftIsNat ==
    ASSUME NEW q \in Seq(Kernels)
    PROVE  LeftOf(q) \in Nat
  BY EndsAreKernels DEF LeftOf, Kernels

LEMMA RanKeeps ==
    ASSUME NEW q \in Seq(Kernels), NEW ticks \in Nat, q # <<>> => ticks <= q[1].left
    PROVE  /\ Ran(q, ticks) \in Seq(Kernels)
           /\ \A k \in 1 .. Len(Ran(q, ticks)) :
                 \E j \in 1 .. Len(q) : Ran(q, ticks)[k].att = q[j].att
           /\ LeftOf(q) \in Nat /\ LeftOf(q) <= LeftOf(Ran(q, ticks)) + ticks
           /\ q = <<>> => Ran(q, ticks) = <<>>
<1>1. CASE q = <<>>
  BY <1>1 DEF Ran, LeftOf
<1>2. CASE q # <<>> /\ q[1].left = ticks
  <2>1. Ran(q, ticks) = Tail(q)
    BY <1>2 DEF Ran
  <2>2. Tail(q) \in Seq(Kernels) /\ Len(Tail(q)) = Len(q) - 1
        /\ \A k \in 1 .. Len(Tail(q)) : Tail(q)[k] = q[k + 1] /\ k + 1 \in 1 .. Len(q)
    BY <1>2
  <2>3. LeftOf(q) \in Nat /\ LeftOf(Tail(q)) \in Nat
    BY <2>2, LeftIsNat
  <2>4. LeftOf(q) <= LeftOf(Tail(q)) + ticks
    <3>1. CASE Len(q) = 1
      BY <1>2, <2>3, <3>1 DEF LeftOf
    <3>2. CASE Len(q) # 1
      <4>1. Len(q) \in Nat \ {0}
        BY <1>2, EndsAreKernels
      <4>2. Len(Tail(q)) \in 1 .. Len(Tail(q)) /\ Len(Tail(q)) + 1 = Len(q)
        BY <2>2, <3>2, <4>1
      <4>3. Tail(q)[Len(Tail(q))] = q[Len(q)]
        BY <2>2, <4>2
      <4>4. Tail(q) # <<>>
        <5>1. Len(Tail(q)) # 0 /\ Len(<<>>) = 0
          BY <1>2, <2>2, <4>1, <4>2
        <5> QED
          BY <5>1
      <4> QED
        BY <1>2, <2>3, <4>3, <4>4 DEF LeftOf
    <3> QED
      BY <3>1, <3>2
  <2>5. \A k \in 1 .. Len(Tail(q)) : \E j \in 1 .. Len(q) : Tail(q)[k].att = q[j].att
    BY <2>2
  <2> QED
    BY ONLY <1>2, <2>1, <2>2, <2>3, <2>4, <2>5
<1>3. CASE q # <<>> /\ q[1].left # ticks
  <2> DEFINE r == [q EXCEPT ![1].left = @ - ticks]
  <2>1. Ran(q, ticks) = r
    BY <1>3 DEF Ran
  <2>2. 1 \in 1 .. Len(q) /\ DOMAIN q = 1 .. Len(q) /\ \A k \in 1 .. Len(q) : q[k] \in Kernels
    <3>1. Len(q) \in Nat \ {0}
      BY <1>3, EndsAreKernels
    <3>2. DOMAIN q = 1 .. Len(q) /\ \A k \in 1 .. Len(q) : q[k] \in Kernels
      OBVIOUS
    <3> QED
      BY <3>1, <3>2
  <2>3. [q[1] EXCEPT !.left = @ - ticks] \in Kernels
    <3>1. q[1] \in Kernels /\ q[1].left \in Nat /\ ticks <= q[1].left
      BY <1>3, <2>2 DEF Kernels
    <3>2. q[1].left - ticks \in Nat
      BY <3>1
    <3> QED
      BY ONLY <3>1, <3>2 DEF Kernels
  <2>4. /\ r = [k \in 1 .. Len(q) |-> IF k = 1 THEN [q[1] EXCEPT !.left = @ - ticks] ELSE q[k]]
    BY <2>2
  <2>5. r \in Seq(Kernels) /\ Len(r) = Len(q)
    BY <2>2, <2>3, <2>4
  <2>6. \A k \in 1 .. Len(q) : r[k].att = q[k].att
    BY <2>2, <2>4 DEF Kernels
  <2>7. q[Len(q)].left \in Nat /\ q[Len(q)].left <= r[Len(q)].left + ticks
    BY <1>3, <2>2, <2>4 DEF Kernels
  <2>8. r # <<>>
    BY <1>3, <2>5
  <2> HIDE DEF r
  <2> QED
    BY <1>3, <2>1, <2>5, <2>6, <2>7, <2>8 DEF LeftOf
<1> QED
  BY <1>1, <1>2, <1>3

(* Time passes by what the first launch to end needs yet. *)
LEMMA PassIsTimely ==
    ASSUME TypeOK, Pass
    PROVE  \E ticks \in Nat :
             /\ \A g \in Gpus : queue[g] # <<>> => ticks <= queue[g][1].left
             /\ queue' = [g \in Gpus |-> Ran(queue[g], ticks)]
             /\ secs' = IF pc = "launch" THEN secs + ticks ELSE secs
<1>1. PICK g \in Busy :
        LET ticks == queue[g][1].left IN
          /\ \A h \in Busy : ticks <= queue[h][1].left
          /\ queue' = [h \in Gpus |-> Ran(queue[h], ticks)]
          /\ secs' = IF pc = "launch" THEN secs + ticks ELSE secs
  BY DEF Pass
<1>2. queue[g] \in Seq(Kernels) /\ queue[g] # <<>>
  BY <1>1 DEF Busy, TypeOK, Kernels
<1>3. queue[g][1].left \in Nat
  BY <1>2, EndsAreKernels DEF Kernels
<1> QED
  BY <1>1, <1>3 DEF Busy

LEMMA TypesPreserved == TypeOK /\ [Next]_vars => TypeOK'
<1> SUFFICES ASSUME TypeOK, [Next]_vars
             PROVE  TypeOK'
  OBVIOUS
<1> USE DEF TypeOK, Kernels
<1>1. ASSUME Launch
      PROVE  TypeOK'
  <2>1. queue' \in [Gpus -> Seq(Kernels)]
    <3>1. CASE i \in alive
      <4>1. i \in Gpus /\ attempts \in Nat
        BY <3>1, SetupFacts
      <4>2. PICK c \in setup.costs[i] :
              queue' = [queue EXCEPT ![i] = Append(@, [att |-> attempts, left |-> c * attempts])]
        BY <1>1, <3>1 DEF Launch
      <4>3. c \in Nat
        BY <4>1, SetupFacts
      <4>4. c * attempts \in Nat
        BY <4>1, <4>3
      <4>5. Append(queue[i], [att |-> attempts, left |-> c * attempts]) \in Seq(Kernels)
        BY <4>1, <4>4 DEF Kernels
      <4> QED
        BY <4>1, <4>2, <4>5 DEF Kernels
    <3>2. CASE i \notin alive
      BY <1>1, <3>2 DEF Launch
    <3> QED
      BY <3>1, <3>2
  <2>2. fifo' \in [Gpus -> SUBSET Found] /\ stdout' \subseteq Found
    BY <1>1 DEF Launch
  <2>3. i' \in 0 .. setup.gpus
    BY <1>1, SetupFacts DEF Launch
  <2> QED
    BY <1>1, <2>1, <2>2, <2>3 DEF Launch, Gpus
<1>2. ASSUME Synchronize
      PROVE  TypeOK'
  <2>1. secs' \in Nat
    <3>1. PICK d \in setup.delays : secs' = secs + d
      BY <1>2 DEF Synchronize
    <3>2. d \in Nat
      BY SetupFacts
    <3> QED
      BY <3>1, <3>2
  <2>2. fifo' \in [Gpus -> SUBSET Found] /\ stdout' \subseteq Found
    BY <1>2 DEF Synchronize
  <2>3. i' \in 0 .. setup.gpus
    BY <1>2, SetupFacts DEF Synchronize
  <2> QED
    BY <1>2, <2>1, <2>2, <2>3 DEF Synchronize, Gpus
<1>3. ASSUME Report
      PROVE  TypeOK'
  BY <1>3 DEF Report, Gpus, gpuVars
<1>4. ASSUME Tune
      PROVE  TypeOK'
  <2>1. attempts' \in IF setup.fixed = 0
                      THEN 1 .. (IF First > MaxAtt THEN First ELSE MaxAtt) ELSE {setup.fixed}
    <3>1. CASE Adaptive /\ secs > 0
      <4>1. NextAttempts(attempts, secs) \in Nat
        <5>1. attempts \in Nat /\ secs \in Nat \ {0}
          BY <3>1, SetupFacts
        <5> QED
          BY <5>1, NextIsNat
      <4>2. attempts' \in 1 .. MaxAtt
        BY <1>4, <3>1, <4>1, ClampInRange DEF Tune
      <4> QED
        BY <3>1, <4>2, EngineAssumption DEF Adaptive
    <3>2. CASE ~ (Adaptive /\ secs > 0)
      BY <1>4, <3>2 DEF Tune
    <3> QED
      BY <3>1, <3>2
  <2> QED
    BY <1>4, <2>1 DEF Tune, Gpus, gpuVars
<1>5. ASSUME NEW g \in Gpus, Find(g)
      PROVE  TypeOK'
  BY <1>5 DEF Find, Gpus, hostVars
<1>6. ASSUME Pass
      PROVE  TypeOK'
  <2>1. PICK ticks \in Nat :
          /\ \A g \in Gpus : queue[g] # <<>> => ticks <= queue[g][1].left
          /\ queue' = [g \in Gpus |-> Ran(queue[g], ticks)]
          /\ secs' = IF pc = "launch" THEN secs + ticks ELSE secs
    BY <1>6, PassIsTimely
  <2>2. \A g \in Gpus : Ran(queue[g], ticks) \in Seq(Kernels)
    BY <2>1, RanKeeps DEF Kernels
  <2>3. queue' \in [Gpus -> Seq(Kernels)] /\ secs' \in Nat
    BY <2>1, <2>2
  <2> QED
    BY <1>6, <2>3 DEF Pass, Gpus, Kernels
<1>7. ASSUME NEW g \in Gpus, Fail(g)
      PROVE  TypeOK'
  <2>1. queue' \in [Gpus -> Seq(Kernels)]
    BY <1>7 DEF Fail
  <2> QED
    BY <1>7, <2>1 DEF Fail, Gpus, hostVars
<1>8. ASSUME Drain
      PROVE  TypeOK'
  BY <1>8 DEF Drain, Gpus, hostVars, gpuVars
<1>9. ASSUME UNCHANGED vars
      PROVE  TypeOK'
  BY <1>9 DEF vars, Gpus, hostVars, gpuVars
<1> QED
  BY <1>1, <1>2, <1>3, <1>4, <1>5, <1>6, <1>7, <1>8, <1>9 DEF Next, Host

LEMMA TypesAtStart == Init => TypeOK
  BY EngineAssumption DEF Init, TypeOK, Gpus

(* The types: attempts never leaves MIN_ATT .. MAX_ATT (or the first       *)
(* value), whatever the rounds take, and a fixed setting stays fixed.      *)
THEOREM EngineTypeCorrect == Spec => []TypeOK
  BY TypesAtStart, TypesPreserved, PTL DEF Spec
-----------------------------------------------------------------------------
(* The limit.  LaunchesShort is not inductive: the round's time must be    *)
(* tied to what the timed GPU was given from its launch until the tuning   *)
(* uses it, and the attempts of the next launch bounded before anything is *)
(* launched.                                                               *)
Paid(ticks) == \E d \in setup.costs[LastGpu] : d * attempts <= ticks
Timed ==
    /\ pc # "launch" => i = 0
    /\ LastGpu \in alive =>
          /\ pc # "launch" => Paid(secs)
          /\ pc = "launch" /\ i = setup.gpus => Paid(secs + LeftOf(queue[LastGpu]))

NextIsShort ==
    Adaptive /\ Even /\ LastGpu \in alive =>
        \A g \in Gpus : \A c \in setup.costs[g] : attempts * c < Limit

(* LaunchesShort, an operator fewer. *)
QueueIsShort ==
    Adaptive /\ Even /\ LastGpu \in alive =>
        \A g \in Gpus : \A k \in 1 .. Len(queue[g]) :
            \A c \in setup.costs[g] : queue[g][k].att * c < Limit

ShortInv == TypeOK /\ Timed /\ NextIsShort /\ QueueIsShort

LEMMA PaidMore ==
    ASSUME TypeOK, LastGpu \in alive, NEW m \in Nat, NEW n \in Nat, m <= n, Paid(m)
    PROVE  Paid(n)
<1>1. LastGpu \in Gpus /\ attempts \in Nat
  BY SetupFacts DEF TypeOK
<1>2. PICK d \in setup.costs[LastGpu] : d * attempts <= m
  BY DEF Paid
<1>3. d \in Nat
  BY <1>1, SetupFacts
<1>4. d * attempts \in Nat
  BY <1>1, <1>3
<1> QED
  BY <1>2, <1>4 DEF Paid

LEMMA TimedPreserved == TypeOK /\ Timed /\ [Next]_vars => Timed'
<1> SUFFICES ASSUME TypeOK, Timed, [Next]_vars
             PROVE  Timed'
  OBVIOUS
<1>1. setup' = setup /\ LastGpu' = LastGpu /\ alive' \subseteq alive
  BY DEF Next, Host, Launch, Synchronize, Report, Tune, Find, Pass, Fail, Drain,
         vars, gpuVars, LastGpu
<1>2. LastGpu \in alive => LastGpu \in Gpus
  BY DEF TypeOK
<1>3. i \in Int /\ setup.gpus \in Nat /\ secs \in Nat /\ attempts \in Nat
  BY SetupFacts DEF TypeOK
<1>4. CASE Launch
  <2>1. pc' = "launch" /\ attempts' = attempts /\ secs' = secs /\ i' = i + 1
    BY <1>4 DEF Launch
  <2>2. ASSUME LastGpu \in alive, i' = setup.gpus
        PROVE  Paid(secs + LeftOf(queue'[LastGpu]))
    <3>1. i = LastGpu
      BY <1>3, <2>1, <2>2 DEF LastGpu
    <3>2. PICK c \in setup.costs[LastGpu] :
            queue' = [queue EXCEPT ![LastGpu] = Append(@, [att |-> attempts, left |-> c * attempts])]
      BY <1>4, <2>2, <3>1 DEF Launch
    <3>3. queue[LastGpu] \in Seq(Kernels) /\ c \in Nat
      BY <1>2, <2>2, SetupFacts DEF TypeOK, Kernels
    <3>4. c * attempts \in Nat
      BY <1>3, <3>3
    <3>5. queue'[LastGpu] = Append(queue[LastGpu], [att |-> attempts, left |-> c * attempts])
      BY <1>2, <2>2, <3>2 DEF TypeOK
    <3>6. [att |-> attempts, left |-> c * attempts] \in Kernels
      BY <1>3, <3>4 DEF Kernels
    <3>7. LeftOf(queue'[LastGpu]) = c * attempts
      BY <3>3, <3>5, <3>6 DEF LeftOf
    <3>8. c * attempts <= secs + LeftOf(queue'[LastGpu])
      BY <1>3, <3>4, <3>7
    <3> QED
      BY <3>2, <3>8 DEF Paid
  <2> QED
    BY <1>1, <2>1, <2>2 DEF Timed, Paid
<1>5. CASE Synchronize
  <2>1. pc = "launch" /\ i = setup.gpus /\ pc' = "report" /\ i' = 0 /\ attempts' = attempts
    BY <1>5 DEF Synchronize
  <2>2. PICK d \in setup.delays : secs' = secs + d
    BY <1>5 DEF Synchronize
  <2>3. d \in Nat
    BY SetupFacts
  <2>4. ASSUME LastGpu \in alive
        PROVE  Paid(secs')
    <3>1. LeftOf(queue[LastGpu]) = 0
      BY <1>5, <2>4 DEF Synchronize, LeftOf
    <3>2. Paid(secs)
      BY <1>3, <2>1, <2>4, <3>1 DEF Timed
    <3> QED
      BY <1>3, <2>2, <2>3, <2>4, <3>2, PaidMore
  <2> QED
    BY <1>1, <2>1, <2>4 DEF Timed, Paid
<1>6. CASE Report
  BY <1>1, <1>6 DEF Report, gpuVars, Timed, Paid
<1>7. CASE Tune
  <2>1. pc' = "launch" /\ i' = 0
    BY <1>7 DEF Tune, Timed
  <2>2. LastGpu \in alive => setup.gpus # 0
    BY <1>2, <1>3 DEF Gpus
  <2> QED
    BY <1>1, <2>1, <2>2 DEF Timed
<1>8. CASE Pass
  <2>1. PICK ticks \in Nat :
          /\ \A g \in Gpus : queue[g] # <<>> => ticks <= queue[g][1].left
          /\ queue' = [g \in Gpus |-> Ran(queue[g], ticks)]
          /\ secs' = IF pc = "launch" THEN secs + ticks ELSE secs
    BY <1>8, PassIsTimely
  <2>2. pc' = pc /\ i' = i /\ attempts' = attempts
    BY <1>8 DEF Pass
  <2>3. ASSUME LastGpu \in alive, pc = "launch", i = setup.gpus
        PROVE  Paid(secs' + LeftOf(queue'[LastGpu]))
    <3>1. queue[LastGpu] \in Seq(Kernels) /\ queue'[LastGpu] = Ran(queue[LastGpu], ticks)
      BY <1>2, <2>1, <2>3 DEF TypeOK, Kernels
    <3>2. LeftOf(queue[LastGpu]) \in Nat
          /\ LeftOf(queue[LastGpu]) <= LeftOf(queue'[LastGpu]) + ticks
      BY <1>2, <2>1, <2>3, <3>1, RanKeeps
    <3>3. LeftOf(queue'[LastGpu]) \in Nat
      <4>1. queue'[LastGpu] \in Seq(Kernels)
        BY <1>2, <2>1, <2>3, <3>1, RanKeeps
      <4> QED
        BY <4>1, LeftIsNat
    <3>4. Paid(secs + LeftOf(queue[LastGpu]))
      BY <2>3 DEF Timed
    <3>5. secs + LeftOf(queue[LastGpu]) <= secs' + LeftOf(queue'[LastGpu])
          /\ secs' + LeftOf(queue'[LastGpu]) \in Nat /\ secs + LeftOf(queue[LastGpu]) \in Nat
      BY <1>3, <2>1, <2>3, <3>2, <3>3
    <3> QED
      BY <2>3, <3>4, <3>5, PaidMore
  <2> QED
    BY <1>1, <2>1, <2>2, <2>3 DEF Timed, Paid
<1>9. ASSUME NEW g \in Gpus, Fail(g)
      PROVE  Timed'
  <2>1. pc' = pc /\ i' = i /\ attempts' = attempts /\ secs' = secs
    BY <1>9 DEF Fail, hostVars
  <2>2. LastGpu \in alive' => queue'[LastGpu] = queue[LastGpu]
    BY <1>2, <1>9 DEF Fail, TypeOK
  <2> QED
    BY <1>1, <2>1, <2>2 DEF Timed, Paid
<1>10. CASE UNCHANGED <<hostVars, queue, alive>>
  BY <1>1, <1>10 DEF hostVars, Timed, Paid
<1>11. \/ Launch \/ Synchronize \/ Report \/ Tune \/ Pass
       \/ (\E g \in Gpus : Fail(g)) \/ UNCHANGED <<hostVars, queue, alive>>
  BY DEF Next, Host, Find, Drain, vars, gpuVars
<1> QED
  BY <1>4, <1>5, <1>6, <1>7, <1>8, <1>9, <1>10, <1>11

LEMMA NextShortPreserved ==
    TypeOK /\ Timed /\ NextIsShort /\ [Next]_vars => NextIsShort'
<1> SUFFICES ASSUME TypeOK, Timed, NextIsShort, [Next]_vars,
                    Adaptive', Even', LastGpu' \in alive',
                    NEW g \in Gpus', NEW c \in setup'.costs[g]
             PROVE  attempts' * c < Limit
  BY DEF NextIsShort
<1>1. setup' = setup /\ alive' \subseteq alive
  BY DEF Next, Host, Launch, Synchronize, Report, Tune, Find, Pass, Fail, Drain,
         vars, gpuVars
<1>2. Adaptive /\ Even /\ LastGpu \in alive /\ g \in Gpus /\ c \in setup.costs[g]
  BY <1>1 DEF Adaptive, Even, LastGpu, Gpus, TimedCosts
<1>3. attempts * c < Limit
  BY <1>2 DEF NextIsShort
<1>4. ASSUME Tune, secs > 0
      PROVE  attempts' * c < Limit
  <2>1. attempts' = Clamp(NextAttempts(attempts, secs))
    BY <1>2, <1>4 DEF Tune
  <2>2. PICK d \in setup.costs[LastGpu] : d * attempts <= secs
    BY <1>2, <1>4 DEF Timed, Paid, Tune
  <2>3. LastGpu \in Gpus
    BY <1>2 DEF TypeOK
  <2>4. d \in TimedCosts
    BY <2>3 DEF TimedCosts
  <2>5. c <= 3 * d /\ 8 * c <= Limit /\ 8 * d <= Limit /\ 4 * Target <= Limit
    BY <1>2, <2>3, <2>4 DEF Even
  <2>6. c \in Nat \ {0} /\ d \in Nat \ {0}
    BY <1>2, <2>3, SetupFacts
  <2>7. attempts \in Nat \ {0} /\ secs \in Nat
    BY <1>2, EngineAssumption DEF TypeOK, Adaptive
  <2>8. d * attempts \in Nat
    BY <2>6, <2>7
  <2>9. secs - d * attempts \in Nat /\ secs = d * attempts + (secs - d * attempts)
    BY <2>2, <2>7, <2>8
  <2> QED
    BY <1>3, <2>1, <2>5, <2>6, <2>7, <2>9, TuningIsShort
<1>5. CASE attempts' = attempts
  BY <1>3, <1>5
<1>6. (Tune /\ secs > 0) \/ attempts' = attempts
  BY DEF Next, Host, Launch, Synchronize, Report, Tune, Find, Pass, Fail, Drain,
         vars, hostVars
<1> QED
  BY <1>4, <1>5, <1>6

LEMMA QueueShortPreserved ==
    TypeOK /\ NextIsShort /\ QueueIsShort /\ [Next]_vars => QueueIsShort'
<1> SUFFICES ASSUME TypeOK, NextIsShort, QueueIsShort, [Next]_vars,
                    Adaptive', Even', LastGpu' \in alive',
                    NEW g \in Gpus', NEW k \in 1 .. Len(queue'[g]),
                    NEW c \in setup'.costs[g]
             PROVE  queue'[g][k].att * c < Limit
  BY DEF QueueIsShort
<1>1. setup' = setup /\ alive' \subseteq alive
  BY DEF Next, Host, Launch, Synchronize, Report, Tune, Find, Pass, Fail, Drain,
         vars, gpuVars
<1>2. Adaptive /\ Even /\ LastGpu \in alive /\ g \in Gpus /\ c \in setup.costs[g]
  BY <1>1 DEF Adaptive, Even, LastGpu, Gpus, TimedCosts
<1>3. attempts * c < Limit
  BY <1>2 DEF NextIsShort
<1>4. \A j \in 1 .. Len(queue[g]) : queue[g][j].att * c < Limit
  BY <1>2 DEF QueueIsShort
<1>5. queue[g] \in Seq(Kernels) /\ attempts \in Nat
  BY <1>2, SetupFacts DEF TypeOK, Kernels
<1>6. \A n \in 1 .. Len(queue'[g]) :
        \/ queue'[g][n].att = attempts
        \/ \E j \in 1 .. Len(queue[g]) : queue'[g][n].att = queue[g][j].att
  <2>1. queue \in [Gpus -> Seq(Kernels)]
    BY DEF TypeOK, Kernels
  <2>2. CASE Launch
    <3>1. CASE queue'[g] = queue[g]
      BY <3>1
    <3>2. CASE queue'[g] # queue[g]
      <4>1. PICK m \in Nat : queue'[g] = Append(queue[g], [att |-> attempts, left |-> m])
        <5>1. PICK d \in setup.costs[g] :
                queue'[g] = Append(queue[g], [att |-> attempts, left |-> d * attempts])
          BY <1>2, <2>1, <2>2, <3>2 DEF Launch
        <5>2. d \in Nat
          BY <1>2, SetupFacts
        <5>3. d * attempts \in Nat
          BY <1>5, <5>2
        <5> QED
          BY <5>1, <5>3
      <4>2. [att |-> attempts, left |-> m] \in Kernels
        BY <1>5 DEF Kernels
      <4>3. /\ Len(queue'[g]) = Len(queue[g]) + 1
            /\ queue'[g][Len(queue[g]) + 1] = [att |-> attempts, left |-> m]
            /\ \A j \in 1 .. Len(queue[g]) : queue'[g][j] = queue[g][j]
        BY <1>5, <4>1, <4>2
      <4>4. Len(queue[g]) \in Nat
        BY <1>5
      <4>5. ASSUME NEW n \in 1 .. Len(queue'[g])
            PROVE  n \in 1 .. Len(queue[g]) \/ n = Len(queue[g]) + 1
        BY ONLY <4>3, <4>4
      <4>6. queue'[g][Len(queue[g]) + 1].att = attempts
        BY ONLY <4>3
      <4>7. \A n \in 1 .. Len(queue[g]) : queue'[g][n].att = queue[g][n].att
        BY ONLY <4>3
      <4> QED
        BY ONLY <4>5, <4>6, <4>7
    <3> QED
      BY <3>1, <3>2
  <2>3. CASE Pass
    <3>1. PICK ticks \in Nat :
            /\ \A h \in Gpus : queue[h] # <<>> => ticks <= queue[h][1].left
            /\ queue' = [h \in Gpus |-> Ran(queue[h], ticks)]
      BY <2>3, PassIsTimely
    <3>2. queue'[g] = Ran(queue[g], ticks) /\ (queue[g] # <<>> => ticks <= queue[g][1].left)
      BY <1>2, <3>1
    <3>3. \A n \in 1 .. Len(Ran(queue[g], ticks)) :
            \E j \in 1 .. Len(queue[g]) : Ran(queue[g], ticks)[n].att = queue[g][j].att
      BY <1>5, <3>1, <3>2, RanKeeps
    <3> QED
      BY <3>2, <3>3
  <2>4. ASSUME NEW h \in Gpus, Fail(h)
        PROVE  queue'[g] = queue[g] \/ queue'[g] = <<>>
    BY <1>2, <2>1, <2>4 DEF Fail
  <2>5. CASE queue'[g] = queue[g] \/ queue'[g] = <<>>
    BY <2>5
  <2>6. \/ Launch \/ Pass \/ (\E h \in Gpus : Fail(h)) \/ queue' = queue
    BY DEF Next, Host, Synchronize, Report, Tune, Find, Drain, vars, gpuVars
  <2> QED
    BY <2>2, <2>3, <2>4, <2>5, <2>6
<1> QED
  BY <1>3, <1>4, <1>6

LEMMA ShortAtStart == Init => ShortInv
<1> SUFFICES ASSUME Init
             PROVE  Timed /\ NextIsShort /\ QueueIsShort
  BY TypesAtStart DEF ShortInv
<1>1. Timed
  <2>1. setup.gpus \in Nat
    BY TypesAtStart, SetupFacts
  <2>2. LastGpu \in alive => setup.gpus # 0
    BY <2>1 DEF Init, LastGpu, Gpus
  <2> QED
    BY <2>2 DEF Init, Timed
<1>2. Adaptive /\ Even => \A g \in Gpus : \A c \in setup.costs[g] : attempts * c < Limit
  BY DEF Init, Adaptive, Even
<1>3. QueueIsShort
  BY DEF Init, QueueIsShort
<1> QED
  BY <1>1, <1>2, <1>3 DEF NextIsShort

LEMMA ShortPreserved == ShortInv /\ [Next]_vars => ShortInv'
  BY TypesPreserved, TimedPreserved, NextShortPreserved, QueueShortPreserved DEF ShortInv

(* No launch lasts until the driver is reset while the timed GPU works, on *)
(* machines whose attempts differ by at most three times.                  *)
THEOREM LaunchesStayShort == Spec => []LaunchesShort
<1>1. ShortInv => LaunchesShort
  <2> SUFFICES ASSUME ShortInv, Adaptive /\ Even /\ LastGpu \in alive,
                      NEW g \in Gpus, NEW k \in DOMAIN queue[g],
                      NEW c \in setup.costs[g]
               PROVE  queue[g][k].att * c < Limit
    BY DEF LaunchesShort, Lasts
  <2>1. queue[g] \in Seq(Kernels)
    BY DEF ShortInv, TypeOK, Kernels
  <2> QED
    BY <2>1 DEF ShortInv, QueueIsShort
<1> QED
  BY <1>1, ShortAtStart, ShortPreserved, PTL DEF Spec
-----------------------------------------------------------------------------
(* Between the end of a round's waiting and the next launch, the timed GPU *)
(* has nothing queued and nothing printed; a GPU that failed has neither.  *)
DeadAreEmpty == \A g \in Gpus : g \notin alive => queue[g] = <<>> /\ fifo[g] = {}
WaitIsOver ==
    pc \in {"report", "tune"} /\ setup.gpus > 0 => queue[LastGpu] = <<>> /\ fifo[LastGpu] = {}
ReportWasFlushed == pc = "tune" => stdout = {}
FlushInv == TypeOK /\ DeadAreEmpty /\ WaitIsOver /\ ReportWasFlushed

LEMMA LastIsGpu == TypeOK /\ setup.gpus > 0 => LastGpu \in Gpus
  BY SetupFacts DEF Gpus, LastGpu

LEMMA FlushAtStart == Init => FlushInv
<1> SUFFICES ASSUME Init
             PROVE  DeadAreEmpty /\ WaitIsOver /\ ReportWasFlushed
  BY TypesAtStart DEF FlushInv
<1> QED
  BY DEF Init, DeadAreEmpty, WaitIsOver, ReportWasFlushed

(* The host's steps touch the timed GPU's buffers only to empty them, once *)
(* the launches of the round are made.                                     *)
LEMMA HostFlushes ==
    ASSUME FlushInv, Host
    PROVE  DeadAreEmpty' /\ WaitIsOver' /\ ReportWasFlushed'
<1>1. /\ queue \in [Gpus -> Seq(Kernels)] /\ fifo \in [Gpus -> SUBSET Found] /\ alive \subseteq Gpus
      /\ setup.gpus > 0 => LastGpu \in Gpus
  BY LastIsGpu DEF FlushInv, TypeOK, Kernels
<1>2. setup' = setup /\ alive' = alive /\ Gpus' = Gpus /\ LastGpu' = LastGpu
  BY DEF Host, Launch, Synchronize, Report, Tune, gpuVars, Gpus, LastGpu
<1>3. CASE Launch
  <2>1. pc' = "launch"
    BY <1>3 DEF Launch
  <2>2. ASSUME NEW g \in Gpus, g \notin alive
        PROVE  queue'[g] = queue[g] /\ fifo'[g] = fifo[g]
    BY <1>1, <1>3, <2>2 DEF Launch
  <2> QED
    BY <1>2, <2>1, <2>2 DEF FlushInv, DeadAreEmpty, WaitIsOver, ReportWasFlushed
<1>4. CASE Synchronize
  <2>1. pc' = "report" /\ queue' = queue
    BY <1>4 DEF Synchronize
  <2>2. ASSUME NEW g \in Gpus
        PROVE  fifo'[g] = fifo[g] \/ (g = LastGpu /\ fifo'[g] = {})
    BY <1>1, <1>4 DEF Synchronize
  <2>3. setup.gpus > 0 => queue[LastGpu] = <<>> /\ fifo'[LastGpu] = {}
    BY <1>1, <1>4 DEF Synchronize, FlushInv, DeadAreEmpty
  <2> QED
    BY <1>2, <2>1, <2>2, <2>3 DEF FlushInv, DeadAreEmpty, WaitIsOver, ReportWasFlushed
<1>5. CASE Report
  BY <1>2, <1>5 DEF Report, gpuVars, FlushInv, DeadAreEmpty, WaitIsOver, ReportWasFlushed
<1>6. CASE Tune
  BY <1>2, <1>6 DEF Tune, gpuVars, FlushInv, DeadAreEmpty, WaitIsOver, ReportWasFlushed
<1> QED
  BY <1>3, <1>4, <1>5, <1>6 DEF Host

(* A GPU without a launch prints nothing and ends nothing; one that fails  *)
(* is empty.                                                               *)
LEMMA GpusStayFlushed ==
    ASSUME FlushInv, Pass \/ \E h \in Gpus : Find(h) \/ Fail(h)
    PROVE  DeadAreEmpty' /\ WaitIsOver' /\ ReportWasFlushed'
<1>1. /\ TypeOK /\ queue \in [Gpus -> Seq(Kernels)] /\ fifo \in [Gpus -> SUBSET Found]
      /\ setup.gpus > 0 => LastGpu \in Gpus
  BY LastIsGpu DEF FlushInv, TypeOK, Kernels
<1>2. /\ setup' = setup /\ pc' = pc /\ stdout' = stdout /\ Gpus' = Gpus /\ LastGpu' = LastGpu
  BY DEF Find, Pass, Fail, hostVars, Gpus, LastGpu
<1>3. ASSUME NEW g \in Gpus, queue[g] = <<>>, fifo[g] = {}
      PROVE  queue'[g] = <<>> /\ fifo'[g] = {}
  <2>1. ASSUME NEW h \in Gpus, Find(h)
        PROVE  queue'[g] = <<>> /\ fifo'[g] = {}
    BY <1>1, <1>3, <2>1 DEF Find
  <2>2. CASE Pass
    <3>1. PICK ticks \in Nat : queue' = [h \in Gpus |-> Ran(queue[h], ticks)]
      BY <1>1, <2>2, PassIsTimely
    <3>2. queue'[g] = <<>>
      BY <1>3, <3>1 DEF Ran
    <3> QED
      BY <1>3, <2>2, <3>2 DEF Pass
  <2>3. ASSUME NEW h \in Gpus, Fail(h)
        PROVE  queue'[g] = <<>> /\ fifo'[g] = {}
    BY <1>1, <1>3, <2>3 DEF Fail
  <2> QED
    BY <2>1, <2>2, <2>3
<1>4. ASSUME NEW g \in Gpus, g \in alive, g \notin alive'
      PROVE  queue'[g] = <<>> /\ fifo'[g] = {}
  BY <1>1, <1>4 DEF Find, Pass, Fail
<1>5. DeadAreEmpty'
  BY <1>2, <1>3, <1>4 DEF FlushInv, DeadAreEmpty
<1> QED
  BY <1>1, <1>2, <1>3, <1>5 DEF FlushInv, WaitIsOver, ReportWasFlushed

LEMMA FlushPreserved == FlushInv /\ [Next]_vars => FlushInv'
<1> SUFFICES ASSUME FlushInv, [Next]_vars
             PROVE  DeadAreEmpty' /\ WaitIsOver' /\ ReportWasFlushed'
  BY TypesPreserved DEF FlushInv
<1>1. CASE Drain \/ UNCHANGED vars
  <2>1. /\ setup' = setup /\ pc' = pc /\ stdout' = stdout
        /\ queue' = queue /\ fifo' = fifo /\ alive' = alive
    BY <1>1 DEF Drain, vars, hostVars, gpuVars
  <2> QED
    BY <2>1 DEF FlushInv, DeadAreEmpty, WaitIsOver, ReportWasFlushed, Gpus, LastGpu
<1> QED
  BY <1>1, HostFlushes, GpusStayFlushed DEF Next

(* When a round is over, nothing the timed GPU printed is still on its way *)
(* to the pipe, whatever the other GPUs do and whichever fail.             *)
THEOREM RoundsFlush == Spec => []RoundIsFlushed
<1>1. FlushInv => RoundIsFlushed
  BY DEF FlushInv, WaitIsOver, ReportWasFlushed, RoundIsFlushed
<1> QED
  BY <1>1, FlushAtStart, FlushPreserved, PTL DEF Spec
=============================================================================
