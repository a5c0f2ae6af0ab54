---------------------------- MODULE VanityEngine ----------------------------
(***************************************************************************)
(* The engine's host loop (vanity_run in vanity.cu) and the GPUs it feeds. *)
(* Every round launches the search kernel on each GPU in turn, waits for   *)
(* the current (the last) GPU, flushes what was printed into the pipe and  *)
(* tunes the length of the next launches by the time the round took.       *)
(* Kernels run asynchronously: the GPUs nobody waits for fall behind and   *)
(* their launches stack up, until a launch has to wait for room.           *)
(*                                                                         *)
(* Time is counted in ticks.  An attempt costs a GPU some ticks, a launch  *)
(* of n attempts n times as many.  It passes on all GPUs at once, and in   *)
(* secs from the start of a round until its waiting ends.  What a kernel   *)
(* computes is left out; a FOUND line is a model value.                    *)
(***************************************************************************)
EXTENDS Integers, Sequences, FiniteSets

CONSTANTS
    Setups,     \* the machines and settings the engine may find
    Found,      \* FOUND lines
    Target,     \* TARGET_SEC in ticks
    MaxAtt,     \* MAX_ATT
    First,      \* attempts of the first launch (8)
    QueueCap,   \* bound: launches CUDA queues on a GPU
    Limit       \* ticks after which the driver is reset (TDR)

(* The arrays of the config struct have eight entries. *)
MaxGpus == 8

(* gpus: their number; fixed: VANITY_ATTEMPTS_PER_THREAD, 0 for adaptive;  *)
(* costs: the ticks an attempt may cost each GPU; delays: the ticks by     *)
(* which the host may come late, {0} if it never loses the processor.      *)
ASSUME EngineAssumption ==
    /\ \A m \in Setups :
          /\ m.gpus \in 0 .. MaxGpus /\ m.fixed \in Nat
          /\ m.costs \in [0 .. m.gpus - 1 -> SUBSET (Nat \ {0})]
          /\ m.delays \subseteq Nat
    /\ Target \in Nat \ {0} /\ MaxAtt \in Nat \ {0} /\ First \in Nat \ {0}
    /\ QueueCap \in Nat \ {0} /\ Limit \in Nat

VARIABLES
    setup,      \* the machine and settings
    attempts,   \* attempts per thread of the next launch
    pc,         \* where vanity_run is
    i,          \* the GPU launched next
    secs,       \* ticks the round has taken
    queue,      \* queue[g]: launches on GPU g not finished, oldest first;
                \* of each its attempts (att) and the ticks it needs yet (left)
    fifo,       \* fifo[g]: lines in g's printf buffer
    stdout,     \* lines in the C library's buffer
    pipe,       \* lines in the pipe; "report" is the performance line
    alive       \* the GPUs that have not failed; no CUDA error is checked

hostVars == <<attempts, pc, i, secs>>
gpuVars == <<queue, fifo, alive>>
vars == <<setup, hostVars, gpuVars, stdout, pipe>>

-----------------------------------------------------------------------------
Gpus == 0 .. setup.gpus - 1
LastGpu == setup.gpus - 1
Adaptive == setup.fixed = 0
Prompt == setup.delays = {0}

(* Lines on their way to the reader. *)
InFlight == UNION {fifo[g] : g \in Gpus} \cup stdout \cup pipe

Init ==
    /\ setup \in Setups
    /\ attempts = IF setup.fixed = 0 THEN First ELSE setup.fixed
    /\ pc = "launch" /\ i = 0 /\ secs = 0
    /\ queue = [g \in Gpus |-> <<>>]
    /\ fifo = [g \in Gpus |-> {}]
    /\ stdout = {} /\ pipe = {}
    /\ alive = Gpus

(* A launch flushes the GPU's printf buffer and waits for room in its      *)
(* queue; after a failure it does nothing.                                 *)
Launch ==
    /\ pc = "launch" /\ i < setup.gpus
    /\ IF i \in alive
       THEN /\ Len(queue[i]) < QueueCap
            /\ \E c \in setup.costs[i] :
                  queue' = [queue EXCEPT ![i] = Append(@, [att |-> attempts, left |-> c * attempts])]
            /\ stdout' = stdout \cup fifo[i]
            /\ fifo' = [fifo EXCEPT ![i] = {}]
       ELSE UNCHANGED <<queue, stdout, fifo>>
    /\ i' = i + 1
    /\ UNCHANGED <<setup, attempts, pc, secs, pipe, alive>>

(* cudaDeviceSynchronize waits for the GPU set last, and flushes its       *)
(* buffer.  Variants: it does not flush; it only asks, and the round       *)
(* starts anew if the GPU is busy.                                         *)
SynchronizeMute ==
    /\ pc = "launch" /\ i = setup.gpus
    /\ pc' = "report"
    /\ i' = 0
    /\ secs' \in {secs + d : d \in setup.delays}
    /\ LastGpu \in alive => queue[LastGpu] = <<>>
    /\ UNCHANGED <<setup, attempts, gpuVars, stdout, pipe>>

SynchronizePolling ==
    /\ pc = "launch" /\ i = setup.gpus
    /\ pc' = IF LastGpu \in alive /\ queue[LastGpu] # <<>> THEN "launch" ELSE "report"
    /\ i' = 0
    /\ secs' = IF pc' = "launch" THEN 0 ELSE secs
    /\ UNCHANGED <<setup, attempts, gpuVars, stdout, pipe>>

Synchronize ==
    /\ pc = "launch" /\ i = setup.gpus
    /\ pc' = "report"
    /\ i' = 0
    /\ secs' \in {secs + d : d \in setup.delays}
    /\ IF LastGpu \in alive
       THEN /\ queue[LastGpu] = <<>>
            /\ stdout' = stdout \cup fifo[LastGpu]
            /\ fifo' = [fifo EXCEPT ![LastGpu] = {}]
       ELSE UNCHANGED <<stdout, fifo>>
    /\ UNCHANGED <<setup, attempts, queue, pipe, alive>>

(* printf and fflush; a full pipe blocks them.  (Variant: no fflush.)      *)
ReportBuffered ==
    /\ pc = "report" /\ pipe = {}
    /\ pipe' = {"report"}
    /\ pc' = "tune"
    /\ UNCHANGED <<setup, attempts, i, secs, gpuVars, stdout>>

Report ==
    /\ pc = "report" /\ pipe = {}
    /\ pipe' = stdout \cup {"report"}
    /\ stdout' = {}
    /\ pc' = "tune"
    /\ UNCHANGED <<setup, attempts, i, secs, gpuVars>>

-----------------------------------------------------------------------------
(* x / y rounded: (int)(next + 0.5). *)
Round(x, y) == (2 * x + y) \div (2 * y)

(* attempts * (TARGET_SEC / secs), at most four times as many, at least a  *)
(* quarter.  Variants: the ratio upside down; no more than now.            *)
NextInverse(a, s) ==
    IF Target > 4 * s THEN 4 * a
    ELSE IF s > 4 * Target THEN Round(a, 4) ELSE Round(a * s, Target)
NextNever(a, s) ==
    IF s < Target THEN a
    ELSE IF s > 4 * Target THEN Round(a, 4) ELSE Round(a * Target, s)
NextAttempts(a, s) ==
    IF Target > 4 * s THEN 4 * a
    ELSE IF s > 4 * Target THEN Round(a, 4) ELSE Round(a * Target, s)

(* Between MIN_ATT and MAX_ATT (the variant forgets MIN_ATT).              *)
ClampTop(n) == IF n > MaxAtt THEN MaxAtt ELSE n
Clamp(n) == IF n < 1 THEN 1 ELSE IF n > MaxAtt THEN MaxAtt ELSE n

(* The next round's clock starts at once. *)
Tune ==
    /\ pc = "tune"
    /\ attempts' = IF Adaptive /\ secs > 0
                   THEN Clamp(NextAttempts(attempts, secs)) ELSE attempts
    /\ pc' = "launch" /\ secs' = 0
    /\ UNCHANGED <<setup, i, gpuVars, stdout, pipe>>

-----------------------------------------------------------------------------
(* A running kernel prints a key it found. *)
Find(g) ==
    /\ queue[g] # <<>>
    /\ \E l \in Found \ InFlight : fifo' = [fifo EXCEPT ![g] = @ \cup {l}]
    /\ UNCHANGED <<setup, hostVars, queue, alive, stdout, pipe>>

(* Time passes until the next kernel ends.  A prompt host takes no time of *)
(* its own: it passes only while the host waits for room in a queue or for *)
(* the last GPU.                                                           *)
Waiting ==
    /\ pc = "launch"
    /\ \/ i \in alive /\ Len(queue[i]) = QueueCap
       \/ i = setup.gpus /\ LastGpu \in alive /\ queue[LastGpu] # <<>>

Busy == {g \in Gpus : queue[g] # <<>>}
Ran(q, ticks) ==
    IF q = <<>> THEN q
    ELSE IF q[1].left = ticks THEN Tail(q) ELSE [q EXCEPT ![1].left = @ - ticks]

Pass ==
    /\ Prompt => Waiting
    /\ \E g \in Busy : LET ticks == queue[g][1].left IN
          /\ \A h \in Busy : ticks <= queue[h][1].left
          /\ queue' = [h \in Gpus |-> Ran(queue[h], ticks)]
          /\ secs' = IF pc = "launch" THEN secs + ticks ELSE secs
    /\ UNCHANGED <<setup, attempts, pc, i, fifo, alive, stdout, pipe>>

(* A GPU fails, or its driver is reset: what it was doing is lost. *)
Fail(g) ==
    /\ g \in alive
    /\ alive' = alive \ {g}
    /\ queue' = [queue EXCEPT ![g] = <<>>]
    /\ fifo' = [fifo EXCEPT ![g] = {}]
    /\ UNCHANGED <<setup, hostVars, stdout, pipe>>

(* The orchestrator empties the pipe. *)
Drain ==
    /\ pipe # {}
    /\ pipe' = {}
    /\ UNCHANGED <<setup, hostVars, gpuVars, stdout>>

-----------------------------------------------------------------------------
Host == Launch \/ Synchronize \/ Report \/ Tune

Next ==
    \/ Host
    \/ \E g \in Gpus : Find(g) \/ Fail(g)
    \/ Pass
    \/ Drain

Spec == Init /\ [][Next]_vars

(* The host runs, kernels end, the orchestrator reads. *)
Fairness == WF_vars(Host) /\ WF_vars(Pass) /\ WF_vars(Drain)
FairSpec == Spec /\ Fairness

-----------------------------------------------------------------------------
(* Properties.                                                             *)
TypeOK ==
    /\ setup \in Setups
    /\ attempts \in IF setup.fixed = 0
                    THEN 1 .. (IF First > MaxAtt THEN First ELSE MaxAtt) ELSE {setup.fixed}
    /\ pc \in {"launch", "report", "tune"}
    /\ i \in 0 .. setup.gpus
    /\ secs \in Nat
    /\ queue \in [Gpus -> Seq([att : Nat, left : Nat])]
    /\ fifo \in [Gpus -> SUBSET Found]
    /\ stdout \subseteq Found
    /\ pipe \subseteq Found \cup {"report"}
    /\ alive \subseteq Gpus

(* No tuned launch lasts until the driver is reset, on any GPU, as long as *)
(* the timed GPU works, if the first one cannot and no attempt costs more  *)
(* than three times what another one cost the timed GPU.  (The limit is    *)
(* four times TARGET_SEC, and rounding takes a part of it.)                *)
TimedCosts == UNION {setup.costs[g] : g \in Gpus \cap {LastGpu}}
Even ==
    /\ 4 * Target <= Limit
    /\ \A g \in Gpus : \A c \in setup.costs[g] :
          /\ First * c < Limit
          /\ 8 * c <= Limit
          /\ \A d \in TimedCosts : c <= 3 * d
Lasts(g, n) == {n * c : c \in setup.costs[g]}
LaunchesShort ==
    Adaptive /\ Even /\ LastGpu \in alive =>
        \A g \in Gpus : \A k \in DOMAIN queue[g] :
            \A d \in Lasts(g, queue[g][k].att) : d < Limit

(* "short enough to stay well under the TDR limit": the same without       *)
(* asking that the GPUs be alike.                                          *)
LaunchesUnderLimit ==
    Adaptive /\ (\A g \in Gpus : \A c \in setup.costs[g] : First * c < Limit) =>
        \A g \in Gpus : \A k \in DOMAIN queue[g] :
            \A d \in Lasts(g, queue[g][k].att) : d < Limit

(* When a round is over, nothing the timed GPU printed is still on its way *)
(* to the pipe.                                                            *)
RoundIsFlushed ==
    pc = "tune" => stdout = {} /\ (setup.gpus > 0 => fifo[LastGpu] = {})

(* On a machine of steady speed the tuning comes to rest where a launch    *)
(* takes TARGET_SEC, up to rounding and the bounds of attempts - if no GPU *)
(* is slower than the timed one, so that no launches stack up.             *)
Ideal == {Clamp(Round(Target, c)) : c \in TimedCosts}
Steady == Adaptive /\ Prompt /\ \A g \in Gpus : Cardinality(setup.costs[g]) = 1
NoneSlower == \A g \in Gpus : \A c \in setup.costs[g], d \in TimedCosts : c <= d
TuningSettles ==
    Steady /\ NoneSlower /\ [](LastGpu \in alive) => <>[](attempts \in Ideal)

(* Every line a kernel printed reaches the orchestrator, also those of     *)
(* GPUs nobody waits for, unless its GPU fails first.                      *)
LinesArrive == \A l \in Found : l \in InFlight ~> l \notin InFlight

(* The engine goes on reporting, whatever becomes of its GPUs and of the   *)
(* launches that stack up on them.                                         *)
ReportsForever == []<>(pc = "tune")
=============================================================================
