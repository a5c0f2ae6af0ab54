--------------------------- MODULE PohPoolProofs ----------------------------
(***************************************************************************)
(* What poh_verify_many returns, for any number of threads, GPUs and       *)
(* queues and batches of any lengths: the argument follows a call through  *)
(* its context, which nobody else touches while the call holds it.         *)
(***************************************************************************)
EXTENDS PohPool, TLAPS

Places == (0..(MAX_NUM_GPUS - 1)) \X (0..(MAX_QUEUE_SIZE - 1))
Hashes == [of : (Callers \X Nat) \union {Nobody}, n : Nat]
Contexts == [hashes : Seq(Hashes), num_hashes_arr : Seq(Nat), held : Callers \union {Nobody}]
Calls ==
  [pc : {"idle", "lock", "grow", "copy_in", "kernel", "copy_out", "unlock", "returned"},
   batch : Seq(Nat), hashes : Seq(Hashes), ctx : Places \union {NoContext}, calls : Nat]

TypeInv ==
  /\ g_total_gpus \in -1..MAX_NUM_GPUS
  /\ g_cur_gpu \in 0..(MAX_NUM_GPUS - 1)
  /\ g_cur_queue \in [0..(MAX_NUM_GPUS - 1) -> 0..(MAX_QUEUE_SIZE - 1)]
  /\ pool \in [Places -> Contexts]
  /\ caller \in [Callers -> Calls]

(* The two arrays of a context have one length. *)
BuffersInv == \A p \in Places : Len(pool[p].hashes) = Len(pool[p].num_hashes_arr)

(* A thread's own hash i after n rounds. *)
Own(c, i, n) == [of |-> <<c, i>>, n |-> n]

(* What each place in the call implies. *)
Unhashed(c, hashes) == \A i \in DOMAIN caller[c].batch : hashes[i] = Own(c, i, 0)
Hashed(c, hashes) == \A i \in DOMAIN caller[c].batch : hashes[i] = Own(c, i, caller[c].batch[i])
Fits(c) == Len(caller[c].batch) <= Len(Held(c).hashes)
InCall == {"lock", "grow", "copy_in", "kernel", "copy_out", "unlock"}
Holding == InCall \ {"lock"}

CallInv(c) ==
  /\ caller[c].pc \in InCall => caller[c].ctx \in Places
  /\ Len(caller[c].hashes) = Len(caller[c].batch)
  /\ caller[c].pc \in Holding => Held(c).held = c
  /\ caller[c].pc \in {"copy_in", "kernel", "copy_out"} => Fits(c)
  /\ caller[c].pc \in {"lock", "grow", "copy_in"} => Unhashed(c, caller[c].hashes)
  /\ At(c, "kernel") =>
       /\ Unhashed(c, Held(c).hashes)
       /\ \A i \in DOMAIN caller[c].batch : Held(c).num_hashes_arr[i] = caller[c].batch[i]
  /\ At(c, "copy_out") => Hashed(c, Held(c).hashes)
  /\ caller[c].pc \in {"unlock", "returned"} => Hashed(c, caller[c].hashes)

CallsInv == \A c \in Callers : CallInv(c)

PohInv == TypeInv /\ BuffersInv /\ CallsInv

-----------------------------------------------------------------------------
(* A function on a batch's elements is a sequence of its length. *)
LEMMA OnElements ==
  ASSUME NEW S, NEW T, NEW s \in Seq(S), NEW f, f = [i \in DOMAIN s |-> f[i]], \A i \in DOMAIN s : f[i] \in T
  PROVE  f \in Seq(T) /\ Len(f) = Len(s) /\ DOMAIN f = DOMAIN s
<1>1. DOMAIN s = 1..Len(s) /\ Len(s) \in Nat
  OBVIOUS
<1>2. f \in [1..Len(s) -> T]
  BY <1>1
<1>3. f \in Seq(T)
  BY <1>1, <1>2
<1>4. QED  BY <1>1, <1>2, <1>3

(* An element of the shorter of two sequences is one of the longer. *)
LEMMA Within ==
  ASSUME NEW S, NEW T, NEW s \in Seq(S), NEW t \in Seq(T), Len(s) <= Len(t), NEW i \in DOMAIN s
  PROVE  i \in DOMAIN t /\ i <= Len(s) /\ s[i] \in S
<1>1. DOMAIN s = 1..Len(s) /\ DOMAIN t = 1..Len(t) /\ Len(s) \in Nat /\ Len(t) \in Nat
  OBVIOUS
<1>2. QED  BY <1>1

(* Copying into a buffer keeps its length; a shorter source is its start. *)
LEMMA CopyInto ==
  ASSUME NEW S, NEW memory \in Seq(S), NEW from \in Seq(S)
  PROVE  /\ Copied(memory, from) \in Seq(S) /\ Len(Copied(memory, from)) = Len(memory)
         /\ \A i \in DOMAIN from : Len(from) <= Len(memory) => Copied(memory, from)[i] = from[i]
         /\ \A i \in DOMAIN memory : Len(memory) <= Len(from) => Copied(memory, from)[i] = from[i]
<1> DEFINE f == Copied(memory, from)
<1>1. f = [i \in DOMAIN memory |-> f[i]] /\ \A i \in DOMAIN memory : f[i] = IF i \in DOMAIN from THEN from[i] ELSE memory[i]
  BY DEF Copied
<1>2. \A i \in DOMAIN memory : f[i] \in S
  BY <1>1
<1>3. f \in Seq(S) /\ Len(f) = Len(memory) /\ DOMAIN f = DOMAIN memory
  BY <1>1, <1>2, OnElements
<1>4. DOMAIN memory = 1..Len(memory) /\ DOMAIN from = 1..Len(from) /\ Len(memory) \in Nat /\ Len(from) \in Nat
  OBVIOUS
<1>5. QED  BY <1>1, <1>3, <1>4

(* What a call relies on outlasts every step that leaves its record and,   *)
(* while it holds it, its context alone.                                   *)
LEMMA Undisturbed ==
  ASSUME NEW c \in Callers, CallInv(c),
         caller'[c].pc = caller[c].pc, caller'[c].batch = caller[c].batch,
         caller'[c].hashes = caller[c].hashes, caller'[c].ctx = caller[c].ctx,
         caller[c].pc \in Holding => pool'[caller[c].ctx] = pool[caller[c].ctx]
  PROVE  CallInv(c)'
<1>1. CASE caller[c].pc \in Holding
  BY <1>1 DEF CallInv, Held, Fits, Unhashed, Hashed, At, Own
<1>2. CASE caller[c].pc \notin Holding
  BY <1>2 DEF CallInv, Unhashed, Hashed, At, Own, Holding, InCall
<1>3. QED  BY <1>1, <1>2

(* A step of c on its own record and on the context it holds or takes. *)
LEMMA OwnStep ==
  ASSUME PohInv, NEW c \in Callers, TypeInv', BuffersInv', CallInv(c)',
         \A d \in Callers : d # c => caller'[d] = caller[d],
         \A p \in Places : p # caller[c].ctx => pool'[p] = pool[p],
         caller[c].ctx \in Places => Held(c).held \in {c, Nobody}
  PROVE  PohInv'
<1>1. ASSUME NEW d \in Callers, d # c PROVE CallInv(d)'
  <2>1. CallInv(d) /\ caller'[d] = caller[d]
    BY <1>1 DEF PohInv, CallsInv
  <2>2. ASSUME caller[d].pc \in Holding PROVE pool'[caller[d].ctx] = pool[caller[d].ctx]
    <3>1. caller[d].ctx \in Places /\ pool[caller[d].ctx].held = d
      BY <2>1, <2>2 DEF CallInv, Holding, Held
    <3>2. d # Nobody
      BY PohAssumption DEF Nobody
    <3>3. caller[d].ctx # caller[c].ctx
      BY <1>1, <3>1, <3>2 DEF Held
    <3>4. QED  BY <3>1, <3>3
  <2>3. QED  BY <2>1, <2>2, Undisturbed
<1>2. QED  BY <1>1 DEF PohInv, CallsInv

-----------------------------------------------------------------------------
(* The program starts with no call in progress and every context empty. *)
LEMMA PohStarts == PohInit => PohInv
<1> SUFFICES ASSUME PohInit PROVE PohInv
  OBVIOUS
<1>1. <<>> \in Seq(Hashes) /\ <<>> \in Seq(Nat) /\ Len(<<>>) = 0
  OBVIOUS
<1>2. FreshContext \in Contexts
  BY <1>1 DEF FreshContext, Contexts
<1>3. \A c \in Callers : caller[c] = Idle(0)
  BY DEF PohInit
<1>4. Idle(0) \in Calls
  BY <1>1 DEF Idle, Calls
<1>5. TypeInv
  <2>1. g_total_gpus \in -1..MAX_NUM_GPUS /\ g_cur_gpu \in 0..(MAX_NUM_GPUS - 1)
    BY PohAssumption DEF PohInit
  <2>2. g_cur_queue \in [0..(MAX_NUM_GPUS - 1) -> 0..(MAX_QUEUE_SIZE - 1)]
    BY PohAssumption DEF PohInit
  <2>3. pool \in [Places -> Contexts]
    BY <1>2 DEF PohInit, Places
  <2>4. caller \in [Callers -> Calls]
    BY <1>4 DEF PohInit
  <2>5. QED  BY <2>1, <2>2, <2>3, <2>4 DEF TypeInv
<1>6. BuffersInv
  BY DEF PohInit, BuffersInv, Places, FreshContext
<1>7. CallsInv
  <2> SUFFICES ASSUME NEW c \in Callers PROVE CallInv(c)
    BY DEF CallsInv
  <2>1. caller[c].pc = "idle" /\ caller[c].batch = <<>> /\ caller[c].hashes = <<>>
    BY <1>3 DEF Idle
  <2>2. QED  BY <2>1 DEF CallInv, At, InCall, Holding
<1>8. QED  BY <1>5, <1>6, <1>7 DEF PohInv

(* poh_init touches the number of GPUs alone. *)
LEMMA InitialiseKeeps == ASSUME PohInv, NEW c \in Callers, Initialise(c) PROVE PohInv'
<1>1. g_total_gpus' \in 0..MAX_NUM_GPUS
  BY DEF Initialise
<1>2. /\ g_cur_gpu' = g_cur_gpu /\ g_cur_queue' = g_cur_queue /\ pool' = pool /\ caller' = caller
  BY DEF Initialise
<1>3. TypeInv'
  BY <1>1, <1>2, PohAssumption DEF PohInv, TypeInv
<1>4. BuffersInv'
  BY <1>2 DEF PohInv, BuffersInv
<1>5. ASSUME NEW d \in Callers PROVE CallInv(d)'
  <2>1. CallInv(d)
    BY DEF PohInv, CallsInv
  <2>2. QED  BY <1>2, <2>1, Undisturbed
<1>6. QED  BY <1>3, <1>4, <1>5 DEF PohInv, CallsInv

(* A call that returns at once, of an empty batch or without GPUs. *)
LEMMA ReturnsAtOnce ==
  ASSUME PohInv, NEW c \in Callers, pool' = pool, g_cur_gpu' = g_cur_gpu, g_cur_queue' = g_cur_queue,
         g_total_gpus' \in -1..MAX_NUM_GPUS, caller' = [caller EXCEPT ![c].calls = @ + 1]
  PROVE  PohInv'
<1>1. caller[c] \in Calls /\ caller[c].calls \in Nat
  BY DEF PohInv, TypeInv, Calls
<1>2. \A d \in Callers : d # c => caller'[d] = caller[d]
  BY DEF PohInv, TypeInv
<1>3. caller'[c] = [caller[c] EXCEPT !.calls = @ + 1]
  BY DEF PohInv, TypeInv
<1>4. /\ caller'[c].pc = caller[c].pc /\ caller'[c].batch = caller[c].batch
      /\ caller'[c].hashes = caller[c].hashes /\ caller'[c].ctx = caller[c].ctx
      /\ caller'[c] \in Calls
  <2>1. DOMAIN caller[c] = {"pc", "batch", "hashes", "ctx", "calls"}
    BY <1>1 DEF Calls
  <2>2. /\ caller'[c].pc = caller[c].pc /\ caller'[c].batch = caller[c].batch
        /\ caller'[c].hashes = caller[c].hashes /\ caller'[c].ctx = caller[c].ctx
        /\ caller'[c].calls = caller[c].calls + 1
    BY <1>3, <2>1
  <2>3. caller'[c] = [pc |-> caller'[c].pc, batch |-> caller'[c].batch, hashes |-> caller'[c].hashes,
                      ctx |-> caller'[c].ctx, calls |-> caller'[c].calls]
    BY <1>1, <1>3 DEF Calls
  <2>4. caller'[c].calls \in Nat
    BY <1>1, <2>2
  <2>5. QED  BY <1>1, <2>2, <2>3, <2>4 DEF Calls
<1>5. caller' \in [Callers -> Calls]
  <2>1. caller' = [d \in Callers |-> caller'[d]]
    BY DEF PohInv, TypeInv
  <2>2. \A d \in Callers : caller'[d] \in Calls
    BY <1>2, <1>4 DEF PohInv, TypeInv
  <2>3. QED  BY <2>1, <2>2
<1>6. TypeInv' /\ BuffersInv'
  BY <1>5 DEF PohInv, TypeInv, BuffersInv
<1>7. ASSUME NEW d \in Callers PROVE CallInv(d)'
  <2>1. CallInv(d)
    BY DEF PohInv, CallsInv
  <2>2. QED  BY <1>2, <1>4, <2>1, Undisturbed
<1>8. QED  BY <1>6, <1>7 DEF PohInv, CallsInv

(* The next GPU in turn is one there is room for. *)
LEMMA NextInTurn ==
  ASSUME NEW a \in Int, NEW b \in Int, NEW m \in Int, 0 < b, b <= m
  PROVE  (a % b) \in 0..(m - 1)
  OBVIOUS

(* A call records its batch and hashes and the context whose turn it is. *)
LEMMA PickKeeps ==
  ASSUME PohInv, NEW c \in Callers, NEW batch \in Batches, Pick(c, batch)
  PROVE  PohInv'
<1>1. g_total_gpus' \in -1..MAX_NUM_GPUS /\ pool' = pool
  BY PohAssumption DEF Pick, PohInv, TypeInv
<1>2. CASE batch = <<>>
  BY <1>1, <1>2, ReturnsAtOnce DEF Pick
<1>3. CASE batch # <<>> /\ g_total_gpus' <= 0
  BY <1>1, <1>3, ReturnsAtOnce DEF Pick
<1>4. CASE batch # <<>> /\ ~(g_total_gpus' <= 0)
  <2> DEFINE ctx == <<g_cur_gpu, g_cur_queue[g_cur_gpu]>>
             hashes == [i \in DOMAIN batch |-> [of |-> <<c, i>>, n |-> 0]]
  <2>1. /\ g_cur_gpu' = (g_cur_gpu + 1) % g_total_gpus'
        /\ g_cur_queue' = [g_cur_queue EXCEPT ![g_cur_gpu] = (@ + 1) % MAX_QUEUE_SIZE]
        /\ caller' = [caller EXCEPT ![c] = [pc |-> "lock", batch |-> batch, calls |-> @.calls + 1,
                                            hashes |-> hashes, ctx |-> ctx]]
    BY <1>4 DEF Pick
  <2>2. At(c, "idle")
    BY DEF Pick
  <2>3. batch \in Seq(Nat) /\ \A i \in DOMAIN batch : i \in Nat
    BY PohAssumption
  <2>4. hashes \in Seq(Hashes) /\ Len(hashes) = Len(batch) /\ DOMAIN hashes = DOMAIN batch
    <3>1. \A i \in DOMAIN batch : hashes[i] \in Hashes
      BY <2>3 DEF Hashes
    <3>2. hashes = [i \in DOMAIN batch |-> hashes[i]]
      OBVIOUS
    <3> HIDE DEF hashes
    <3>3. QED  BY <2>3, <3>1, <3>2, OnElements
  <2>5. ctx \in Places
    BY DEF PohInv, TypeInv, Places
  <2>6. \A i \in DOMAIN batch : hashes[i] = Own(c, i, 0)
    BY DEF Own
  <2> HIDE DEF ctx, hashes
  <2>7. caller[c] \in Calls /\ caller[c].calls \in Nat
    BY DEF PohInv, TypeInv, Calls
  <2>8. caller'[c] = [pc |-> "lock", batch |-> batch, calls |-> caller[c].calls + 1, hashes |-> hashes, ctx |-> ctx]
    BY <2>1 DEF PohInv, TypeInv
  <2>9. TypeInv'
    <3>1. caller'[c] \in Calls
      BY <2>3, <2>4, <2>5, <2>7, <2>8 DEF Calls
    <3>2. caller' \in [Callers -> Calls]
      BY <2>1, <2>8, <3>1 DEF PohInv, TypeInv
    <3>3. g_cur_gpu' \in 0..(MAX_NUM_GPUS - 1)
      <4>1. /\ g_total_gpus' \in Int /\ 0 < g_total_gpus' /\ g_total_gpus' <= MAX_NUM_GPUS
            /\ g_cur_gpu \in Int /\ MAX_NUM_GPUS \in Int
        BY <1>1, <1>4, PohAssumption DEF PohInv, TypeInv
      <4>2. g_cur_gpu + 1 \in Int
        BY ONLY <4>1
      <4>3. QED  BY <2>1, <4>1, <4>2, NextInTurn
    <3>4. g_cur_queue' \in [0..(MAX_NUM_GPUS - 1) -> 0..(MAX_QUEUE_SIZE - 1)]
      BY <2>1, PohAssumption DEF PohInv, TypeInv
    <3>5. QED  BY <1>1, <3>2, <3>3, <3>4 DEF PohInv, TypeInv
  <2>10. BuffersInv'
    BY <1>1 DEF PohInv, BuffersInv
  <2>11. CallInv(c)'
    BY <2>4, <2>5, <2>6, <2>8 DEF CallInv, InCall, Holding, At, Unhashed
  <2>12. ASSUME NEW d \in Callers PROVE CallInv(d)'
    <3>1. CASE d = c
      BY <2>11, <3>1
    <3>2. CASE d # c
      <4>1. caller'[d] = caller[d]
        BY <2>1, <3>2 DEF PohInv, TypeInv
      <4>2. CallInv(d)
        BY DEF PohInv, CallsInv
      <4>3. QED  BY <1>1, <4>1, <4>2, Undisturbed
    <3>3. QED  BY <3>1, <3>2
  <2>13. QED  BY <2>9, <2>10, <2>12 DEF PohInv, CallsInv
<1>5. QED  BY <1>2, <1>3, <1>4

(* What Go does to the records of the threads. *)
LEMMA Goes ==
  ASSUME TypeInv, NEW c \in Callers,
         NEW pc \in {"grow", "copy_in", "kernel", "copy_out", "returned"}, Go(c, pc)
  PROVE  /\ caller' \in [Callers -> Calls] /\ caller'[c].pc = pc
         /\ caller'[c].batch = caller[c].batch /\ caller'[c].hashes = caller[c].hashes
         /\ caller'[c].ctx = caller[c].ctx
         /\ \A d \in Callers : d # c => caller'[d] = caller[d]
  BY DEF Go, TypeInv, Calls

(* What a call that holds its context knows. *)
LEMMA Holder ==
  ASSUME PohInv, NEW c \in Callers, caller[c].pc \in Holding
  PROVE  /\ caller[c].ctx \in Places /\ Held(c).held = c /\ Held(c) \in Contexts
         /\ caller[c].batch \in Seq(Nat) /\ caller[c].hashes \in Seq(Hashes)
         /\ Len(caller[c].hashes) = Len(caller[c].batch) /\ CallInv(c)
         /\ Len(Held(c).hashes) = Len(Held(c).num_hashes_arr)
<1>1. CallInv(c) /\ caller[c] \in Calls
  BY DEF PohInv, CallsInv, TypeInv
<1>2. caller[c].ctx \in Places /\ Held(c).held = c
  BY <1>1 DEF CallInv, Holding
<1>3. QED  BY <1>1, <1>2 DEF CallInv, Calls, Held, PohInv, TypeInv, BuffersInv

(* The context lock makes the caller the holder. *)
LEMMA LockKeeps == ASSUME PohInv, NEW c \in Callers, LockContext(c) PROVE PohInv'
<1> DEFINE p == caller[c].ctx
<1>1. /\ CallInv(c) /\ p \in Places /\ pool[p] \in Contexts /\ Held(c).held = Nobody /\ At(c, "lock")
  BY DEF LockContext, PohInv, TypeInv, CallsInv, CallInv, InCall, At
<1>2. /\ pool' \in [Places -> Contexts] /\ pool'[p].held = c
      /\ pool'[p].hashes = pool[p].hashes /\ pool'[p].num_hashes_arr = pool[p].num_hashes_arr
      /\ \A q \in Places : q # p => pool'[q] = pool[q]
  BY <1>1 DEF LockContext, PohInv, TypeInv, Contexts
<1>3. /\ caller' \in [Callers -> Calls] /\ caller'[c].pc = "grow"
      /\ caller'[c].batch = caller[c].batch /\ caller'[c].hashes = caller[c].hashes /\ caller'[c].ctx = p
      /\ \A d \in Callers : d # c => caller'[d] = caller[d]
  BY Goes DEF LockContext, PohInv
<1>4. TypeInv'
  BY <1>2, <1>3 DEF LockContext, PohInv, TypeInv
<1>5. BuffersInv'
  BY <1>2 DEF PohInv, BuffersInv
<1>6. CallInv(c)'
  BY <1>1, <1>2, <1>3 DEF CallInv, At, Held, InCall, Holding, Unhashed
<1>7. QED  BY <1>1, <1>2, <1>3, <1>4, <1>5, <1>6, OwnStep

(* A step by the thread that holds a context, on that context and on its   *)
(* own record.                                                             *)
LEMMA HolderStep ==
  ASSUME PohInv, NEW c \in Callers, caller[c].pc \in Holding,
         UNCHANGED <<g_total_gpus, g_cur_gpu, g_cur_queue>>,
         caller' \in [Callers -> Calls], pool' \in [Places -> Contexts],
         \A d \in Callers : d # c => caller'[d] = caller[d],
         \A p \in Places : p # caller[c].ctx => pool'[p] = pool[p],
         Len(pool'[caller[c].ctx].hashes) = Len(pool'[caller[c].ctx].num_hashes_arr),
         CallInv(c)'
  PROVE  PohInv'
<1>1. TypeInv'
  BY DEF PohInv, TypeInv
<1>2. BuffersInv'
  BY DEF PohInv, BuffersInv
<1>3. Held(c).held \in {c, Nobody}
  BY Holder
<1>4. QED  BY <1>1, <1>2, <1>3, OwnStep

(* Replacing the arrays of the context c holds. *)
Refilled(c, hashes, nums) ==
  pool' = [pool EXCEPT ![caller[c].ctx].hashes = hashes, ![caller[c].ctx].num_hashes_arr = nums]

LEMMA NewArrays ==
  ASSUME PohInv, NEW c \in Callers, caller[c].pc \in Holding,
         NEW hashes \in Seq(Hashes), NEW nums \in Seq(Nat),
         Refilled(c, hashes, nums)
  PROVE  /\ pool' \in [Places -> Contexts]
         /\ pool'[caller[c].ctx].hashes = hashes /\ pool'[caller[c].ctx].num_hashes_arr = nums
         /\ pool'[caller[c].ctx].held = c
         /\ \A p \in Places : p # caller[c].ctx => pool'[p] = pool[p]
<1> DEFINE p == caller[c].ctx
<1>1. p \in Places /\ pool[p].held = c /\ pool[p] \in Contexts
  BY Holder DEF Held
<1>2. pool \in [Places -> Contexts]
  BY DEF PohInv, TypeInv
<1> HIDE DEF p
<1>3. pool' = [pool EXCEPT ![p].hashes = hashes, ![p].num_hashes_arr = nums]
  BY DEF p, Refilled
<1>4. /\ pool'[p].hashes = hashes /\ pool'[p].num_hashes_arr = nums /\ pool'[p].held = c
      /\ pool'[p] \in Contexts
  BY <1>1, <1>2, <1>3 DEF Contexts
<1>5. \A q \in Places : q # p => pool'[q] = pool[q]
  BY <1>2, <1>3
<1>6. pool' \in [Places -> Contexts]
  <2>1. pool' = [q \in Places |-> pool'[q]]
    BY <1>2, <1>3
  <2>2. \A q \in Places : pool'[q] \in Contexts
    BY <1>2, <1>4, <1>5
  <2>3. QED  BY <2>1, <2>2
<1>7. QED  BY <1>4, <1>5, <1>6 DEF p

(* The buffers are made large enough or are so already, both together. *)
LEMMA GrowKeeps == ASSUME PohInv, NEW c \in Callers, Grow(c) PROVE PohInv'
<1> DEFINE p == caller[c].ctx
           b == caller[c].batch
<1>1. caller[c].pc = "grow" /\ caller[c].pc \in Holding
  BY DEF Grow, At, Holding, InCall
<1>2. /\ p \in Places /\ pool[p].held = c /\ pool[p] \in Contexts /\ b \in Seq(Nat)
      /\ Len(caller[c].hashes) = Len(b) /\ Len(pool[p].hashes) = Len(pool[p].num_hashes_arr)
      /\ Unhashed(c, caller[c].hashes)
  BY <1>1, Holder DEF Held, CallInv
<1>3. /\ caller' \in [Callers -> Calls] /\ caller'[c].pc = "copy_in"
      /\ caller'[c].batch = b /\ caller'[c].hashes = caller[c].hashes /\ caller'[c].ctx = p
      /\ \A d \in Callers : d # c => caller'[d] = caller[d]
  BY Goes DEF Grow, PohInv
<1>4. /\ pool' \in [Places -> Contexts] /\ pool'[p].held = c
      /\ \A q \in Places : q # p => pool'[q] = pool[q]
      /\ Len(pool'[p].hashes) = Len(pool'[p].num_hashes_arr)
      /\ Len(b) <= Len(pool'[p].hashes)
  <2>1. CASE TooSmall(Held(c), b)
    <3> DEFINE zeros == [i \in DOMAIN b |-> 0]
    <3>1. Refilled(c, Garbage(b), zeros)
      BY <2>1 DEF Grow, Refilled
    <3>2. Garbage(b) \in Seq(Hashes) /\ Len(Garbage(b)) = Len(b)
      <4>1. \A i \in DOMAIN b : Garbage(b)[i] \in Hashes
        BY DEF Garbage, Hashes
      <4>2. Garbage(b) = [i \in DOMAIN b |-> Garbage(b)[i]]
        BY DEF Garbage
      <4> HIDE DEF b
      <4>3. QED  BY <1>2, <4>1, <4>2, OnElements
    <3>3. zeros \in Seq(Nat) /\ Len(zeros) = Len(b)
      <4>1. zeros = [i \in DOMAIN b |-> zeros[i]] /\ \A i \in DOMAIN b : zeros[i] \in Nat
        OBVIOUS
      <4> HIDE DEF b, zeros
      <4>2. QED  BY <1>2, <4>1, OnElements
    <3>4. Len(b) \in Nat
      BY <1>2
    <3> HIDE DEF zeros, b
    <3>5. QED  BY <1>1, <3>1, <3>2, <3>3, <3>4, NewArrays
  <2>2. CASE ~TooSmall(Held(c), b)
    <3>1. pool' = pool
      BY <2>2 DEF Grow
    <3>2. Len(b) \in Nat /\ Len(pool[p].hashes) \in Nat
      BY <1>2 DEF Contexts
    <3>3. QED  BY <1>2, <2>2, <3>1, <3>2 DEF TooSmall, Held, PohInv, TypeInv
  <2>3. QED  BY <2>1, <2>2
<1>5. CallInv(c)'
  BY <1>2, <1>3, <1>4 DEF CallInv, At, Held, InCall, Holding, Unhashed, Fits
<1>6. UNCHANGED <<g_total_gpus, g_cur_gpu, g_cur_queue>>
  BY DEF Grow
<1>7. QED  BY <1>1, <1>3, <1>4, <1>5, <1>6, HolderStep

(* The caller's hashes and numbers come to stand in its context. *)
LEMMA CopyInKeeps == ASSUME PohInv, NEW c \in Callers, CopyIn(c) PROVE PohInv'
<1> DEFINE p == caller[c].ctx
           b == caller[c].batch
           hashes == Copied(pool[p].hashes, caller[c].hashes)
           nums == Copied(pool[p].num_hashes_arr, b)
<1>1. caller[c].pc = "copy_in" /\ caller[c].pc \in Holding
  BY DEF CopyIn, At, Holding, InCall
<1>2. /\ p \in Places /\ pool[p] \in Contexts /\ b \in Seq(Nat) /\ caller[c].hashes \in Seq(Hashes)
      /\ Len(caller[c].hashes) = Len(b) /\ Len(pool[p].hashes) = Len(pool[p].num_hashes_arr)
      /\ Unhashed(c, caller[c].hashes) /\ Len(b) <= Len(pool[p].hashes)
  BY <1>1, Holder DEF Held, CallInv, Fits
<1>3. /\ caller' \in [Callers -> Calls] /\ caller'[c].pc = "kernel"
      /\ caller'[c].batch = b /\ caller'[c].hashes = caller[c].hashes /\ caller'[c].ctx = p
      /\ \A d \in Callers : d # c => caller'[d] = caller[d]
  BY Goes DEF CopyIn, PohInv
<1>4. pool[p].hashes \in Seq(Hashes) /\ pool[p].num_hashes_arr \in Seq(Nat)
  BY <1>2 DEF Contexts
<1>5. /\ hashes \in Seq(Hashes) /\ Len(hashes) = Len(pool[p].hashes)
      /\ \A i \in DOMAIN caller[c].hashes : hashes[i] = caller[c].hashes[i]
  BY <1>2, <1>4, CopyInto, SMTT(30)
<1>6. /\ nums \in Seq(Nat) /\ Len(nums) = Len(pool[p].num_hashes_arr) /\ \A i \in DOMAIN b : nums[i] = b[i]
  <2> HIDE DEF b
  <2>1. QED  BY <1>2, <1>4, CopyInto, SMTT(30)
<1>7. Refilled(c, hashes, nums)
  BY <1>2 DEF CopyIn, Refilled, PohInv, TypeInv
<1>8. DOMAIN caller[c].hashes = DOMAIN b
  BY <1>2
<1> HIDE DEF hashes, nums
<1>9. /\ pool' \in [Places -> Contexts] /\ pool'[p].hashes = hashes /\ pool'[p].num_hashes_arr = nums
      /\ pool'[p].held = c /\ \A q \in Places : q # p => pool'[q] = pool[q]
  BY <1>1, <1>5, <1>6, <1>7, NewArrays
<1>10. CallInv(c)'
  BY <1>2, <1>3, <1>5, <1>6, <1>8, <1>9 DEF CallInv, At, Held, InCall, Holding, Unhashed, Fits
<1>11. UNCHANGED <<g_total_gpus, g_cur_gpu, g_cur_queue>>
  BY DEF CopyIn
<1>12. QED  BY <1>1, <1>2, <1>3, <1>5, <1>6, <1>9, <1>10, <1>11, HolderStep

(* The kernel leaves the array's length and adds to an element's rounds    *)
(* the number asked for.                                                   *)
LEMMA KernelOn ==
  ASSUME NEW hashes \in Seq(Hashes), NEW nums \in Seq(Nat), NEW n \in Nat, Len(nums) = Len(hashes)
  PROVE  /\ poh_verify_kernel(hashes, nums, n) \in Seq(Hashes)
         /\ Len(poh_verify_kernel(hashes, nums, n)) = Len(hashes)
         /\ \A i \in DOMAIN hashes : i <= n =>
              poh_verify_kernel(hashes, nums, n)[i] = [of |-> hashes[i].of, n |-> hashes[i].n + nums[i]]
<1> DEFINE f == poh_verify_kernel(hashes, nums, n)
<1>1. DOMAIN hashes = DOMAIN nums
  OBVIOUS
<1>2. \A i \in DOMAIN hashes : hashes[i] \in Hashes /\ nums[i] \in Nat
  BY <1>1
<1>3. \A i \in DOMAIN hashes :
        f[i] = IF i <= n THEN [of |-> hashes[i].of, n |-> hashes[i].n + nums[i]] ELSE hashes[i]
  <2> SUFFICES ASSUME NEW i \in DOMAIN hashes
               PROVE  f[i] = IF i <= n THEN [of |-> hashes[i].of, n |-> hashes[i].n + nums[i]] ELSE hashes[i]
    OBVIOUS
  <2>1. hashes[i] \in Hashes
    BY <1>2
  <2>2. [hashes[i] EXCEPT !.n = @ + nums[i]] = [of |-> hashes[i].of, n |-> hashes[i].n + nums[i]]
    BY <2>1 DEF Hashes
  <2>3. f[i] = IF i <= n THEN [hashes[i] EXCEPT !.n = @ + nums[i]] ELSE hashes[i]
    BY DEF poh_verify_kernel
  <2>4. QED  BY <2>2, <2>3
<1>4. f = [i \in DOMAIN hashes |-> f[i]]
  BY DEF poh_verify_kernel
<1> HIDE DEF f
<1>5. \A i \in DOMAIN hashes : f[i] \in Hashes
  <2> SUFFICES ASSUME NEW i \in DOMAIN hashes PROVE f[i] \in Hashes
    OBVIOUS
  <2>1. hashes[i].of \in (Callers \X Nat) \union {Nobody} /\ hashes[i].n \in Nat /\ nums[i] \in Nat
    BY <1>2 DEF Hashes
  <2>2. hashes[i].n + nums[i] \in Nat
    BY <2>1
  <2>3. [of |-> hashes[i].of, n |-> hashes[i].n + nums[i]] \in Hashes
    BY <2>1, <2>2 DEF Hashes
  <2>4. QED  BY <1>2, <1>3, <2>3
<1>6. f \in Seq(Hashes) /\ Len(f) = Len(hashes)
  BY <1>4, <1>5, OnElements
<1>7. QED  BY <1>3, <1>6 DEF f

(* The kernel brings each element to the rounds asked for. *)
LEMMA KernelKeeps == ASSUME PohInv, NEW c \in Callers, Kernel(c) PROVE PohInv'
<1> DEFINE p == caller[c].ctx
           b == caller[c].batch
           nums == pool[p].num_hashes_arr
           hashes == poh_verify_kernel(pool[p].hashes, nums, Len(b))
<1>1. caller[c].pc = "kernel" /\ caller[c].pc \in Holding
  BY DEF Kernel, At, Holding, InCall
<1>2. /\ p \in Places /\ pool[p] \in Contexts /\ b \in Seq(Nat) /\ caller[c].hashes \in Seq(Hashes)
      /\ Len(caller[c].hashes) = Len(b) /\ Len(pool[p].hashes) = Len(pool[p].num_hashes_arr)
      /\ Unhashed(c, pool[p].hashes) /\ Len(b) <= Len(pool[p].hashes)
      /\ \A i \in DOMAIN b : nums[i] = b[i]
  BY <1>1, Holder DEF Held, CallInv, Fits, At
<1>3. /\ caller' \in [Callers -> Calls] /\ caller'[c].pc = "copy_out"
      /\ caller'[c].batch = b /\ caller'[c].hashes = caller[c].hashes /\ caller'[c].ctx = p
      /\ \A d \in Callers : d # c => caller'[d] = caller[d]
  BY Goes DEF Kernel, PohInv
<1>4. pool[p].hashes \in Seq(Hashes) /\ nums \in Seq(Nat) /\ Len(b) \in Nat
  BY <1>2 DEF Contexts
<1>5. /\ hashes \in Seq(Hashes) /\ Len(hashes) = Len(pool[p].hashes)
      /\ \A i \in DOMAIN pool[p].hashes : i <= Len(b) =>
            hashes[i] = [of |-> pool[p].hashes[i].of, n |-> pool[p].hashes[i].n + nums[i]]
  BY <1>2, <1>4, KernelOn
<1>6. \A i \in DOMAIN b : hashes[i] = Own(c, i, b[i])
  <2> SUFFICES ASSUME NEW i \in DOMAIN b PROVE hashes[i] = Own(c, i, b[i])
    OBVIOUS
  <2>1. i \in DOMAIN pool[p].hashes /\ i <= Len(b) /\ b[i] \in Nat
    <3> HIDE DEF b
    <3>1. QED  BY <1>2, <1>4, Within
  <2>2. pool[p].hashes[i] = Own(c, i, 0)
    BY <1>2 DEF Unhashed
  <2>3. pool[p].hashes[i].of = <<c, i>> /\ pool[p].hashes[i].n = 0 /\ nums[i] = b[i]
    BY <1>2, <2>2 DEF Own
  <2> HIDE DEF hashes, b, nums
  <2>4. hashes[i] = [of |-> <<c, i>>, n |-> 0 + b[i]]
    BY <1>5, <2>1, <2>3
  <2>5. 0 + b[i] = b[i]
    BY <2>1
  <2>6. QED  BY <2>4, <2>5 DEF Own
<1>7. Refilled(c, hashes, nums)
  <2>1. pool' = [pool EXCEPT ![p].hashes = hashes]
    BY <1>2 DEF Kernel, Held, PohInv, TypeInv
  <2>2. pool \in [Places -> Contexts] /\ pool[p] \in Contexts
    BY <1>2 DEF PohInv, TypeInv
  <2> HIDE DEF hashes
  <2>3. [pool[p] EXCEPT !.hashes = hashes] = [pool[p] EXCEPT !.hashes = hashes, !.num_hashes_arr = nums]
    BY <2>2 DEF Contexts
  <2>4. QED  BY <2>1, <2>2, <2>3, <1>2 DEF Refilled
<1> HIDE DEF hashes
<1>8. /\ pool' \in [Places -> Contexts] /\ pool'[p].hashes = hashes /\ pool'[p].num_hashes_arr = nums
      /\ pool'[p].held = c /\ \A q \in Places : q # p => pool'[q] = pool[q]
  <2> HIDE DEF nums
  <2>1. QED  BY <1>1, <1>4, <1>5, <1>7, NewArrays
<1>9. CallInv(c)'
  BY <1>2, <1>3, <1>5, <1>6, <1>8 DEF CallInv, At, Held, InCall, Holding, Hashed, Fits
<1>10. UNCHANGED <<g_total_gpus, g_cur_gpu, g_cur_queue>>
  BY DEF Kernel
<1>11. QED  BY <1>1, <1>2, <1>3, <1>5, <1>8, <1>9, <1>10, HolderStep

(* The hashed elements come back to the caller. *)
LEMMA CopyOutKeeps == ASSUME PohInv, NEW c \in Callers, CopyOut(c) PROVE PohInv'
<1> DEFINE p == caller[c].ctx
           b == caller[c].batch
           hashes == Copied(caller[c].hashes, pool[p].hashes)
<1>1. caller[c].pc = "copy_out" /\ caller[c].pc \in Holding
  BY DEF CopyOut, At, Holding, InCall
<1>2. /\ p \in Places /\ pool[p] \in Contexts /\ b \in Seq(Nat) /\ caller[c].hashes \in Seq(Hashes)
      /\ Len(caller[c].hashes) = Len(b) /\ Len(pool[p].hashes) = Len(pool[p].num_hashes_arr)
      /\ Hashed(c, pool[p].hashes) /\ Len(b) <= Len(pool[p].hashes) /\ pool[p].held = c
  BY <1>1, Holder DEF Held, CallInv, Fits, At
<1>3. pool[p].hashes \in Seq(Hashes)
  BY <1>2 DEF Contexts
<1>4. /\ hashes \in Seq(Hashes) /\ Len(hashes) = Len(b)
      /\ \A i \in DOMAIN caller[c].hashes : hashes[i] = pool[p].hashes[i]
  <2> HIDE DEF b
  <2>1. QED  BY <1>2, <1>3, CopyInto
<1>5. \A i \in DOMAIN b : hashes[i] = Own(c, i, b[i])
  <2>1. DOMAIN caller[c].hashes = DOMAIN b
    BY <1>2
  <2> HIDE DEF hashes
  <2>2. QED  BY <1>2, <1>4, <2>1 DEF Hashed
<1> HIDE DEF hashes
<1>6. caller' = [caller EXCEPT ![c].hashes = hashes, ![c].pc = "unlock"]
  BY DEF CopyOut, Held, hashes, PohInv, TypeInv
<1>7. caller[c] \in Calls /\ caller \in [Callers -> Calls]
  BY DEF PohInv, TypeInv
<1>8. /\ caller'[c].pc = "unlock" /\ caller'[c].batch = b /\ caller'[c].hashes = hashes
      /\ caller'[c].ctx = p /\ caller'[c] \in Calls
  BY <1>4, <1>6, <1>7 DEF Calls
<1>9. \A d \in Callers : d # c => caller'[d] = caller[d]
  BY <1>6, <1>7
<1>10. caller' \in [Callers -> Calls]
  <2>1. caller' = [d \in Callers |-> caller'[d]]
    BY <1>6, <1>7
  <2>2. \A d \in Callers : caller'[d] \in Calls
    BY <1>7, <1>8, <1>9
  <2>3. QED  BY <2>1, <2>2
<1>11. UNCHANGED <<g_total_gpus, g_cur_gpu, g_cur_queue, pool>>
  BY DEF CopyOut
<1>12. CallInv(c)'
  BY <1>2, <1>4, <1>5, <1>8, <1>11 DEF CallInv, At, Held, InCall, Holding, Hashed
<1>13. pool' \in [Places -> Contexts]
  BY <1>11 DEF PohInv, TypeInv
<1>14. QED  BY <1>1, <1>2, <1>9, <1>10, <1>11, <1>12, <1>13, HolderStep

(* Letting go of the context leaves the caller its hashes. *)
LEMMA UnlockKeeps == ASSUME PohInv, NEW c \in Callers, Unlock(c) PROVE PohInv'
<1> DEFINE p == caller[c].ctx
           b == caller[c].batch
<1>1. caller[c].pc = "unlock" /\ caller[c].pc \in Holding
  BY DEF Unlock, At, Holding, InCall
<1>2. /\ p \in Places /\ pool[p] \in Contexts /\ Len(caller[c].hashes) = Len(b)
      /\ Len(pool[p].hashes) = Len(pool[p].num_hashes_arr) /\ Hashed(c, caller[c].hashes)
  BY <1>1, Holder DEF Held, CallInv
<1>3. /\ caller' \in [Callers -> Calls] /\ caller'[c].pc = "returned"
      /\ caller'[c].batch = b /\ caller'[c].hashes = caller[c].hashes /\ caller'[c].ctx = p
      /\ \A d \in Callers : d # c => caller'[d] = caller[d]
  BY Goes DEF Unlock, PohInv
<1>4. /\ pool' \in [Places -> Contexts]
      /\ pool'[p].hashes = pool[p].hashes /\ pool'[p].num_hashes_arr = pool[p].num_hashes_arr
      /\ \A q \in Places : q # p => pool'[q] = pool[q]
  BY <1>2 DEF Unlock, PohInv, TypeInv, Contexts
<1>5. CallInv(c)'
  BY <1>2, <1>3 DEF CallInv, At, InCall, Holding, Hashed
<1>6. UNCHANGED <<g_total_gpus, g_cur_gpu, g_cur_queue>>
  BY DEF Unlock
<1>7. QED  BY <1>1, <1>2, <1>3, <1>4, <1>5, <1>6, HolderStep

(* The next call starts from nothing. *)
LEMMA ReturnKeeps == ASSUME PohInv, NEW c \in Callers, Return(c) PROVE PohInv'
<1>1. caller[c] \in Calls /\ caller \in [Callers -> Calls]
  BY DEF PohInv, TypeInv
<1>2. caller'[c] = Idle(caller[c].calls) /\ \A d \in Callers : d # c => caller'[d] = caller[d]
  BY <1>1 DEF Return
<1>3. <<>> \in Seq(Hashes) /\ <<>> \in Seq(Nat) /\ Len(<<>>) = 0
  OBVIOUS
<1>4. Idle(caller[c].calls) \in Calls
  BY <1>1, <1>3 DEF Idle, Calls
<1>5. caller' \in [Callers -> Calls]
  <2>1. caller' = [d \in Callers |-> caller'[d]]
    BY <1>1 DEF Return
  <2>2. QED  BY <1>1, <1>2, <1>4, <2>1
<1>6. UNCHANGED <<g_total_gpus, g_cur_gpu, g_cur_queue, pool>>
  BY DEF Return
<1>7. TypeInv' /\ BuffersInv'
  BY <1>5, <1>6 DEF PohInv, TypeInv, BuffersInv
<1>8. ASSUME NEW d \in Callers PROVE CallInv(d)'
  <2>1. CASE d = c
    <3>1. caller'[d].pc = "idle" /\ caller'[d].batch = <<>> /\ caller'[d].hashes = <<>>
      BY <1>2, <2>1 DEF Idle
    <3>2. QED  BY <3>1 DEF CallInv, At, InCall, Holding
  <2>2. CASE d # c
    <3>1. CallInv(d) /\ caller'[d] = caller[d]
      BY <1>2, <2>2 DEF PohInv, CallsInv
    <3>2. QED  BY <1>6, <3>1, Undisturbed
  <2>3. QED  BY <2>1, <2>2
<1>9. QED  BY <1>7, <1>8 DEF PohInv, CallsInv

-----------------------------------------------------------------------------
(* Every step of a thread in poh_verify_many keeps the inductive           *)
(* invariant: who holds a context, that its buffers are large enough, and  *)
(* whose hashes stand in them.                                             *)
THEOREM PohInvariance == PohSpec => []PohInv
<1>1. ASSUME PohInv, [Poh]_pohVars PROVE PohInv'
  <2>1. CASE UNCHANGED pohVars
    <3>1. /\ g_total_gpus' = g_total_gpus /\ g_cur_gpu' = g_cur_gpu /\ g_cur_queue' = g_cur_queue
          /\ pool' = pool /\ caller' = caller
      BY <2>1 DEF pohVars
    <3>2. TypeInv' /\ BuffersInv'
      BY <1>1, <3>1 DEF PohInv, TypeInv, BuffersInv
    <3>3. ASSUME NEW d \in Callers PROVE CallInv(d)'
      BY <1>1, <3>1, Undisturbed DEF PohInv, CallsInv
    <3>4. QED  BY <3>2, <3>3 DEF PohInv, CallsInv
  <2>2. CASE Poh
    <3>1. PICK c \in Callers :
            \/ Initialise(c)
            \/ \E batch \in Batches : Pick(c, batch)
            \/ LockContext(c) \/ Grow(c) \/ CopyIn(c) \/ Kernel(c) \/ CopyOut(c) \/ Unlock(c) \/ Return(c)
      BY <2>2 DEF Poh
    <3>2. CASE Initialise(c)
      BY <1>1, <3>2, InitialiseKeeps
    <3>3. ASSUME NEW batch \in Batches, Pick(c, batch) PROVE PohInv'
      BY <1>1, <3>3, PickKeeps
    <3>4. CASE LockContext(c)
      BY <1>1, <3>4, LockKeeps
    <3>5. CASE Grow(c)
      BY <1>1, <3>5, GrowKeeps
    <3>6. CASE CopyIn(c)
      BY <1>1, <3>6, CopyInKeeps
    <3>7. CASE Kernel(c)
      BY <1>1, <3>7, KernelKeeps
    <3>8. CASE CopyOut(c)
      BY <1>1, <3>8, CopyOutKeeps
    <3>9. CASE Unlock(c)
      BY <1>1, <3>9, UnlockKeeps
    <3>10. CASE Return(c)
      BY <1>1, <3>10, ReturnKeeps
    <3>11. QED  BY <3>1, <3>2, <3>3, <3>4, <3>5, <3>6, <3>7, <3>8, <3>9, <3>10
  <2>3. QED  BY <1>1, <2>1, <2>2
<1>2. QED  BY <1>1, PohStarts, PTL DEF PohSpec

(* poh_verify_many returns each thread its own hashes, each hashed as      *)
(* often as asked, for any batches, threads, GPUs and queues.              *)
THEOREM ResultsBelong == PohSpec => []PohResultsOwn
<1>1. PohInv => PohResultsOwn
  BY DEF PohInv, CallsInv, CallInv, PohResultsOwn, At, Hashed, Own
<1>2. QED  BY <1>1, PohInvariance, PTL
=============================================================================
