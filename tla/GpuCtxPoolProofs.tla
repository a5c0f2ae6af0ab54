-------------------------- MODULE GpuCtxPoolProofs --------------------------
(***************************************************************************)
(* What GpuCtxPool guarantees for every number of threads, GPUs, queues    *)
(* and calls, and every set of requests: a context serves one call at a    *)
(* time, its buffers hold the call, it was created, and what ed25519_init  *)
(* answered stays true; its results are its own, and all memory is freed.  *)
(*                                                                         *)
(* One inductive invariant, PInv, carries the first four: a buffer that    *)
(* fits stays so because nobody else holds the context (LockInv), which    *)
(* is why setup_gpu_ctx may free what it replaces.                         *)
(***************************************************************************)
EXTENDS GpuCtxPool, SequenceTheorems, TLAPS

Chosen == {"acquire"} \cup Holding

(* The pool: which contexts exist, and that the round robin stays inside.  *)
PoolInv ==
    /\ total <= 0 => curGpu = 0
    /\ total > 0 => curGpu < total /\ ready = UsableGpus(total)
    /\ \A t \in Threads : pc[t] \in Chosen => total > 0 /\ ctx[t] \in ready

(* The locks: who holds a context.  The work queued for it is of a thread  *)
(* that waits for it.                                                      *)
LockInv ==
    \A t \in Threads :
        /\ pc[t] \in Holding => owner[ctx[t]] = t
        /\ pc[t] \in {"lock", "pick"} \cup Chosen => req[t].packets > 0
WorkInv ==
    \A s \in Streams : \A i \in 1 .. Len(stream[s]) :
        LET op == stream[s][i] IN
        /\ pc[op.by] \in {"launch", "sync"}
        /\ op.ctx = ctx[op.by] /\ op.req = req[op.by]

(* The buffers: out is never smaller than out_size_bytes says.             *)
SizeInv ==
    /\ \A c \in Ctxs : dev[c].outRec <= Len(dev[c].out)
    /\ SetupSuffices

PInv == TypeOK /\ PoolInv /\ LockInv /\ WorkInv /\ SizeInv

(* The helpers keep sequences of identities, entries and results.          *)
LEMMA NobodyId == Nobody \in Ids
  BY PoolAssumption DEF Nobody, Ids

(* A function on 1 .. n is a sequence. *)
LEMMA SeqOf ==
  ASSUME NEW S, NEW n \in Nat, NEW f \in [1 .. n -> S]
  PROVE  f \in Seq(S) /\ Len(f) = n
  OBVIOUS

(* A sequence is a function on 1 .. Len. *)
LEMMA SeqIs ==
  ASSUME NEW S, NEW f \in Seq(S)
  PROVE  Len(f) \in Nat /\ f \in [1 .. Len(f) -> S] /\ DOMAIN f = 1 .. Len(f)
  OBVIOUS

(* A request's sizes are numbers, and a result takes at least a cell. *)
LEMMA RequestFacts ==
  ASSUME NEW r \in Requests
  PROVE  /\ r.packets \in Nat /\ r.sigs \in Nat /\ r.sigs > 0
         /\ OutSize(r) \in Nat /\ r.sigs <= OutSize(r)
<1>1. r.packets \in Nat /\ r.sigs \in Nat /\ r.sigs > 0
  BY PoolAssumption
<1>2. Cells(r) \in Nat /\ Cells(r) > 0
  BY PoolAssumption DEF Cells
<1>3. Cells(r) * r.sigs \in Nat /\ r.sigs <= Cells(r) * r.sigs
  BY <1>1, <1>2
<1> QED
  BY <1>1, <1>3 DEF OutSize

(* setup_gpu_ctx leaves buffers that hold the call. *)
LEMMA GrownFits ==
  ASSUME NEW b \in Buffers, b.outRec <= Len(b.out), NEW r \in Requests
  PROVE  /\ Grown(b, r) \in Buffers
         /\ Fits(Grown(b, r), r)
         /\ Grown(b, r).outRec <= Len(Grown(b, r).out)
<1> USE NobodyId, RequestFacts
<1>1. GrowPackets(b, r) \in Seq(Ids) /\ r.packets <= Len(GrowPackets(b, r))
  <2>1. Fresh(r.packets) \in [1 .. r.packets -> Ids]
    BY DEF Fresh
  <2>2. Fresh(r.packets) \in Seq(Ids) /\ Len(Fresh(r.packets)) = r.packets
    BY <2>1, SeqOf
  <2>3. b.packets \in Seq(Ids) /\ Len(b.packets) \in Nat
    BY DEF Buffers
  <2> QED
    BY <2>2, <2>3 DEF GrowPackets
<1>2. GrowOffs(b, r) \in Seq([id : Ids, slot : Nat]) /\ r.sigs <= Len(GrowOffs(b, r))
  <2>1. FreshEntries(r.sigs) \in [1 .. r.sigs -> [id : Ids, slot : Nat]]
    BY DEF FreshEntries, Entry
  <2>2. /\ FreshEntries(r.sigs) \in Seq([id : Ids, slot : Nat])
        /\ Len(FreshEntries(r.sigs)) = r.sigs
    BY <2>1, SeqOf
  <2>3. b.offs \in Seq([id : Ids, slot : Nat]) /\ Len(b.offs) \in Nat
    BY DEF Buffers
  <2> QED
    BY <2>2, <2>3 DEF GrowOffs
<1>3. /\ FreshResults(OutSize(r)) \in Seq([sig : Ids, data : Ids])
      /\ Len(FreshResults(OutSize(r))) = OutSize(r)
  <2>1. FreshResults(OutSize(r)) \in [1 .. OutSize(r) -> [sig : Ids, data : Ids]]
    BY DEF FreshResults, Result
  <2> QED
    BY <2>1, SeqOf
<1>4. Grown(b, r).packets = GrowPackets(b, r) /\ Grown(b, r).offs = GrowOffs(b, r)
  BY DEF Grown
<1>5. CASE NeedsOut(b, r)
  <2>1. Grown(b, r).out = FreshResults(OutSize(r)) /\ Grown(b, r).outRec = r.sigs
    BY <1>5 DEF Grown
  <2> QED
    BY <1>1, <1>2, <1>3, <1>4, <2>1 DEF Fits, Buffers, Grown
<1>6. CASE ~NeedsOut(b, r)
  <2>1. Grown(b, r).out = b.out /\ Grown(b, r).outRec = b.outRec
    BY <1>6 DEF Grown
  <2>2. OutSize(r) <= Len(b.out) /\ b.out \in Seq([sig : Ids, data : Ids]) /\ b.outRec \in Nat
    BY <1>6 DEF NeedsOut, Buffers
  <2> QED
    BY <1>1, <1>2, <1>4, <2>1, <2>2 DEF Fits, Buffers, Grown
<1> QED
  BY <1>5, <1>6

(* Two buffers of one size hold the same calls. *)
SameSizes(a, b) ==
    /\ a \in Buffers
    /\ Len(a.packets) = Len(b.packets) /\ Len(a.offs) = Len(b.offs)
    /\ Len(a.out) = Len(b.out) /\ a.outRec = b.outRec

(* Copying a call in resizes no buffer. *)
LEMMA CopyInSizes ==
  ASSUME NEW b \in Buffers, NEW op \in Ops, op.req.packets > 0
  PROVE  SameSizes(CopyIn(b, op), b)
<1>1. op.id \in Ids /\ op.req \in Requests
  BY DEF Ops
<1> DEFINE P == [i \in DOMAIN b.packets |-> IF i <= op.req.packets THEN op.id ELSE b.packets[i]]
           O == [i \in DOMAIN b.offs |->
                   IF i <= op.req.sigs THEN Entry(op.id, SlotOf(i, op.req.packets)) ELSE b.offs[i]]
<1>2. CopyIn(b, op) = [packets |-> P, offs |-> O, out |-> b.out, outRec |-> b.outRec]
  BY DEF CopyIn
<1>3. P \in Seq(Ids) /\ Len(P) = Len(b.packets)
  <2>1. Len(b.packets) \in Nat /\ DOMAIN b.packets = 1 .. Len(b.packets)
        /\ \A i \in 1 .. Len(b.packets) : b.packets[i] \in Ids
    BY SeqIs DEF Buffers
  <2>2. P \in [1 .. Len(b.packets) -> Ids]
    BY <1>1, <2>1
  <2> QED
    BY <2>1, <2>2, SeqOf
<1>4. O \in Seq([id : Ids, slot : Nat]) /\ Len(O) = Len(b.offs)
  <2>1. Len(b.offs) \in Nat /\ DOMAIN b.offs = 1 .. Len(b.offs)
        /\ \A i \in 1 .. Len(b.offs) : b.offs[i] \in [id : Ids, slot : Nat]
    BY SeqIs DEF Buffers
  <2>2. ASSUME NEW i \in 1 .. Len(b.offs), i <= op.req.sigs, op.req.packets > 0
        PROVE  Entry(op.id, SlotOf(i, op.req.packets)) \in [id : Ids, slot : Nat]
    BY <1>1, <2>1, <2>2, RequestFacts DEF Entry, SlotOf
  <2>3. O \in [1 .. Len(b.offs) -> [id : Ids, slot : Nat]]
    BY <2>1, <2>2
  <2> QED
    BY <2>1, <2>3, SeqOf
<1> QED
  BY <1>2, <1>3, <1>4 DEF SameSizes, Buffers

(* Neither does a kernel. *)
LEMMA RunKernelSizes ==
  ASSUME NEW b \in Buffers, NEW op \in Ops
  PROVE  SameSizes(RunKernel(b, op), b)
<1> USE NobodyId
<1>1. /\ Len(b.offs) \in Nat /\ DOMAIN b.offs = 1 .. Len(b.offs)
      /\ \A i \in 1 .. Len(b.offs) : b.offs[i] \in [id : Ids, slot : Nat]
  BY SeqIs DEF Buffers
<1>2. /\ Len(b.packets) \in Nat /\ DOMAIN b.packets = 1 .. Len(b.packets)
      /\ \A i \in 1 .. Len(b.packets) : b.packets[i] \in Ids
  BY SeqIs DEF Buffers
<1>3. /\ Len(b.out) \in Nat /\ DOMAIN b.out = 1 .. Len(b.out)
      /\ \A i \in 1 .. Len(b.out) : b.out[i] \in [sig : Ids, data : Ids]
  BY SeqIs DEF Buffers
<1>4. ASSUME NEW e PROVE ResultOf(b, e) \in [sig : Ids, data : Ids]
  <2>1. At(b.offs, e, Entry(Nobody, 1)) \in [id : Ids, slot : Nat]
    BY <1>1 DEF At, Entry
  <2>2. At(b.packets, At(b.offs, e, Entry(Nobody, 1)).slot, Nobody) \in Ids
    BY <1>2 DEF At
  <2> QED
    BY <2>1, <2>2 DEF ResultOf, Result
<1> DEFINE R == [i \in DOMAIN b.out |->
                    IF CellEntry(i, op.req) \in Served(b, op.req)
                    THEN ResultOf(b, CellEntry(i, op.req)) ELSE b.out[i]]
<1>5. R \in [1 .. Len(b.out) -> [sig : Ids, data : Ids]]
  BY <1>3, <1>4
<1>6. R \in Seq([sig : Ids, data : Ids]) /\ Len(R) = Len(b.out)
  BY <1>3, <1>5, SeqOf
<1>7. RunKernel(b, op) = [packets |-> b.packets, offs |-> b.offs, out |-> R, outRec |-> b.outRec]
  BY DEF RunKernel
<1> QED
  BY <1>6, <1>7 DEF SameSizes, Buffers

-----------------------------------------------------------------------------
(* Steps that leave the device alone.                                      *)
(* The parts of TypeOK, for citing. *)
LEMMA Typed ==
  ASSUME PInv
  PROVE  /\ total \in -1 .. MaxGpus /\ curGpu \in 0 .. MaxGpus - 1
         /\ curQueue \in [0 .. MaxGpus - 1 -> 0 .. MaxQueues - 1]
         /\ gmutex \in Threads \cup {NoThread}
         /\ owner \in [Ctxs -> Threads \cup {NoThread}]
         /\ ready \subseteq Ctxs
         /\ dev \in [Ctxs -> Buffers]
         /\ stream \in [Streams -> Seq(Ops)]
         /\ pc \in [Threads -> Locations] /\ req \in [Threads -> Requests]
         /\ calls \in [Threads -> 0 .. MaxCalls]
         /\ ctx \in [Threads -> Ctxs]
         /\ host \in [Threads -> Seq([sig : Ids, data : Ids])]
         /\ answers \subseteq BOOLEAN
         /\ picks \in [Ctxs -> Nat]
         /\ life \in {"up", "crashed", "freed"}
  BY DEF PInv, TypeOK

(* Queued work has the type of work. *)
LEMMA QueuedOp ==
  ASSUME stream \in [Streams -> Seq(Ops)], NEW s \in Streams, NEW i \in 1 .. Len(stream[s])
  PROVE  stream[s][i] \in Ops /\ stream[s][i].by \in Threads
<1>1. stream[s] \in Seq(Ops)
  OBVIOUS
<1>2. stream[s][i] \in Ops
  BY <1>1
<1> QED
  BY <1>2 DEF Ops

(* GotoPc, pointwise. *)
LEMMA GotoMoves ==
  ASSUME pc \in [Threads -> Locations], NEW t \in Threads, NEW l \in Locations, GotoPc(t, l)
  PROVE  /\ pc' \in [Threads -> Locations] /\ pc'[t] = l
         /\ \A u \in Threads \ {t} : pc'[u] = pc[u]
  BY DEF GotoPc

(* Steps before a context is chosen, and the step to it. *)
LEMMA CallStep ==
  ASSUME PInv, NEW t \in Threads, Call(t) \/ CallInit(t)
  PROVE  PInv'
<1> USE Typed
<1>1. /\ pc[t] = "idle" /\ UNCHANGED <<poolVars, gmutex, owner, devVars, ctx, answers, life>>
      /\ calls[t] < MaxCalls /\ calls' = [calls EXCEPT ![t] = @ + 1]
      /\ host' = host \/ host' = [host EXCEPT ![t] = <<>>]
  BY DEF Call, CallInit
<1>2. /\ req' \in [Threads -> Requests]
      /\ \A u \in Threads \ {t} : req'[u] = req[u]
      /\ pc'[t] = "lock" => req'[t].packets > 0
      /\ pc' \in [Threads -> Locations]
      /\ pc'[t] \in {"idle", "lock", "initlock"}
      /\ \A u \in Threads \ {t} : pc'[u] = pc[u]
  <2>1. CASE Call(t)
    <3>1. PICK r \in Requests : /\ req' = [req EXCEPT ![t] = r]
                                /\ GotoPc(t, IF r.packets = 0 THEN "idle" ELSE "lock")
      BY <2>1 DEF Call
    <3>2. r.packets \in Nat
      BY RequestFacts
    <3>3. {"idle", "lock"} \subseteq Locations
      BY DEF Locations
    <3> QED
      BY <3>1, <3>2, <3>3, GotoMoves
  <2>2. CASE CallInit(t)
    BY <2>2, GotoMoves DEF CallInit, Locations
  <2> QED
    BY <2>1, <2>2
<1>3. TypeOK'
  <2>1. calls' \in [Threads -> 0 .. MaxCalls]
    <3>1. calls[t] + 1 \in 0 .. MaxCalls
      BY <1>1, PoolAssumption, SMTT(30)
    <3> QED
      BY <1>1, <3>1
  <2>2. host' \in [Threads -> Seq([sig : Ids, data : Ids])]
    <3>1. <<>> \in Seq([sig : Ids, data : Ids])
      OBVIOUS
    <3> QED
      BY <1>1, <3>1
  <2> QED
    BY <1>1, <1>2, <2>1, <2>2 DEF TypeOK, poolVars, devVars
<1>4. PoolInv' /\ LockInv'
  BY <1>1, <1>2 DEF PInv, PoolInv, LockInv, poolVars, UsableGpus, Chosen, Holding
<1>5. WorkInv'
  <2> SUFFICES ASSUME NEW s \in Streams, NEW i \in 1 .. Len(stream[s])
               PROVE  LET op == stream[s][i] IN
                      /\ pc'[op.by] \in {"launch", "sync"}
                      /\ op.ctx = ctx[op.by] /\ op.req = req'[op.by]
    BY <1>1 DEF WorkInv, devVars
  <2>1. stream[s][i].by \in Threads
    BY QueuedOp
  <2> QED
    BY <1>1, <1>2, <2>1 DEF PInv, WorkInv
<1>6. SizeInv'
  BY <1>1, <1>2 DEF PInv, SizeInv, SetupSuffices, devVars
<1> QED
  BY <1>3, <1>4, <1>5, <1>6 DEF PInv

(* A step that changes neither buffers, queues nor arguments, and moves    *)
(* nobody into or out of the part of a call that works with a context.     *)
Working == {"launch", "sync"}
LEMMA OffDevice ==
  ASSUME PInv, UNCHANGED <<dev, stream, req, ctx>>,
         \A u \in Threads : pc'[u] \in Working <=> pc[u] \in Working
  PROVE  WorkInv' /\ SizeInv'
<1>1. WorkInv'
  <2> SUFFICES ASSUME NEW s \in Streams, NEW i \in 1 .. Len(stream[s])
               PROVE  LET op == stream[s][i] IN
                      /\ pc'[op.by] \in {"launch", "sync"}
                      /\ op.ctx = ctx[op.by] /\ op.req = req[op.by]
    BY DEF WorkInv
  <2>1. stream[s][i].by \in Threads
    BY Typed, QueuedOp
  <2> QED
    BY <2>1 DEF PInv, WorkInv, Working
<1>2. SizeInv'
  BY DEF PInv, SizeInv, SetupSuffices, Working
<1> QED
  BY <1>1, <1>2

(* Taking the pool's mutex, and ed25519_init's return. *)
LEMMA LockStep ==
  ASSUME PInv, NEW t \in Threads, LockGlobal(t) \/ InitReturns(t)
  PROVE  PInv'
<1> USE Typed
<1>1. /\ UNCHANGED <<poolVars, owner, devVars, callVars, ctx, life>>
      /\ gmutex' \in Threads \cup {NoThread}
      /\ answers' \subseteq BOOLEAN
      /\ pc[t] \in {"lock", "initlock", "init"}
      /\ pc'[t] \in {"pick", "init", "idle"}
      /\ pc'[t] = "pick" => pc[t] = "lock"
      /\ pc' \in [Threads -> Locations]
      /\ \A u \in Threads \ {t} : pc'[u] = pc[u]
  <2>1. CASE LockGlobal(t)
    <3>1. (IF pc[t] = "lock" THEN "pick" ELSE "init") \in Locations
      BY DEF Locations
    <3> QED
      BY <2>1, <3>1, GotoMoves DEF LockGlobal
  <2>2. CASE InitReturns(t)
    <3>1. (total > 0) \in BOOLEAN
      OBVIOUS
    <3>2. answers' \subseteq BOOLEAN
      BY <2>2, <3>1, Zenon DEF InitReturns
    <3>3. "idle" \in Locations
      BY DEF Locations
    <3> QED
      BY <2>2, <3>2, <3>3, GotoMoves DEF InitReturns
  <2> QED
    BY <2>1, <2>2
<1>2. TypeOK'
  BY <1>1 DEF TypeOK, poolVars, devVars, callVars
<1>3. PoolInv' /\ LockInv'
  BY <1>1 DEF PInv, PoolInv, LockInv, poolVars, callVars, UsableGpus, Chosen, Holding
<1>4. \A u \in Threads : pc'[u] \in Working <=> pc[u] \in Working
  BY <1>1 DEF Working
<1> QED
  BY <1>1, <1>2, <1>3, <1>4, OffDevice DEF PInv, devVars, callVars

(* cuda_crypt_init_locked. *)
LEMMA SetUpStep ==
  ASSUME PInv, NEW t \in Threads, SetUpPool(t)
  PROVE  PInv'
<1> USE Typed
<1>1. /\ UNCHANGED <<curGpu, curQueue, picks, gmutex, owner, devVars, pc, callVars, ctx,
                     answers, life>>
      /\ total = -1
  BY DEF SetUpPool, Uninitialised
<1>2. /\ total' \in 0 .. MaxGpus /\ ready' \subseteq Ctxs
      /\ total' > 0 => ready' = UsableGpus(total')
  <2>1. PICK n \in 0 .. MaxGpus :
            \/ total' = n /\ ready' = UsableGpus(n)
            \/ total' = 0 /\ ready' \subseteq UsableGpus(n)
    <3>1. PICK d \in Devices :
             LET n == IF d < MaxGpus THEN d ELSE MaxGpus IN
             \/ total' = n /\ ready' = UsableGpus(n)
             \/ \E c \in UsableGpus(n) :
                   GiveUp(n) /\ ready' = {e \in UsableGpus(n) : Before(e, c)}
      BY DEF SetUpPool
    <3>2. (IF d < MaxGpus THEN d ELSE MaxGpus) \in 0 .. MaxGpus
      BY PoolAssumption
    <3> QED
      BY <3>1, <3>2 DEF GiveUp
  <2>2. UsableGpus(n) \subseteq Ctxs
    BY DEF UsableGpus
  <2>3. CASE total' = n /\ ready' = UsableGpus(n)
    BY <2>2, <2>3
  <2>4. CASE total' = 0 /\ ready' \subseteq UsableGpus(n)
    BY <2>2, <2>4, PoolAssumption
  <2> QED
    BY <2>1, <2>3, <2>4
<1>3. TypeOK'
  <2>1. total' \in -1 .. MaxGpus
    BY <1>2, PoolAssumption
  <2> QED
    BY <1>1, <1>2, <2>1 DEF TypeOK, devVars, callVars
<1>4. PoolInv'
  BY <1>1, <1>2 DEF PInv, PoolInv, UsableGpus
<1>5. LockInv'
  BY <1>1 DEF PInv, LockInv, callVars
<1> QED
  BY <1>1, <1>3, <1>4, <1>5, OffDevice DEF PInv, devVars, callVars

(* A remainder is less than the modulus. *)
LEMMA ModRange ==
  ASSUME NEW n \in Nat, NEW m \in Nat, m > 0
  PROVE  n % m \in 0 .. m - 1
  OBVIOUS

(* get_gpu_ctx's choice. *)
LEMMA PickStep ==
  ASSUME PInv, NEW t \in Threads, Pick(t)
  PROVE  PInv'
<1> USE Typed
<1>1. /\ pc[t] = "pick" /\ total > 0 /\ UNCHANGED <<total, ready>>
      /\ UNCHANGED <<owner, devVars, callVars, answers, life>>
      /\ ctx' = [ctx EXCEPT ![t] = <<curGpu, curQueue[curGpu]>>]
      /\ picks' = [picks EXCEPT ![<<curGpu, curQueue[curGpu]>>] = @ + 1]
      /\ curGpu' = (curGpu + 1) % total
      /\ curQueue' = [curQueue EXCEPT ![curGpu] = (@ + 1) % MaxQueues]
      /\ gmutex' = NoThread
  BY DEF Pick, NextGpu, NextQueues
<1>2. /\ pc' \in [Threads -> Locations] /\ pc'[t] = "acquire"
      /\ \A u \in Threads \ {t} : pc'[u] = pc[u]
  BY GotoMoves DEF Pick, Locations
<1>3. <<curGpu, curQueue[curGpu]>> \in UsableGpus(total)
  BY <1>1 DEF PInv, PoolInv, UsableGpus, Ctxs
<1>4. <<curGpu, curQueue[curGpu]>> \in Ctxs /\ ready = UsableGpus(total)
  BY <1>1, <1>3 DEF UsableGpus, PInv, PoolInv
<1>5. curGpu' \in 0 .. total - 1
  <2>1. curGpu + 1 \in Nat /\ total \in Nat
    <3>1. \A m \in Nat : \A g \in 0 .. m - 1, n \in -1 .. m : n > 0 => g + 1 \in Nat /\ n \in Nat
      OBVIOUS
    <3>2. total > 0
      BY <1>1
    <3> QED
      BY ONLY <3>1, <3>2, Typed, PInv, PoolAssumption
  <2>2. (curGpu + 1) % total \in 0 .. total - 1
    BY <1>1, <2>1, ModRange
  <2> QED
    BY <1>1, <2>2
<1>6. curQueue' \in [0 .. MaxGpus - 1 -> 0 .. MaxQueues - 1]
  <2>1. curQueue[curGpu] \in Nat /\ MaxQueues \in Nat /\ MaxQueues > 0
    BY PoolAssumption
  <2>2. (curQueue[curGpu] + 1) % MaxQueues \in 0 .. MaxQueues - 1
    BY <2>1, ModRange
  <2> QED
    BY <1>1, <2>2
<1>7. ctx' \in [Threads -> Ctxs] /\ picks' \in [Ctxs -> Nat]
  BY <1>1, <1>4, SMTT(30)
<1>8. TypeOK'
  <2>1. curGpu' \in 0 .. MaxGpus - 1
    BY <1>1, <1>5, PoolAssumption, SMTT(30)
  <2> QED
    BY <1>1, <1>2, <1>6, <1>7, <2>1 DEF TypeOK, devVars, callVars
<1>9. PoolInv'
  BY <1>1, <1>2, <1>3, <1>4, <1>5, SMTT(30) DEF PInv, PoolInv, Chosen, Holding, UsableGpus
<1>10. LockInv'
  BY <1>1, <1>2 DEF PInv, LockInv, callVars, Chosen, Holding
<1>11. WorkInv'
  <2> SUFFICES ASSUME NEW s \in Streams, NEW i \in 1 .. Len(stream[s])
               PROVE  LET op == stream[s][i] IN
                      /\ pc'[op.by] \in {"launch", "sync"}
                      /\ op.ctx = ctx'[op.by] /\ op.req = req[op.by]
    BY <1>1 DEF WorkInv, devVars, callVars
  <2>1. stream[s][i].by \in Threads /\ stream[s][i].by # t
    BY <1>1, QueuedOp DEF PInv, WorkInv
  <2> QED
    BY <1>1, <1>2, <2>1 DEF PInv, WorkInv
<1>12. SizeInv'
  BY <1>1, <1>2 DEF PInv, SizeInv, SetupSuffices, devVars, callVars
<1> QED
  BY <1>8, <1>9, <1>10, <1>11, <1>12 DEF PInv

(* The NULL context. *)
LEMMA NullStep ==
  ASSUME PInv, NEW t \in Threads, NullContext(t)
  PROVE  PInv'
<1> USE Typed
<1>1. /\ UNCHANGED <<poolVars, owner, devVars, pc, callVars, ctx, answers>>
      /\ gmutex' = NoThread /\ life' = "crashed"
  BY DEF NullContext
<1>2. TypeOK' /\ PoolInv' /\ LockInv'
  BY <1>1 DEF PInv, TypeOK, PoolInv, LockInv, UsableGpus, poolVars, devVars, callVars
<1> QED
  BY <1>1, <1>2, OffDevice DEF PInv, devVars, callVars

(* No two threads hold one context. *)
LEMMA HoldersApart ==
  ASSUME PInv, NEW t \in Threads, NEW u \in Threads, pc[t] \in Holding, pc[u] \in Holding, t # u
  PROVE  ctx[t] # ctx[u]
  BY DEF PInv, LockInv

(* Taking a context's mutex: whoever held it has let go. *)
LEMMA LockCtxStep ==
  ASSUME PInv, NEW t \in Threads, LockCtx(t)
  PROVE  PInv'
<1> USE Typed
<1>1. /\ pc[t] = "acquire" /\ owner[ctx[t]] = NoThread
      /\ owner' = [owner EXCEPT ![ctx[t]] = t]
      /\ UNCHANGED <<poolVars, gmutex, devVars, callVars, ctx, answers, life>>
  BY DEF LockCtx
<1>2. /\ pc' \in [Threads -> Locations] /\ pc'[t] = "setup"
      /\ \A u \in Threads \ {t} : pc'[u] = pc[u]
  BY GotoMoves DEF LockCtx, Locations, Holding
<1>3. TypeOK' /\ PoolInv'
  BY <1>1, <1>2 DEF PInv, TypeOK, PoolInv, UsableGpus, Chosen, Holding, poolVars, devVars, callVars
<1>4. LockInv'
  <2> SUFFICES ASSUME NEW u \in Threads
               PROVE  /\ pc'[u] \in Holding => owner'[ctx[u]] = u
                      /\ pc'[u] \in {"lock", "pick"} \cup Chosen => req[u].packets > 0
    BY <1>1 DEF LockInv, callVars
  <2>1. CASE u = t
    BY <1>1, <1>2, <2>1 DEF PInv, LockInv, Chosen
  <2>2. CASE u # t
    BY <1>1, <1>2, <2>2, PoolAssumption DEF PInv, LockInv
  <2> QED
    BY <2>1, <2>2
<1>5. \A u \in Threads : pc'[u] \in Working <=> pc[u] \in Working
  BY <1>1, <1>2 DEF Working
<1> QED
  BY <1>1, <1>3, <1>4, <1>5, OffDevice DEF PInv, devVars, callVars

(* release_gpu_ctx. *)
LEMMA ReleaseStep ==
  ASSUME PInv, NEW t \in Threads, Release(t)
  PROVE  PInv'
<1> USE Typed
<1>1. /\ pc[t] = "release"
      /\ owner' = [owner EXCEPT ![ctx[t]] = NoThread]
      /\ UNCHANGED <<poolVars, gmutex, devVars, callVars, ctx, answers, life>>
  BY DEF Release
<1>2. /\ pc' \in [Threads -> Locations] /\ pc'[t] = "idle"
      /\ \A u \in Threads \ {t} : pc'[u] = pc[u]
  BY GotoMoves DEF Release, Locations
<1>3. TypeOK' /\ PoolInv'
  BY <1>1, <1>2 DEF PInv, TypeOK, PoolInv, UsableGpus, Chosen, Holding, poolVars, devVars, callVars
<1>4. LockInv'
  <2> SUFFICES ASSUME NEW u \in Threads, u # t
               PROVE  /\ pc'[u] \in Holding => owner'[ctx[u]] = u
                      /\ pc'[u] \in {"lock", "pick"} \cup Chosen => req[u].packets > 0
    BY <1>1, <1>2 DEF LockInv, callVars, Chosen, Holding
  <2>1. pc[t] \in Holding
    BY <1>1 DEF Holding
  <2> QED
    BY <1>1, <1>2, <2>1, HoldersApart DEF PInv, LockInv
<1>5. \A u \in Threads : pc'[u] \in Working <=> pc[u] \in Working
  BY <1>1, <1>2 DEF Working
<1> QED
  BY <1>1, <1>3, <1>4, <1>5, OffDevice DEF PInv, devVars, callVars

(* The end of cudaStreamSynchronize: none of the caller's work is left. *)
LEMMA SynchronizeStep ==
  ASSUME PInv, NEW t \in Threads, Synchronize(t)
  PROVE  PInv'
<1> USE Typed
<1>1. /\ pc[t] = "sync" /\ QueuedBy(t) = {}
      /\ UNCHANGED <<poolVars, gmutex, owner, devVars, callVars, ctx, answers, life>>
  BY DEF Synchronize
<1>2. /\ pc' \in [Threads -> Locations] /\ pc'[t] = "release"
      /\ \A u \in Threads \ {t} : pc'[u] = pc[u]
  BY GotoMoves DEF Synchronize, Locations, Holding
<1>3. TypeOK' /\ PoolInv' /\ LockInv'
  BY <1>1, <1>2 DEF PInv, TypeOK, PoolInv, LockInv, UsableGpus, Chosen, Holding, poolVars,
     devVars, callVars
<1>4. WorkInv'
  <2> SUFFICES ASSUME NEW s \in Streams, NEW i \in 1 .. Len(stream[s])
               PROVE  LET op == stream[s][i] IN
                      /\ pc'[op.by] \in {"launch", "sync"}
                      /\ op.ctx = ctx[op.by] /\ op.req = req[op.by]
    BY <1>1 DEF WorkInv, devVars, callVars
  <2>1. stream[s] \in Seq(Ops)
    OBVIOUS
  <2>2. stream[s][i].by # t
    BY <1>1, <2>1 DEF QueuedBy
  <2> QED
    BY <1>2, <2>2, QueuedOp DEF PInv, WorkInv
<1>5. SizeInv'
  BY <1>1, <1>2 DEF PInv, SizeInv, SetupSuffices, devVars, callVars
<1> QED
  BY <1>3, <1>4, <1>5 DEF PInv

-----------------------------------------------------------------------------
(* Steps that queue work, and the device's own.                            *)
(* A call's stream is a stream. *)
LEMMA StreamOfType ==
  ASSUME PInv, NEW t \in Threads
  PROVE  StreamOf(t) \in Streams
<1>1. ctx[t] \in Ctxs
  BY Typed
<1> QED
  BY <1>1, PoolAssumption DEF StreamOf, DefaultStream, Streams, Ctxs

(* The work a call queues. *)
LEMMA OpType ==
  ASSUME PInv, NEW t \in Threads, NEW k \in {"in", "kernel", "out"}
  PROVE  /\ Op(t, k) \in Ops
         /\ Op(t, k).by = t /\ Op(t, k).ctx = ctx[t] /\ Op(t, k).req = req[t]
<1>1. Id(t) \in Ids
  BY Typed DEF Id, Ids
<1> QED
  BY <1>1, Typed DEF Op, Ops

(* What WorkInv says of one piece of work. *)
LEMMA QueuedWork ==
  ASSUME PInv, NEW s \in Streams, NEW i \in 1 .. Len(stream[s])
  PROVE  /\ stream[s][i] \in Ops /\ stream[s][i].by \in Threads
         /\ pc[stream[s][i].by] \in {"launch", "sync"}
         /\ stream[s][i].ctx = ctx[stream[s][i].by]
         /\ stream[s][i].req = req[stream[s][i].by]
  BY Typed, QueuedOp DEF PInv, WorkInv

(* Work queued by t, on its way to or in the part of a call that waits.    *)
LEMMA WorkAdded ==
  ASSUME PInv, NEW t \in Threads, UNCHANGED <<req, ctx>>,
         pc'[t] \in Working, \A u \in Threads \ {t} : pc'[u] = pc[u],
         NEW q \in Seq(Ops),
         \A i \in 1 .. Len(q) : q[i].by = t /\ q[i].ctx = ctx[t] /\ q[i].req = req[t],
         stream' = [stream EXCEPT ![StreamOf(t)] = @ \o q]
  PROVE  WorkInv' /\ stream' \in [Streams -> Seq(Ops)]
<1> USE Typed
<1> DEFINE s0 == StreamOf(t)
<1>1. s0 \in Streams
  BY StreamOfType
<1>2. stream[s0] \in Seq(Ops) /\ stream'[s0] = stream[s0] \o q
  BY <1>1
<1>3. stream' \in [Streams -> Seq(Ops)]
  BY <1>1, <1>2
<1>4. ASSUME NEW op \in Ops, pc[op.by] \in {"launch", "sync"},
             op.ctx = ctx[op.by], op.req = req[op.by]
      PROVE  /\ pc'[op.by] \in {"launch", "sync"}
             /\ op.ctx = ctx'[op.by] /\ op.req = req'[op.by]
  BY <1>4 DEF Ops, Working
<1>5. ASSUME NEW s \in Streams, NEW i \in 1 .. Len(stream'[s])
      PROVE  /\ pc'[stream'[s][i].by] \in {"launch", "sync"}
             /\ stream'[s][i].ctx = ctx'[stream'[s][i].by]
             /\ stream'[s][i].req = req'[stream'[s][i].by]
  <2>1. CASE s # s0
    <3>1. stream'[s] = stream[s]
      BY <2>1
    <3>2. PICK op \in Ops : /\ op = stream[s][i] /\ pc[op.by] \in {"launch", "sync"}
                            /\ op.ctx = ctx[op.by] /\ op.req = req[op.by]
      BY <1>5, <3>1, QueuedWork
    <3> QED
      BY <1>4, <3>1, <3>2
  <2>2. CASE s = s0 /\ i <= Len(stream[s0])
    <3>1. stream'[s0][i] = stream[s0][i] /\ i \in 1 .. Len(stream[s0])
      BY <1>2, <1>5, <2>2
    <3>2. PICK op \in Ops : /\ op = stream[s0][i] /\ pc[op.by] \in {"launch", "sync"}
                            /\ op.ctx = ctx[op.by] /\ op.req = req[op.by]
      BY <1>1, <3>1, QueuedWork
    <3>3. stream'[s][i] = op
      BY <2>2, <3>1, <3>2
    <3> QED
      BY <1>4, <3>2, <3>3
  <2>3. CASE s = s0 /\ i > Len(stream[s0])
    <3>1. PICK j \in 1 .. Len(q) : stream'[s0][i] = q[j]
      <4>1. i - Len(stream[s0]) \in 1 .. Len(q)
        BY <1>2, <1>5, <2>3
      <4>2. stream'[s0][i] = q[i - Len(stream[s0])]
        BY <1>2, <1>5, <2>3
      <4> QED
        BY <4>1, <4>2
    <3> QED
      BY <2>3, <3>1 DEF Working
  <2>4. s # s0 \/ (s = s0 /\ i <= Len(stream[s0])) \/ (s = s0 /\ i > Len(stream[s0]))
    <3>1. Len(stream[s0]) \in Nat /\ i \in Int
      BY <1>2, <1>5
    <3> QED
      BY ONLY <3>1
  <2> QED
    BY ONLY <2>1, <2>2, <2>3, <2>4, Zenon
<1> QED
  BY <1>3, <1>5 DEF WorkInv

(* setup_gpu_ctx: only the holder's context changes. *)
LEMMA SetupStep ==
  ASSUME PInv, NEW t \in Threads, Setup(t)
  PROVE  PInv'
<1> USE Typed
<1>1. /\ pc[t] = "setup"
      /\ dev' = [dev EXCEPT ![ctx[t]] = Grown(dev[ctx[t]], req[t])]
      /\ stream' = [stream EXCEPT ![StreamOf(t)] = Append(@, Op(t, "in"))]
      /\ UNCHANGED <<poolVars, gmutex, owner, callVars, ctx, answers, life>>
  BY DEF Setup
<1>2. /\ pc' \in [Threads -> Locations] /\ pc'[t] = "launch"
      /\ \A u \in Threads \ {t} : pc'[u] = pc[u]
  BY GotoMoves DEF Setup, Locations, Holding
<1>3. /\ Grown(dev[ctx[t]], req[t]) \in Buffers
      /\ Fits(Grown(dev[ctx[t]], req[t]), req[t])
      /\ Grown(dev[ctx[t]], req[t]).outRec <= Len(Grown(dev[ctx[t]], req[t]).out)
  BY GrownFits DEF PInv, SizeInv
<1>4. WorkInv' /\ stream' \in [Streams -> Seq(Ops)]
  <2>1. Op(t, "in") \in Ops
    BY OpType
  <2>2. /\ <<Op(t, "in")>> \in Seq(Ops) /\ Len(<<Op(t, "in")>>) = 1
        /\ <<Op(t, "in")>>[1] = Op(t, "in")
    BY <2>1
  <2>3. stream[StreamOf(t)] \in Seq(Ops)
    BY StreamOfType
  <2>4. Append(stream[StreamOf(t)], Op(t, "in")) = stream[StreamOf(t)] \o <<Op(t, "in")>>
    BY <2>1, <2>3, AppendIsConcat
  <2>5. stream' = [stream EXCEPT ![StreamOf(t)] = @ \o <<Op(t, "in")>>]
    BY <1>1, <2>4
  <2>6. \A i \in 1 .. 1 : /\ <<Op(t, "in")>>[i].by = t /\ <<Op(t, "in")>>[i].ctx = ctx[t]
                          /\ <<Op(t, "in")>>[i].req = req[t]
    <3> SUFFICES ASSUME NEW i \in 1 .. 1, i = 1
                 PROVE  /\ <<Op(t, "in")>>[i].by = t /\ <<Op(t, "in")>>[i].ctx = ctx[t]
                        /\ <<Op(t, "in")>>[i].req = req[t]
      OBVIOUS
    <3> QED
      BY <2>2, OpType
  <2> DEFINE q == <<Op(t, "in")>>
  <2>7. /\ q \in Seq(Ops)
        /\ \A i \in 1 .. Len(q) : q[i].by = t /\ q[i].ctx = ctx[t] /\ q[i].req = req[t]
        /\ stream' = [stream EXCEPT ![StreamOf(t)] = @ \o q]
    BY <2>2, <2>5, <2>6
  <2> HIDE DEF q
  <2> QED
    BY <1>1, <1>2, <2>7, WorkAdded DEF Working, callVars
<1>5. TypeOK'
  BY <1>1, <1>2, <1>3, <1>4 DEF TypeOK, poolVars, callVars
<1>6. PoolInv' /\ LockInv'
  BY <1>1, <1>2 DEF PInv, PoolInv, LockInv, UsableGpus, Chosen, Holding, poolVars, callVars
<1>7. SizeInv'
  <2>1. \A c \in Ctxs : dev'[c].outRec <= Len(dev'[c].out)
    BY <1>1, <1>3 DEF PInv, SizeInv
  <2>2. ASSUME NEW u \in Threads, pc'[u] \in {"launch", "sync"}
        PROVE  Fits(dev'[ctx[u]], req[u])
    <3>1. CASE u = t
      BY <1>1, <1>3, <3>1
    <3>2. CASE u # t
      <4>1. ctx[u] # ctx[t]
        BY <1>1, <1>2, <2>2, <3>2, HoldersApart DEF Holding
      <4>2. dev'[ctx[u]] = dev[ctx[u]]
        BY <1>1, <4>1
      <4>3. Fits(dev[ctx[u]], req[u])
        BY <1>2, <2>2, <3>2 DEF PInv, SizeInv, SetupSuffices
      <4> QED
        BY <4>2, <4>3
    <3> QED
      BY <3>1, <3>2
  <2> QED
    BY <1>1, <2>1, <2>2 DEF SizeInv, SetupSuffices, callVars
<1> QED
  BY <1>4, <1>5, <1>6, <1>7 DEF PInv

(* The kernel launch. *)
LEMMA LaunchStep ==
  ASSUME PInv, NEW t \in Threads, Launch(t)
  PROVE  PInv'
<1> USE Typed
<1> DEFINE q == <<Op(t, "kernel"), Op(t, "out")>>
<1>1. /\ pc[t] = "launch"
      /\ stream' = [stream EXCEPT ![StreamOf(t)] = @ \o q]
      /\ UNCHANGED <<poolVars, gmutex, owner, dev, heap, callVars, ctx, answers, life>>
  BY DEF Launch
<1>2. /\ pc' \in [Threads -> Locations] /\ pc'[t] = "sync"
      /\ \A u \in Threads \ {t} : pc'[u] = pc[u]
  BY GotoMoves DEF Launch, Locations, Holding
<1>3. WorkInv' /\ stream' \in [Streams -> Seq(Ops)]
  <2>1. Op(t, "kernel") \in Ops /\ Op(t, "out") \in Ops
    BY OpType
  <2>2. q \in Seq(Ops) /\ Len(q) = 2 /\ q[1] = Op(t, "kernel") /\ q[2] = Op(t, "out")
    BY <2>1
  <2>3. \A i \in 1 .. Len(q) : q[i].by = t /\ q[i].ctx = ctx[t] /\ q[i].req = req[t]
    <3> SUFFICES ASSUME NEW i \in 1 .. 2
                 PROVE  q[i].by = t /\ q[i].ctx = ctx[t] /\ q[i].req = req[t]
      BY <2>2
    <3>1. i = 1 \/ i = 2
      OBVIOUS
    <3> HIDE DEF q
    <3> QED
      BY <2>2, <3>1, OpType
  <2> HIDE DEF q
  <2> QED
    BY <1>1, <1>2, <2>2, <2>3, WorkAdded DEF Working, callVars
<1>4. TypeOK'
  BY <1>1, <1>2, <1>3 DEF TypeOK, poolVars, callVars
<1>5. PoolInv' /\ LockInv'
  BY <1>1, <1>2 DEF PInv, PoolInv, LockInv, UsableGpus, Chosen, Holding, poolVars, callVars
<1>6. SizeInv'
  BY <1>1, <1>2 DEF PInv, SizeInv, SetupSuffices, callVars
<1> QED
  BY <1>3, <1>4, <1>5, <1>6 DEF PInv

(* The oldest work of a stream is its owner's, and doing it resizes no     *)
(* buffer.                                                                 *)
LEMMA DeviceWork ==
  ASSUME PInv, NEW s \in Streams, Execute(s)
  PROVE  LET op == Head(stream[s]) IN
         /\ op \in Ops /\ op.by \in Threads /\ op.ctx \in Ctxs /\ op.req \in Requests
         /\ pc[op.by] \in {"launch", "sync"} /\ op.ctx = ctx[op.by] /\ op.req = req[op.by]
         /\ op.req.packets > 0 /\ Fits(dev[op.ctx], op.req)
         /\ dev' \in [Ctxs -> Buffers]
         /\ \A c \in Ctxs : /\ Len(dev'[c].packets) = Len(dev[c].packets)
                            /\ Len(dev'[c].offs) = Len(dev[c].offs)
                            /\ Len(dev'[c].out) = Len(dev[c].out)
                            /\ dev'[c].outRec = dev[c].outRec
         /\ host' = host \/ host' = [host EXCEPT ![op.by] = SubSeq(dev[op.ctx].out, 1, OutSize(op.req))]
<1> USE Typed
<1> DEFINE op == Head(stream[s])
<1>1. /\ stream[s] # <<>> /\ stream' = [stream EXCEPT ![s] = Tail(@)]
      /\ UNCHANGED <<poolVars, gmutex, owner, heap, pc, req, calls, ctx, answers, life>>
  BY DEF Execute
<1>2. /\ stream[s] \in Seq(Ops) /\ op = stream[s][1] /\ 1 \in 1 .. Len(stream[s])
  BY <1>1
<1>3. /\ op \in Ops /\ op.by \in Threads /\ op.ctx \in Ctxs /\ op.req \in Requests
      /\ pc[op.by] \in {"launch", "sync"} /\ op.ctx = ctx[op.by] /\ op.req = req[op.by]
  <2>1. /\ op \in Ops /\ op.by \in Threads
        /\ pc[op.by] \in {"launch", "sync"} /\ op.ctx = ctx[op.by] /\ op.req = req[op.by]
    BY <1>2, QueuedWork
  <2>2. \A o \in Ops : o.ctx \in Ctxs /\ o.req \in Requests
    BY DEF Ops
  <2> HIDE DEF op
  <2> QED
    BY <2>1, <2>2
<1>4. op.req.packets > 0 /\ Fits(dev[op.ctx], op.req)
  BY <1>3 DEF PInv, LockInv, SizeInv, SetupSuffices, Chosen, Holding
<1> HIDE DEF op
<1>5. /\ dev' = dev \/ \E b : SameSizes(b, dev[op.ctx]) /\ dev' = [dev EXCEPT ![op.ctx] = b]
      /\ host' = host \/ host' = [host EXCEPT ![op.by] = SubSeq(dev[op.ctx].out, 1, OutSize(op.req))]
  <2>1. \/ dev' = [dev EXCEPT ![op.ctx] = CopyIn(@, op)] /\ UNCHANGED host
        \/ dev' = [dev EXCEPT ![op.ctx] = RunKernel(@, op)] /\ UNCHANGED host
        \/ UNCHANGED dev /\ host' = [host EXCEPT ![op.by] = SubSeq(dev[op.ctx].out, 1, OutSize(op.req))]
    BY DEF Execute, op
  <2>2. SameSizes(CopyIn(dev[op.ctx], op), dev[op.ctx])
    BY <1>3, <1>4, CopyInSizes
  <2>3. SameSizes(RunKernel(dev[op.ctx], op), dev[op.ctx])
    BY <1>3, RunKernelSizes
  <2> QED
    BY <2>1, <2>2, <2>3
<1>6. /\ dev' \in [Ctxs -> Buffers]
      /\ \A c \in Ctxs : /\ Len(dev'[c].packets) = Len(dev[c].packets)
                         /\ Len(dev'[c].offs) = Len(dev[c].offs)
                         /\ Len(dev'[c].out) = Len(dev[c].out)
                         /\ dev'[c].outRec = dev[c].outRec
  <2>1. CASE dev' = dev
    BY <2>1
  <2>2. ASSUME NEW b, SameSizes(b, dev[op.ctx]), dev' = [dev EXCEPT ![op.ctx] = b]
        PROVE  <1>6!:
    BY <1>3, <2>2 DEF SameSizes
  <2> QED
    BY <1>5, <2>1, <2>2
<1> QED
  BY <1>3, <1>4, <1>5, <1>6 DEF op

(* The device's work resizes no buffer and finishes the oldest work. *)
LEMMA DeviceStep ==
  ASSUME PInv, NEW s \in Streams, Execute(s)
  PROVE  PInv'
<1> USE Typed
<1> DEFINE op == Head(stream[s])
<1>1. /\ stream[s] # <<>> /\ stream' = [stream EXCEPT ![s] = Tail(@)]
      /\ UNCHANGED <<poolVars, gmutex, owner, heap, pc, req, calls, ctx, answers, life>>
  BY DEF Execute
<1>2. stream[s] \in Seq(Ops) /\ 1 \in 1 .. Len(stream[s])
  BY <1>1
<1>3. op.by \in Threads /\ op.ctx \in Ctxs /\ op.req \in Requests /\ Fits(dev[op.ctx], op.req)
  BY DeviceWork
<1>5. host' = host \/ host' = [host EXCEPT ![op.by] = SubSeq(dev[op.ctx].out, 1, OutSize(op.req))]
  BY DeviceWork
<1>6. /\ dev' \in [Ctxs -> Buffers]
      /\ \A c \in Ctxs : /\ Len(dev'[c].packets) = Len(dev[c].packets)
                         /\ Len(dev'[c].offs) = Len(dev[c].offs)
                         /\ Len(dev'[c].out) = Len(dev[c].out)
                         /\ dev'[c].outRec = dev[c].outRec
  BY DeviceWork
<1> HIDE DEF op
<1>7. host' \in [Threads -> Seq([sig : Ids, data : Ids])]
  <2>1. /\ dev[op.ctx].out \in Seq([sig : Ids, data : Ids])
        /\ OutSize(op.req) \in Nat /\ OutSize(op.req) <= Len(dev[op.ctx].out)
    BY <1>3, RequestFacts DEF Buffers, Fits
  <2>2. SubSeq(dev[op.ctx].out, 1, OutSize(op.req)) \in Seq([sig : Ids, data : Ids])
    <3> DEFINE T == [sig : Ids, data : Ids]
               f == dev[op.ctx].out
               n == OutSize(op.req)
    <3>1. f \in Seq(T) /\ n \in Nat /\ n <= Len(f)
      BY <2>1
    <3> HIDE DEF T, f, n
    <3>2. \A i \in 1 .. n : f[i] \in T
      BY <3>1
    <3>3. SubSeq(f, 1, n) \in Seq(T)
      BY <3>1, <3>2, SubSeqProperties
    <3> QED
      BY <3>3 DEF T, f, n
  <2> QED
    BY <1>3, <1>5, <2>2
<1>8. stream' \in [Streams -> Seq(Ops)]
  <2>1. Tail(stream[s]) \in Seq(Ops)
    BY <1>1, <1>2
  <2> QED
    BY <1>1, <2>1
<1>9. TypeOK'
  BY <1>1, <1>6, <1>7, <1>8 DEF TypeOK, poolVars
<1>10. PoolInv' /\ LockInv'
  BY <1>1 DEF PInv, PoolInv, LockInv, UsableGpus, poolVars
<1>11. WorkInv'
  <2> SUFFICES ASSUME NEW z \in Streams, NEW i \in 1 .. Len(stream'[z])
               PROVE  \E j \in 1 .. Len(stream[z]) : stream'[z][i] = stream[z][j]
    BY <1>1, SMTT(30) DEF PInv, WorkInv
  <2>1. CASE z # s
    BY <1>1, <2>1
  <2>2. CASE z = s
    <3>1. stream'[z] = Tail(stream[s])
      BY <1>1, <2>2
    <3>2. i + 1 \in 1 .. Len(stream[s]) /\ Tail(stream[s])[i] = stream[s][i + 1]
      BY <1>1, <1>2, <3>1
    <3> QED
      BY <2>2, <3>1, <3>2
  <2> QED
    BY <2>1, <2>2
<1>12. SizeInv'
  BY <1>1, <1>6 DEF PInv, SizeInv, SetupSuffices, Fits
<1> QED
  BY <1>9, <1>10, <1>11, <1>12 DEF PInv

-----------------------------------------------------------------------------
(* The last step, and the invariant.                                       *)
(* Freeing changes no buffer the invariants speak of: the pointers stay.   *)
LEMMA FinishStep ==
  ASSUME PInv, FreeGpuMem
  PROVE  PInv'
<1>1. /\ UNCHANGED <<poolVars, gmutex, owner, dev, stream, pc, callVars, ctx, answers>>
      /\ life' = "freed"
  BY DEF FreeGpuMem
<1>2. TypeOK'
  BY <1>1, Typed DEF TypeOK, poolVars, callVars
<1>3. PoolInv' /\ LockInv'
  BY <1>1 DEF PInv, PoolInv, LockInv, UsableGpus, poolVars, callVars
<1>4. WorkInv' /\ SizeInv'
  BY <1>1, OffDevice DEF callVars
<1> QED
  BY <1>2, <1>3, <1>4 DEF PInv

(* The invariant holds initially: no context exists and nobody calls.      *)
LEMMA InitPInv == Init => PInv
<1> SUFFICES ASSUME Init
             PROVE  PInv
  OBVIOUS
<1>1. TypeOK
  <2>1. dev \in [Ctxs -> Buffers]
    <3>1. <<>> \in Seq(Ids) /\ <<>> \in Seq([id : Ids, slot : Nat])
          /\ <<>> \in Seq([sig : Ids, data : Ids])
      OBVIOUS
    <3>2. NoBuffers \in Buffers
      BY <3>1 DEF NoBuffers, Buffers
    <3> QED
      BY <3>2 DEF Init
  <2>2. /\ stream \in [Streams -> Seq(Ops)]
        /\ host \in [Threads -> Seq([sig : Ids, data : Ids])]
    BY DEF Init
  <2>3. /\ total \in -1 .. MaxGpus /\ curGpu \in 0 .. MaxGpus - 1
        /\ curQueue \in [0 .. MaxGpus - 1 -> 0 .. MaxQueues - 1]
        /\ calls \in [Threads -> 0 .. MaxCalls]
    BY PoolAssumption DEF Init
  <2>4. ctx \in [Threads -> Ctxs]
    BY PoolAssumption DEF Init, Ctxs
  <2>5. /\ gmutex \in Threads \cup {NoThread} /\ ready \subseteq Ctxs
        /\ owner \in [Ctxs -> Threads \cup {NoThread}]
        /\ pc \in [Threads -> Locations] /\ req \in [Threads -> Requests]
        /\ answers \subseteq BOOLEAN /\ picks \in [Ctxs -> Nat]
        /\ life \in {"up", "crashed", "freed"}
    BY DEF Init, Locations
  <2> QED
    BY <2>1, <2>2, <2>3, <2>4, <2>5 DEF TypeOK
<1>2. PoolInv /\ LockInv
  BY DEF Init, PoolInv, LockInv, Chosen, Holding
<1>3. WorkInv
  BY DEF Init, WorkInv
<1>4. SizeInv
  BY DEF Init, SizeInv, SetupSuffices, NoBuffers
<1> QED
  BY <1>1, <1>2, <1>3, <1>4 DEF PInv

(* Every step keeps it. *)
LEMMA StepPInv == PInv /\ [Next]_vars => PInv'
<1> SUFFICES ASSUME PInv, [Next]_vars
             PROVE  PInv'
  OBVIOUS
<1>1. CASE UNCHANGED vars
  <2>1. UNCHANGED <<poolVars, gmutex, owner, devVars, pc, callVars, ctx, answers, life>>
    BY <1>1 DEF vars
  <2>2. TypeOK'
    BY <2>1, Typed DEF TypeOK, poolVars, devVars, callVars
  <2>3. PoolInv' /\ LockInv'
    BY <2>1 DEF PInv, PoolInv, LockInv, UsableGpus, poolVars, callVars
  <2>4. WorkInv' /\ SizeInv'
    BY <2>1, OffDevice DEF devVars, callVars
  <2> QED
    BY <2>2, <2>3, <2>4 DEF PInv
<1>2. ASSUME NEW t \in Threads, Begin(t)
      PROVE  PInv'
  BY <1>2, CallStep DEF Begin
<1>3. ASSUME NEW t \in Threads, Step(t)
      PROVE  PInv'
  <2>1. CASE LockGlobal(t) \/ InitReturns(t)
    BY <2>1, LockStep
  <2>2. CASE SetUpPool(t)
    BY <2>2, SetUpStep
  <2>3. CASE Pick(t)
    BY <2>3, PickStep
  <2>4. CASE NullContext(t)
    BY <2>4, NullStep
  <2>5. CASE LockCtx(t)
    BY <2>5, LockCtxStep
  <2>6. CASE Setup(t)
    BY <2>6, SetupStep
  <2>7. CASE Launch(t)
    BY <2>7, LaunchStep
  <2>8. CASE Synchronize(t)
    BY <2>8, SynchronizeStep
  <2>9. CASE Release(t)
    BY <2>9, ReleaseStep
  <2> QED
    BY <1>3, <2>1, <2>2, <2>3, <2>4, <2>5, <2>6, <2>7, <2>8, <2>9 DEF Step
<1>4. ASSUME NEW s \in Streams, Device(s)
      PROVE  PInv'
  BY <1>4, DeviceStep DEF Device
<1>5. CASE Finish
  BY <1>5, FinishStep DEF Finish
<1> QED
  BY <1>1, <1>2, <1>3, <1>4, <1>5 DEF Next, Over

(* The inductive invariant holds in every reachable state. *)
THEOREM PoolInvariance == Spec => []PInv
<1> QED
  BY InitPInv, StepPInv, PTL DEF Spec

(* Every variable keeps its type, whatever the order of calls. *)
THEOREM PoolTypeCorrect == Spec => []TypeOK
<1>1. PInv => TypeOK
  BY DEF PInv
<1> QED
  BY <1>1, PoolInvariance, PTL

(* The work queued for a context is its holder's, who still waits for it:  *)
(* one call at a time uses a context's buffers.                            *)
THEOREM OneCallPerContext == Spec => []WorkIsOwners
<1>1. PInv => WorkIsOwners
  <2> SUFFICES ASSUME PInv, NEW s \in Streams, NEW i \in DOMAIN stream[s]
               PROVE  LET op == stream[s][i] IN
                      owner[op.ctx] = op.by /\ pc[op.by] \in {"launch", "sync"}
    BY DEF WorkIsOwners
  <2>1. stream[s] \in Seq(Ops)
    BY Typed
  <2>2. i \in 1 .. Len(stream[s])
    BY <2>1
  <2>3. /\ stream[s][i].by \in Threads
        /\ pc[stream[s][i].by] \in {"launch", "sync"}
        /\ stream[s][i].ctx = ctx[stream[s][i].by]
    BY <2>2, QueuedWork
  <2> QED
    BY <2>3 DEF PInv, LockInv, Holding
<1> QED
  BY <1>1, PoolInvariance, PTL

(* Whatever a context served before, setup_gpu_ctx leaves buffers that     *)
(* hold the call, until the call is over.                                  *)
THEOREM BuffersHoldTheCall == Spec => []SetupSuffices
<1>1. PInv => SetupSuffices
  BY DEF PInv, SizeInv
<1> QED
  BY <1>1, PoolInvariance, PTL

(* Only contexts that cuda_crypt_init_locked finished are used. *)
THEOREM OnlyCreatedContexts == Spec => []OnlyReady
<1>1. PInv => OnlyReady
  BY DEF PInv, PoolInv, OnlyReady, Chosen
<1> QED
  BY <1>1, PoolInvariance, PTL

-----------------------------------------------------------------------------
(* What ed25519_init answered.                                             *)
(* What the answers and the picks say of the pool, which is set up once:   *)
(* total never changes after the first call.                               *)
SaidYes == TRUE \in answers
SaidNo == FALSE \in answers
AnswerInv ==
    /\ SaidYes => total > 0
    /\ SaidNo => total = 0
    /\ life = "crashed" => total = 0
    /\ total <= 0 => \A c \in Ctxs : picks[c] = 0

(* AnswerInv is inductive relative to PInv. *)
LEMMA StepAnswers == PInv /\ AnswerInv /\ [Next]_vars => AnswerInv'
<1> SUFFICES ASSUME PInv, AnswerInv, [Next]_vars
             PROVE  AnswerInv'
  OBVIOUS
<1> USE Typed
<1>1. ASSUME UNCHANGED <<total, answers, life, picks>>
      PROVE  AnswerInv'
  <2>1. UNCHANGED <<SaidYes, SaidNo>>
    BY <1>1, Zenon DEF SaidYes, SaidNo
  <2> QED
    BY <1>1, <2>1 DEF AnswerInv
<1>2. CASE UNCHANGED vars
  BY <1>1, <1>2 DEF vars, poolVars
<1>3. ASSUME NEW t \in Threads, Begin(t)
      PROVE  AnswerInv'
  BY <1>1, <1>3 DEF Begin, Call, CallInit, poolVars
<1>4. ASSUME NEW t \in Threads, Step(t)
      PROVE  AnswerInv'
  <2>1. CASE LockGlobal(t) \/ LockCtx(t) \/ Setup(t) \/ Launch(t) \/ Synchronize(t)
                \/ Release(t)
    BY <1>1, <2>1 DEF LockGlobal, LockCtx, Setup, Launch, Synchronize, Release, poolVars
  <2>2. CASE SetUpPool(t)
    <3>1. total = -1 /\ UNCHANGED <<answers, life, picks>>
      BY <2>2 DEF SetUpPool, Uninitialised
    <3>2. UNCHANGED <<SaidYes, SaidNo>>
      BY <3>1, Zenon DEF SaidYes, SaidNo
    <3> QED
      BY <3>1, <3>2 DEF AnswerInv
  <2>3. CASE InitReturns(t)
    <3>1. /\ total # -1 /\ UNCHANGED <<total, life, picks>>
          /\ answers' = answers \cup {total > 0}
      BY <2>3 DEF InitReturns, poolVars
    <3>2. SaidYes' => SaidYes \/ total > 0
      BY <3>1, Zenon DEF SaidYes, SaidNo
    <3>3. SaidNo' => SaidNo \/ ~(total > 0)
      BY <3>1, Zenon DEF SaidYes, SaidNo
    <3> QED
      BY <3>1, <3>2, <3>3 DEF AnswerInv
  <2>4. CASE Pick(t)
    <3>1. total > 0 /\ UNCHANGED <<total, answers, life>>
      BY <2>4 DEF Pick
    <3>2. UNCHANGED <<SaidYes, SaidNo>>
      BY <3>1, Zenon DEF SaidYes, SaidNo
    <3> QED
      BY <3>1, <3>2 DEF AnswerInv
  <2>5. CASE NullContext(t)
    <3>1. total = 0 /\ UNCHANGED <<total, answers, picks>>
      BY <2>5 DEF NullContext, poolVars
    <3>2. UNCHANGED <<SaidYes, SaidNo>>
      BY <3>1, Zenon DEF SaidYes, SaidNo
    <3> QED
      BY <3>1, <3>2 DEF AnswerInv
  <2> QED
    BY <1>4, <2>1, <2>2, <2>3, <2>4, <2>5 DEF Step
<1>5. ASSUME NEW s \in Streams, Device(s)
      PROVE  AnswerInv'
  BY <1>1, <1>5 DEF Device, Execute, poolVars
<1>6. CASE Finish
  <2>1. UNCHANGED <<total, answers, picks>> /\ life' = "freed"
    BY <1>6 DEF Finish, FreeGpuMem, poolVars
  <2>2. UNCHANGED <<SaidYes, SaidNo>>
    BY <2>1, Zenon DEF SaidYes, SaidNo
  <2> QED
    BY <2>1, <2>2 DEF AnswerInv
<1> QED
  BY <1>2, <1>3, <1>4, <1>5, <1>6 DEF Next, Over

(* ed25519_init's answer is final, for threads that ask or call in any     *)
(* order and however often.                                                *)
THEOREM AnswersAreFinal == Spec => []InitAnswerFinal
<1>1. Init => AnswerInv
  BY DEF Init, AnswerInv, SaidYes, SaidNo
<1>2. PInv /\ AnswerInv => InitAnswerFinal
  <2> SUFFICES ASSUME PInv, AnswerInv
               PROVE  InitAnswerFinal
    OBVIOUS
  <2>1. SaidYes => ~SaidNo /\ life # "crashed"
    BY Typed DEF AnswerInv
  <2>2. SaidNo => \A c \in Ctxs : picks[c] = 0
    BY DEF AnswerInv
  <2> QED
    BY <2>1, <2>2, Zenon DEF SaidYes, SaidNo, InitAnswerFinal
<1> QED
  BY <1>1, <1>2, StepAnswers, PoolInvariance, PTL DEF Spec

-----------------------------------------------------------------------------
(* The device memory: while the process is up, the buffers allocated for a *)
(* context and not yet freed are those its pointers name.                  *)
HeapInv == heap = [c \in Ctxs |-> IF life = "freed" THEN 0 ELSE Live(dev[c])]

(* What is allocated less what is freed is what the pointers gain. *)
LEMMA HeapBalance ==
  ASSUME NEW b \in Buffers, NEW r \in Requests
  PROVE  Live(b) + Allocated(b, r) - Replaced(b, r) = Live(Grown(b, r))
<1> USE RequestFacts
<1>1. /\ Grown(b, r).packets = GrowPackets(b, r) /\ Grown(b, r).offs = GrowOffs(b, r)
      /\ Grown(b, r).out = IF NeedsOut(b, r) THEN FreshResults(OutSize(r)) ELSE b.out
  BY DEF Grown
<1>2. /\ Len(b.packets) \in Nat /\ Len(b.offs) \in Nat
      /\ (b.packets = <<>> <=> Len(b.packets) = 0) /\ (b.offs = <<>> <=> Len(b.offs) = 0)
  BY DEF Buffers
<1>3. \A n \in Nat : n > 0 => Fresh(n) # <<>> /\ FreshEntries(n) # <<>> /\ FreshResults(n) # <<>>
  <2> SUFFICES ASSUME NEW n \in Nat, n > 0
               PROVE  Fresh(n) # <<>> /\ FreshEntries(n) # <<>> /\ FreshResults(n) # <<>>
    OBVIOUS
  <2>1. DOMAIN Fresh(n) = 1 .. n /\ DOMAIN FreshEntries(n) = 1 .. n /\ DOMAIN FreshResults(n) = 1 .. n
    BY DEF Fresh, FreshEntries, FreshResults
  <2>2. 1 \in 1 .. n /\ DOMAIN <<>> = {}
    OBVIOUS
  <2> QED
    BY <2>1, <2>2
<1>4. /\ Len(b.packets) < r.packets => GrowPackets(b, r) # <<>>
      /\ ~(Len(b.packets) < r.packets) => GrowPackets(b, r) = b.packets
  BY <1>2, <1>3 DEF GrowPackets
<1>5. /\ Len(b.offs) < r.sigs => GrowOffs(b, r) # <<>>
      /\ ~(Len(b.offs) < r.sigs) => GrowOffs(b, r) = b.offs
  BY <1>2, <1>3 DEF GrowOffs
<1>6. /\ NeedsOut(b, r) => Grown(b, r).out # <<>>
      /\ ~NeedsOut(b, r) => Grown(b, r).out = b.out
  BY <1>1, <1>3
<1> QED
  BY <1>1, <1>4, <1>5, <1>6 DEF Live, Allocated, Replaced, Count

(* The heap holds nothing but live buffers, after every step. *)
LEMMA StepHeap == PInv /\ HeapInv /\ [Next]_vars => HeapInv'
<1> SUFFICES ASSUME PInv, HeapInv, [Next]_vars
             PROVE  HeapInv'
  OBVIOUS
<1> USE Typed
<1>1. CASE UNCHANGED <<dev, heap>> /\ (life = "up" => life' # "freed") /\ (life # "up" => life' = life)
  BY <1>1 DEF HeapInv
<1>2. CASE life = "up" /\ \E t \in Threads : Setup(t)
  <2>1. PICK t \in Threads : Setup(t)
    BY <1>2
  <2>2. PICK c \in Ctxs : c = ctx[t]
    OBVIOUS
  <2>3. PICK r \in Requests : r = req[t]
    OBVIOUS
  <2>4. /\ life' = "up" /\ dev' = [dev EXCEPT ![c] = Grown(@, r)]
        /\ heap' = [heap EXCEPT ![c] = @ + Allocated(dev[c], r) - Replaced(dev[c], r)]
    BY <1>2, <2>1, <2>2, <2>3 DEF Setup
  <2>5. heap = [e \in Ctxs |-> Live(dev[e])] /\ dev[c] \in Buffers
    BY <1>2 DEF HeapInv
  <2>6. heap[c] + Allocated(dev[c], r) - Replaced(dev[c], r) = Live(Grown(dev[c], r))
    BY <2>5, HeapBalance
  <2>7. heap' = [e \in Ctxs |-> IF e = c THEN Live(Grown(dev[c], r)) ELSE Live(dev[e])]
    BY <2>4, <2>5, <2>6
  <2>8. \A e \in Ctxs : dev'[e] = IF e = c THEN Grown(dev[c], r) ELSE dev[e]
    BY <2>4
  <2> QED
    BY <2>4, <2>7, <2>8 DEF HeapInv
<1>3. CASE life = "up" /\ \E s \in Streams : Execute(s)
  <2>1. PICK s \in Streams : Execute(s)
    BY <1>3
  <2>2. heap' = heap /\ life' = "up"
    BY <1>3, <2>1 DEF Execute
  <2>3. \A c \in Ctxs : Live(dev'[c]) = Live(dev[c])
    <3> SUFFICES ASSUME NEW c \in Ctxs
                 PROVE  Live(dev'[c]) = Live(dev[c])
      OBVIOUS
    <3>1. /\ dev'[c] \in Buffers /\ dev[c] \in Buffers
          /\ Len(dev'[c].packets) = Len(dev[c].packets) /\ Len(dev'[c].offs) = Len(dev[c].offs)
          /\ Len(dev'[c].out) = Len(dev[c].out)
      BY <2>1, DeviceWork
    <3>2. \A b \in Buffers : /\ b.packets = <<>> <=> Len(b.packets) = 0
                             /\ b.offs = <<>> <=> Len(b.offs) = 0
                             /\ b.out = <<>> <=> Len(b.out) = 0
      BY DEF Buffers
    <3> QED
      BY <3>1, <3>2 DEF Live
  <2> QED
    BY <1>3, <2>2, <2>3 DEF HeapInv
<1>4. CASE life = "up" /\ FreeGpuMem
  <2>1. heap = [c \in Ctxs |-> Live(dev[c])]
    BY <1>4 DEF HeapInv
  <2>2. heap' = [c \in Ctxs |-> heap[c] - Live(dev[c])] /\ life' = "freed"
    BY <1>4 DEF FreeGpuMem
  <2>3. \A c \in Ctxs : Live(dev[c]) \in Nat
    BY DEF Live
  <2> QED
    BY <2>1, <2>2, <2>3 DEF HeapInv
<1>5. \/ UNCHANGED <<dev, heap>> /\ (life = "up" => life' # "freed") /\ (life # "up" => life' = life)
      \/ life = "up" /\ \E t \in Threads : Setup(t)
      \/ life = "up" /\ \E s \in Streams : Execute(s)
      \/ life = "up" /\ FreeGpuMem
  <2>1. ASSUME NEW t \in Threads, Begin(t) \/ Step(t)
        PROVE  <1>5!1 \/ <1>5!2
    BY <2>1 DEF Begin, Step, Call, CallInit, LockGlobal, SetUpPool, InitReturns, Pick, NullContext, LockCtx,
                Launch, Synchronize, Release, devVars
  <2>2. UNCHANGED vars => <1>5!1
    BY DEF vars, devVars
  <2> QED
    BY <2>1, <2>2 DEF Next, Device, Finish, Over
<1> QED
  BY <1>1, <1>2, <1>3, <1>4, <1>5

(* ed25519_free_gpu_mem returns every buffer that setup_gpu_ctx allocated  *)
(* for any context, however often the buffers were replaced.               *)
THEOREM EveryBufferIsFreed == Spec => []AllFreed
<1>1. Init => HeapInv
  <2>1. Live(NoBuffers) = 0
    BY DEF Live, NoBuffers
  <2> QED
    BY <2>1 DEF Init, HeapInv
<1>2. HeapInv => AllFreed
  BY DEF HeapInv, AllFreed
<1> QED
  BY <1>1, <1>2, StepHeap, PoolInvariance, PTL DEF Spec

-----------------------------------------------------------------------------
(***************************************************************************)
(* A call of ed25519_verify_many or ed25519_sign_many returns the results  *)
(* of its own packets and signatures, for any number of threads, contexts, *)
(* streams and kinds of calls, although buffers are reused, streams may be *)
(* shared and the kernel also serves what earlier calls left.              *)
(*                                                                         *)
(* What a call may rely on is what its stream has already done: QueueInv   *)
(* says in which order, DataInv what each finished piece of work left.     *)
(***************************************************************************)

Kinds == {"in", "kernel", "out"}

(* The work of a call that stands behind a piece of work of that kind.     *)
Later(kind) ==
    IF kind = "in" THEN {"kernel", "out"} ELSE IF kind = "kernel" THEN {"out"} ELSE {}

(* Work of t that the device has not done yet. *)
Queued(t, kind) ==
    \E s \in Streams : \E i \in 1 .. Len(stream[s]) :
        stream[s][i].by = t /\ stream[s][i].kind = kind

(* Work stands on its call's stream and carries the call's data.           *)
OwnWork(s, op) ==
    /\ op.id = Id(op.by) /\ s = StreamOf(op.by)
    /\ pc[op.by] = "launch" => op.kind = "in"

QueueInv ==
    \A s \in Streams : \A i \in 1 .. Len(stream[s]) :
        /\ OwnWork(s, stream[s][i])
        /\ \A j \in 1 .. Len(stream[s]) :
              i < j /\ stream[s][j].by = stream[s][i].by =>
                  stream[s][j].kind \in Later(stream[s][i].kind)

(* What the copy in, the kernel and the copy out of a call leave.          *)
Copied(t) ==
    /\ \A i \in 1 .. req[t].packets : dev[ctx[t]].packets[i] = Id(t)
    /\ \A i \in 1 .. req[t].sigs :
          dev[ctx[t]].offs[i] = Entry(Id(t), SlotOf(i, req[t].packets))
Computed(t) ==
    \A i \in 1 .. OutSize(req[t]) : dev[ctx[t]].out[i] = Result(Id(t), Id(t))
Returned(t) ==
    host[t] = [i \in 1 .. OutSize(req[t]) |-> Result(Id(t), Id(t))]

DataOf(t) ==
    /\ pc[t] \in Working /\ ~Queued(t, "in") => Copied(t)
    /\ pc[t] = "sync" /\ ~Queued(t, "kernel") => Computed(t)
    /\ pc[t] = "sync" /\ ~Queued(t, "out") => Returned(t)
    /\ pc[t] = "release" => Returned(t)
DataInv == \A t \in Threads : DataOf(t)

-----------------------------------------------------------------------------
(* Steps that leave the streams alone.                                     *)
SameCall(u) ==
    /\ pc'[u] = pc[u] /\ req'[u] = req[u] /\ calls'[u] = calls[u]
    /\ ctx'[u] = ctx[u] /\ host'[u] = host[u]

(* A call keeps what it may rely on while its arguments, its context's     *)
(* buffers and its array stay and none of its work is done.                *)
LEMMA DataKept ==
  ASSUME NEW u, DataOf(u), SameCall(u), dev'[ctx[u]] = dev[ctx[u]],
         \A k \in Kinds : Queued(u, k) => Queued(u, k)'
  PROVE  DataOf(u)'
<1>1. /\ pc'[u] = pc[u] /\ req'[u] = req[u] /\ calls'[u] = calls[u]
      /\ ctx'[u] = ctx[u] /\ host'[u] = host[u] /\ Id(u)' = Id(u)
  BY DEF SameCall, Id
<1>2. /\ Queued(u, "in") => Queued(u, "in")'
      /\ Queued(u, "kernel") => Queued(u, "kernel")'
      /\ Queued(u, "out") => Queued(u, "out")'
  BY DEF Kinds
<1>3. Copied(u) => Copied(u)'
  BY <1>1 DEF Copied
<1>4. Computed(u) => Computed(u)'
  BY <1>1 DEF Computed
<1>5. Returned(u) => Returned(u)'
  BY <1>1 DEF Returned
<1> QED
  BY <1>1, <1>2, <1>3, <1>4, <1>5 DEF DataOf

(* A call that has no work and returns nothing relies on nothing.          *)
LEMMA DataIdle ==
  ASSUME NEW u, pc'[u] \notin Working \cup {"release"}
  PROVE  DataOf(u)'
  BY DEF DataOf, Working

(* A step off the device that leaves every call in flight as it was.       *)
LEMMA CallsKept ==
  ASSUME PInv, QueueInv, DataInv, UNCHANGED <<dev, stream>>,
         \A u \in Threads : pc[u] \in Working \/ pc'[u] \in Working \cup {"release"}
                                => SameCall(u)
  PROVE  QueueInv' /\ DataInv'
<1>1. ASSUME NEW s \in Streams, NEW i \in 1 .. Len(stream[s])
      PROVE  OwnWork(s, stream[s][i])'
  <2>1. stream[s][i].by \in Threads /\ pc[stream[s][i].by] \in Working
    BY QueuedWork DEF Working
  <2>2. SameCall(stream[s][i].by)
    BY <2>1
  <2>3. OwnWork(s, stream[s][i])
    BY DEF QueueInv
  <2> QED
    BY <2>2, <2>3 DEF OwnWork, SameCall, Id, StreamOf, DefaultStream
<1>2. QueueInv'
  BY <1>1 DEF QueueInv
<1>3. ASSUME NEW u \in Threads
      PROVE  DataOf(u)'
  <2>1. CASE pc'[u] \in Working \cup {"release"}
    <3>1. \A k \in Kinds : Queued(u, k) => Queued(u, k)'
      BY DEF Queued
    <3> QED
      BY <2>1, <3>1, DataKept DEF DataInv
  <2>2. CASE pc'[u] \notin Working \cup {"release"}
    BY <2>2, DataIdle
  <2> QED
    BY <2>1, <2>2
<1> QED
  BY <1>2, <1>3 DEF DataInv

(* The steps before a context is locked, its release, and the end.         *)
LEMMA OffDeviceResults ==
  ASSUME PInv, QueueInv, DataInv, NEW t \in Threads,
         \/ Call(t) \/ CallInit(t) \/ LockGlobal(t) \/ SetUpPool(t) \/ InitReturns(t)
         \/ Pick(t) \/ NullContext(t) \/ LockCtx(t) \/ Release(t)
  PROVE  QueueInv' /\ DataInv'
<1> USE Typed
<1>1. UNCHANGED <<dev, stream>>
  BY DEF Call, CallInit, LockGlobal, SetUpPool, InitReturns, Pick, NullContext, LockCtx,
         Release, devVars
<1>2. CASE SetUpPool(t) \/ NullContext(t)
  <2>1. UNCHANGED <<pc, req, calls, host, ctx>>
    BY <1>2 DEF SetUpPool, NullContext, callVars
  <2>2. \A u \in Threads : SameCall(u)
    BY <2>1 DEF SameCall
  <2> QED
    BY <1>1, <2>2, CallsKept
<1>3. CASE ~(SetUpPool(t) \/ NullContext(t))
  <2>1. /\ pc[t] \notin Working
        /\ \E l \in Locations : GotoPc(t, l) /\ l \notin Working \cup {"release"}
    BY <1>3 DEF Call, CallInit, LockGlobal, InitReturns, Pick, LockCtx, Release, Working,
                Locations, Holding
  <2>2. /\ pc'[t] \notin Working \cup {"release"}
        /\ \A u \in Threads \ {t} : pc'[u] = pc[u]
    BY <2>1, GotoMoves
  <2>3. ASSUME NEW u \in Threads \ {t}
        PROVE  req'[u] = req[u] /\ calls'[u] = calls[u] /\ ctx'[u] = ctx[u] /\ host'[u] = host[u]
    BY <1>3 DEF Call, CallInit, LockGlobal, InitReturns, Pick, LockCtx, Release, callVars
  <2>4. \A u \in Threads \ {t} : SameCall(u)
    BY <2>2, <2>3 DEF SameCall
  <2> QED
    BY <1>1, <2>1, <2>2, <2>4, CallsKept
<1> QED
  BY <1>2, <1>3

(* cudaStreamSynchronize: with no work left, the copy out is done.         *)
LEMMA SynchronizeResults ==
  ASSUME PInv, QueueInv, DataInv, NEW t \in Threads, Synchronize(t)
  PROVE  QueueInv' /\ DataInv'
<1> USE Typed
<1>1. /\ pc[t] = "sync" /\ QueuedBy(t) = {}
      /\ UNCHANGED <<dev, stream, req, calls, host, ctx>>
  BY DEF Synchronize, devVars, callVars
<1>2. /\ pc'[t] = "release" /\ \A u \in Threads \ {t} : pc'[u] = pc[u]
  BY GotoMoves DEF Synchronize, Locations, Holding
<1>3. ASSUME NEW s \in Streams, NEW i \in 1 .. Len(stream[s])
      PROVE  stream[s][i].by # t
  <2>1. stream[s] \in Seq(Ops)
    OBVIOUS
  <2>2. i \in DOMAIN stream[s]
    BY <2>1
  <2> QED
    BY <1>1, <2>2 DEF QueuedBy
<1>4. \A u \in Threads \ {t} : SameCall(u)
  BY <1>1, <1>2 DEF SameCall
<1>5. ASSUME NEW s \in Streams, NEW i \in 1 .. Len(stream[s])
      PROVE  OwnWork(s, stream[s][i])'
  <2>1. SameCall(stream[s][i].by)
    BY <1>3, <1>4, QueuedWork
  <2>2. OwnWork(s, stream[s][i])
    BY DEF QueueInv
  <2> QED
    BY <1>1, <2>1, <2>2 DEF OwnWork, SameCall, Id, StreamOf, DefaultStream
<1>6. QueueInv'
  BY <1>1, <1>5 DEF QueueInv
<1>7. ASSUME NEW u \in Threads
      PROVE  DataOf(u)'
  <2>1. CASE u = t
    <3>1. ~Queued(t, "out")
      BY <1>3 DEF Queued
    <3>2. Returned(t)
      BY <1>1, <3>1 DEF DataInv, DataOf
    <3>3. Returned(t)'
      BY <1>1, <3>2 DEF Returned, Id
    <3> QED
      BY <1>2, <2>1, <3>3 DEF DataOf, Working
  <2>2. CASE u # t
    <3>1. \A k \in Kinds : Queued(u, k) => Queued(u, k)'
      BY <1>1 DEF Queued
    <3> QED
      BY <1>1, <1>4, <2>2, <3>1, DataKept DEF DataInv
  <2> QED
    BY <2>1, <2>2
<1> QED
  BY <1>6, <1>7 DEF DataInv

-----------------------------------------------------------------------------
(* Steps that queue work.                                                  *)
(* The elements of a concatenation. *)
LEMMA ConcatElements ==
  ASSUME NEW S, NEW p \in Seq(S), NEW q \in Seq(S)
  PROVE  /\ \A i \in 1 .. Len(p \o q) :
                \/ i \in 1 .. Len(p) /\ (p \o q)[i] = p[i]
                \/ \E j \in 1 .. Len(q) : i = Len(p) + j /\ (p \o q)[i] = q[j]
         /\ \A i \in 1 .. Len(p) : i \in 1 .. Len(p \o q) /\ (p \o q)[i] = p[i]
<1>1. /\ Len(p) \in Nat /\ Len(q) \in Nat /\ Len(p \o q) = Len(p) + Len(q)
      /\ \A i \in 1 .. Len(p) + Len(q) :
            (p \o q)[i] = IF i <= Len(p) THEN p[i] ELSE q[i - Len(p)]
  OBVIOUS
<1>2. ASSUME NEW i \in 1 .. Len(p \o q)
      PROVE  \/ i \in 1 .. Len(p) /\ (p \o q)[i] = p[i]
             \/ \E j \in 1 .. Len(q) : i = Len(p) + j /\ (p \o q)[i] = q[j]
  <2>1. CASE i <= Len(p)
    BY <1>1, <1>2, <2>1
  <2>2. CASE i > Len(p)
    <3>1. i - Len(p) \in 1 .. Len(q) /\ i = Len(p) + (i - Len(p))
      BY <1>1, <1>2, <2>2
    <3>2. (p \o q)[i] = q[i - Len(p)]
      BY <1>1, <1>2, <2>2
    <3> QED
      BY <3>1, <3>2
  <2> QED
    BY <1>1, <1>2, <2>1, <2>2
<1>3. ASSUME NEW i \in 1 .. Len(p)
      PROVE  i \in 1 .. Len(p \o q) /\ (p \o q)[i] = p[i]
  BY <1>1
<1> QED
  BY <1>2, <1>3

(* A step of t that queues q, work of its own in its order, behind what t  *)
(* queued before.                                                          *)
Queues(t, q) ==
    /\ UNCHANGED <<req, ctx, calls>>
    /\ \A u \in Threads \ {t} : pc'[u] = pc[u]
    /\ stream' = [stream EXCEPT ![StreamOf(t)] = @ \o q]
OwnInOrder(t, q) ==
    \A j \in 1 .. Len(q) :
        /\ q[j].by = t /\ q[j].id = Id(t) /\ (pc'[t] = "launch" => q[j].kind = "in")
        /\ \A m \in 1 .. Len(q) : j < m => q[m].kind \in Later(q[j].kind)
Behind(t, q) ==
    \A s \in Streams : \A i \in 1 .. Len(stream[s]) :
        stream[s][i].by = t =>
            /\ pc'[t] # "launch"
            /\ \A j \in 1 .. Len(q) : q[j].kind \in Later(stream[s][i].kind)

(* Such a step keeps the queues in order and loses no work. *)
LEMMA QueueAdded ==
  ASSUME PInv, QueueInv, NEW t \in Threads, NEW q \in Seq(Ops),
         Queues(t, q), OwnInOrder(t, q), Behind(t, q)
  PROVE  /\ QueueInv'
         /\ \A u \in Threads, k \in Kinds : Queued(u, k) => Queued(u, k)'
<1> USE Typed DEF Queues, OwnInOrder, Behind
<1> DEFINE s0 == StreamOf(t)
<1>1. s0 \in Streams
  BY StreamOfType
<1>2. stream[s0] \in Seq(Ops) /\ stream'[s0] = stream[s0] \o q /\ Len(stream[s0]) \in Nat
  BY <1>1
<1>p. PICK p \in Seq(Ops) : p = stream[s0]
  BY <1>2
<1>q. /\ \A i \in 1 .. Len(p \o q) :
            (i \in 1 .. Len(p) /\ (p \o q)[i] = p[i]) \/ \E j \in 1 .. Len(q) : i = Len(p) + j /\ (p \o q)[i] = q[j]
      /\ \A i \in 1 .. Len(p) : i \in 1 .. Len(p \o q) /\ (p \o q)[i] = p[i]
  BY ConcatElements
<1>3. \A s \in Streams : s # s0 => stream'[s] = stream[s]
  BY <1>1
<1>4. ASSUME NEW s \in Streams, NEW i \in 1 .. Len(stream'[s])
      PROVE  \/ i \in 1 .. Len(stream[s]) /\ stream'[s][i] = stream[s][i]
             \/ /\ s = s0
                /\ \E j \in 1 .. Len(q) : i = Len(stream[s]) + j /\ stream'[s][i] = q[j]
  <2>1. CASE s = s0
    <3>1. i \in 1 .. Len(p \o q)
      BY ONLY <1>2, <1>4, <1>p, <2>1
    <3>2. (i \in 1 .. Len(p) /\ (p \o q)[i] = p[i]) \/ \E j \in 1 .. Len(q) : i = Len(p) + j /\ (p \o q)[i] = q[j]
      BY ONLY <1>q, <3>1
    <3> QED
      BY ONLY <1>2, <1>p, <2>1, <3>2
  <2>2. CASE s # s0
    BY <1>3, <1>4, <2>2
  <2> QED
    BY <2>1, <2>2
<1>5. ASSUME NEW s \in Streams, NEW i \in 1 .. Len(stream[s])
      PROVE  i \in 1 .. Len(stream'[s]) /\ stream'[s][i] = stream[s][i]
  <2>1. CASE s = s0
    <3>1. i \in 1 .. Len(p)
      BY ONLY <1>5, <1>p, <2>1
    <3>2. i \in 1 .. Len(p \o q) /\ (p \o q)[i] = p[i]
      BY ONLY <1>q, <3>1
    <3> QED
      BY ONLY <1>2, <1>p, <2>1, <3>2
  <2>2. CASE s # s0
    BY <1>3, <1>5, <2>2
  <2> QED
    BY <2>1, <2>2
<1> HIDE DEF s0
<1>6. ASSUME NEW s \in Streams, NEW i \in 1 .. Len(stream'[s])
      PROVE  OwnWork(s, stream[s][i])'
  <2>1. CASE i \in 1 .. Len(stream[s]) /\ stream'[s][i] = stream[s][i]
    <3>1. PICK op \in Ops : op = stream[s][i]
      BY <2>1, QueuedWork
    <3>2. op.by \in Threads /\ OwnWork(s, op)
      BY <2>1, <3>1, QueuedWork DEF QueueInv
    <3>3. pc'[op.by] = "launch" => pc[op.by] = "launch"
      BY <2>1, <3>1, <3>2
    <3>4. OwnWork(s, op)'
      BY <3>2, <3>3 DEF OwnWork, Id, StreamOf, DefaultStream
    <3> QED
      BY <2>1, <3>1, <3>4
  <2>2. ASSUME s = s0, NEW j \in 1 .. Len(q), stream'[s][i] = q[j]
        PROVE  OwnWork(s, stream[s][i])'
    BY <2>2 DEF OwnWork, s0, Id, StreamOf, DefaultStream
  <2> QED
    BY <1>4, <2>1, <2>2
<1>7. ASSUME NEW s \in Streams, NEW i \in 1 .. Len(stream'[s]), NEW m \in 1 .. Len(stream'[s]),
             i < m, stream'[s][m].by = stream'[s][i].by
      PROVE  stream'[s][m].kind \in Later(stream'[s][i].kind)
  <2>1. CASE m \in 1 .. Len(stream[s]) /\ stream'[s][m] = stream[s][m]
    <3>1. i \in 1 .. Len(stream[s])
      BY <1>7, <2>1
    <3> QED
      BY <1>5, <1>7, <2>1, <3>1 DEF QueueInv
  <2>2. ASSUME s = s0, NEW j \in 1 .. Len(q), m = Len(stream[s]) + j, stream'[s][m] = q[j]
        PROVE  stream'[s][m].kind \in Later(stream'[s][i].kind)
    <3>1. stream'[s][i].by = t
      BY <1>7, <2>2
    <3>2. CASE i \in 1 .. Len(stream[s]) /\ stream'[s][i] = stream[s][i]
      BY <2>2, <3>1, <3>2
    <3>3. ASSUME NEW k \in 1 .. Len(q), i = Len(stream[s]) + k, stream'[s][i] = q[k]
          PROVE  stream'[s][m].kind \in Later(stream'[s][i].kind)
      <4>1. k < j
        BY <1>2, <1>7, <2>2, <3>3
      <4> QED
        BY <2>2, <3>3, <4>1
    <3>4. \/ i \in 1 .. Len(stream[s]) /\ stream'[s][i] = stream[s][i]
          \/ \E k \in 1 .. Len(q) : i = Len(stream[s]) + k /\ stream'[s][i] = q[k]
      BY <1>4
    <3> QED
      BY <3>2, <3>3, <3>4
  <2>3. \/ m \in 1 .. Len(stream[s]) /\ stream'[s][m] = stream[s][m]
        \/ /\ s = s0
           /\ \E j \in 1 .. Len(q) : m = Len(stream[s]) + j /\ stream'[s][m] = q[j]
    BY <1>4
  <2> QED
    BY <2>1, <2>2, <2>3
<1>8. \A u \in Threads, k \in Kinds : Queued(u, k) => Queued(u, k)'
  BY <1>5 DEF Queued
<1> QED
  BY <1>6, <1>7, <1>8 DEF QueueInv

(* Other calls keep what they rely on: nobody else holds their context.    *)
LEMMA OthersKept ==
  ASSUME PInv, DataInv, NEW t \in Threads, pc[t] \in Holding, NEW u \in Threads, u # t,
         SameCall(u), \A c \in Ctxs : c # ctx[t] => dev'[c] = dev[c],
         \A k \in Kinds : Queued(u, k) => Queued(u, k)'
  PROVE  DataOf(u)'
<1>1. CASE pc'[u] \in Working \cup {"release"}
  <2>1. ctx[u] # ctx[t] /\ ctx[u] \in Ctxs
    BY <1>1, HoldersApart, Typed DEF SameCall, Working, Holding
  <2> QED
    BY <2>1, DataKept DEF DataInv
<1>2. CASE pc'[u] \notin Working \cup {"release"}
  BY <1>2, DataIdle
<1> QED
  BY <1>1, <1>2

(* setup_gpu_ctx queues the first work of the call.                        *)
LEMMA SetupQueues ==
  ASSUME PInv, QueueInv, NEW t \in Threads, Setup(t)
  PROVE  /\ QueueInv' /\ Queued(t, "in")'
         /\ \A u \in Threads, k \in Kinds : Queued(u, k) => Queued(u, k)'
         /\ \A k \in Kinds : ~Queued(t, k)
         /\ pc[t] = "setup" /\ pc'[t] = "launch"
         /\ dev' = [dev EXCEPT ![ctx[t]] = Grown(dev[ctx[t]], req[t])]
         /\ UNCHANGED <<req, ctx>> /\ \A u \in Threads \ {t} : SameCall(u)
<1> USE Typed
<1>1. /\ pc[t] = "setup" /\ UNCHANGED <<req, calls, host, ctx>>
      /\ dev' = [dev EXCEPT ![ctx[t]] = Grown(dev[ctx[t]], req[t])]
      /\ stream' = [stream EXCEPT ![StreamOf(t)] = Append(@, Op(t, "in"))]
  BY DEF Setup, callVars
<1>2. /\ pc'[t] = "launch" /\ \A u \in Threads \ {t} : pc'[u] = pc[u]
  BY GotoMoves DEF Setup, Locations, Holding
<1>3. PICK o \in Ops : o = Op(t, "in") /\ o.by = t /\ o.id = Id(t) /\ o.kind = "in"
  BY OpType DEF Op
<1>4. \A s \in Streams : \A i \in 1 .. Len(stream[s]) : stream[s][i].by # t
  BY <1>1, QueuedWork
<1>5. PICK q \in Seq(Ops) : q = <<o>> /\ Len(q) = 1 /\ q[1] = o
  <2>1. <<o>> \in Seq(Ops) /\ Len(<<o>>) = 1 /\ <<o>>[1] = o
    OBVIOUS
  <2> QED
    BY <2>1
<1>6. stream' = [stream EXCEPT ![StreamOf(t)] = @ \o q]
  <2>1. stream[StreamOf(t)] \in Seq(Ops)
    BY StreamOfType
  <2>2. Append(stream[StreamOf(t)], o) = stream[StreamOf(t)] \o <<o>>
    BY <1>3, <2>1, AppendIsConcat
  <2> QED
    BY <1>1, <1>3, <1>5, <2>2
<1>7. \A j \in 1 .. Len(q) :
          /\ q[j].by = t /\ q[j].id = Id(t) /\ (pc'[t] = "launch" => q[j].kind = "in")
          /\ \A m \in 1 .. Len(q) : j < m => q[m].kind \in Later(q[j].kind)
  BY <1>3, <1>5
<1>8. QueueInv' /\ \A u \in Threads, k \in Kinds : Queued(u, k) => Queued(u, k)'
  <2>1. Behind(t, q)
    BY <1>4 DEF Behind
  <2>2. OwnInOrder(t, q)
    BY <1>7 DEF OwnInOrder
  <2>3. Queues(t, q)
    BY <1>1, <1>2, <1>6 DEF Queues
  <2> QED
    BY <2>1, <2>2, <2>3, QueueAdded
<1>9. Queued(t, "in")'
  <2>1. StreamOf(t) \in Streams /\ stream[StreamOf(t)] \in Seq(Ops)
    BY StreamOfType
  <2>2. stream'[StreamOf(t)] = Append(stream[StreamOf(t)], o)
    BY <1>1, <1>3, <2>1
  <2>3. /\ Len(stream'[StreamOf(t)]) \in 1 .. Len(stream'[StreamOf(t)])
        /\ stream'[StreamOf(t)][Len(stream'[StreamOf(t)])] = o
    BY <1>3, <2>1, <2>2
  <2> QED
    BY <1>3, <2>1, <2>3 DEF Queued
<1>10. \A k \in Kinds : ~Queued(t, k)
  BY <1>4 DEF Queued
<1>11. \A u \in Threads \ {t} : SameCall(u)
  BY <1>1, <1>2 DEF SameCall
<1> QED
  BY <1>1, <1>2, <1>8, <1>9, <1>10, <1>11

(* It leaves what the others rely on.                                      *)
LEMMA SetupResults ==
  ASSUME PInv, QueueInv, DataInv, NEW t \in Threads, Setup(t)
  PROVE  QueueInv' /\ DataInv'
<1> USE SetupQueues
<1>1. DataOf(t)'
  BY DEF DataOf
<1>2. ASSUME NEW u \in Threads, u # t
      PROVE  DataOf(u)'
  <2>1. SameCall(u) /\ \A k \in Kinds : Queued(u, k) => Queued(u, k)'
    BY <1>2
  <2>2. \A c \in Ctxs : c # ctx[t] => dev'[c] = dev[c]
    BY Typed
  <2>3. pc[t] \in Holding
    BY DEF Holding
  <2> QED
    BY <1>2, <2>1, <2>2, <2>3, OthersKept
<1> QED
  BY <1>1, <1>2 DEF DataInv

(* The launch queues the kernel and the copy out behind the copy in.       *)
LEMMA LaunchQueues ==
  ASSUME PInv, QueueInv, NEW t \in Threads, Launch(t)
  PROVE  /\ QueueInv' /\ Queued(t, "kernel")' /\ Queued(t, "out")'
         /\ \A u \in Threads, k \in Kinds : Queued(u, k) => Queued(u, k)'
         /\ pc[t] = "launch" /\ pc'[t] = "sync"
         /\ UNCHANGED <<dev, req, calls, ctx>> /\ \A u \in Threads \ {t} : SameCall(u)
<1> USE Typed
<1>1. /\ pc[t] = "launch" /\ UNCHANGED <<dev, req, calls, host, ctx>>
      /\ stream' = [stream EXCEPT ![StreamOf(t)] = @ \o <<Op(t, "kernel"), Op(t, "out")>>]
  BY DEF Launch, callVars
<1>2. /\ pc'[t] = "sync" /\ \A u \in Threads \ {t} : pc'[u] = pc[u]
  BY GotoMoves DEF Launch, Locations, Holding
<1>a. PICK a \in Ops : a = Op(t, "kernel") /\ a.by = t /\ a.id = Id(t) /\ a.kind = "kernel"
  BY OpType DEF Op
<1>b. PICK b \in Ops : b = Op(t, "out") /\ b.by = t /\ b.id = Id(t) /\ b.kind = "out"
  BY OpType DEF Op
<1>4. PICK q \in Seq(Ops) : q = <<a, b>> /\ Len(q) = 2 /\ q[1] = a /\ q[2] = b
  <2>1. <<a, b>> \in Seq(Ops) /\ Len(<<a, b>>) = 2 /\ <<a, b>>[1] = a /\ <<a, b>>[2] = b
    OBVIOUS
  <2> QED
    BY <2>1
<1>5. \A j \in 1 .. 2 : j = 1 \/ j = 2
  OBVIOUS
<1>6. \A j \in 1 .. Len(q) :
          /\ q[j].by = t /\ q[j].id = Id(t) /\ q[j].kind \in {"kernel", "out"}
          /\ \A m \in 1 .. Len(q) : j < m => q[m].kind \in Later(q[j].kind)
  <2>1. \A j \in 1 .. Len(q) : j = 1 \/ j = 2
    BY <1>4, <1>5
  <2>2. \A j \in 1 .. Len(q) :
            q[j].by = t /\ q[j].id = Id(t) /\ q[j].kind \in {"kernel", "out"}
    BY <1>a, <1>b, <1>4, <2>1
  <2>3. ASSUME NEW j \in 1 .. Len(q), NEW m \in 1 .. Len(q), j < m
        PROVE  q[m].kind \in Later(q[j].kind)
    <3>1. j = 1 /\ m = 2
      BY <2>1, <2>3
    <3> QED
      BY <1>a, <1>b, <1>4, <3>1 DEF Later
  <2> QED
    BY <2>2, <2>3
<1>7. ASSUME NEW s \in Streams, NEW i \in 1 .. Len(stream[s]), stream[s][i].by = t
      PROVE  \A j \in 1 .. Len(q) : q[j].kind \in Later(stream[s][i].kind)
  <2>1. stream[s][i].kind = "in"
    BY <1>1, <1>7 DEF QueueInv, OwnWork
  <2> QED
    BY <1>6, <2>1 DEF Later
<1>8. QueueInv' /\ \A u \in Threads, k \in Kinds : Queued(u, k) => Queued(u, k)'
  <2>1. Behind(t, q)
    BY <1>2, <1>7 DEF Behind
  <2>2. OwnInOrder(t, q)
    BY <1>2, <1>6 DEF OwnInOrder
  <2>3. Queues(t, q)
    BY <1>1, <1>2, <1>a, <1>b, <1>4 DEF Queues
  <2> QED
    BY <2>1, <2>2, <2>3, QueueAdded
<1>9. ASSUME NEW j \in 1 .. Len(q)
      PROVE  Queued(t, q[j].kind)'
  <2>1. StreamOf(t) \in Streams /\ stream[StreamOf(t)] \in Seq(Ops)
    BY StreamOfType
  <2>2. PICK z \in Streams : z = StreamOf(t)
    BY <2>1
  <2>3. stream'[z] = stream[z] \o q /\ stream[z] \in Seq(Ops)
    BY <1>1, <1>a, <1>b, <1>4, <2>1, <2>2
  <2>4. Len(stream[z]) + j \in 1 .. Len(stream'[z]) /\ stream'[z][Len(stream[z]) + j] = q[j]
    BY <1>4, <2>3
  <2> QED
    BY <1>6, <2>4 DEF Queued
<1>10. Queued(t, "kernel")' /\ Queued(t, "out")'
  BY <1>a, <1>b, <1>4, <1>9
<1>11. \A u \in Threads \ {t} : SameCall(u)
  BY <1>1, <1>2 DEF SameCall
<1> QED
  BY <1>1, <1>2, <1>8, <1>10, <1>11

(* It leaves what the call and the others rely on.                         *)
LEMMA LaunchResults ==
  ASSUME PInv, QueueInv, DataInv, NEW t \in Threads, Launch(t)
  PROVE  QueueInv' /\ DataInv'
<1> USE LaunchQueues
<1>1. DataOf(t)'
  <2>1. ~Queued(t, "in")' => Copied(t)
    BY DEF DataInv, DataOf, Working, Kinds
  <2>2. ~Queued(t, "in")' => Copied(t)'
    BY <2>1 DEF Copied, Id
  <2> QED
    BY <2>2 DEF DataOf
<1>2. ASSUME NEW u \in Threads, u # t
      PROVE  DataOf(u)'
  <2>1. SameCall(u) /\ \A k \in Kinds : Queued(u, k) => Queued(u, k)'
    BY <1>2
  <2>2. pc[t] \in Holding
    BY DEF Holding
  <2> QED
    BY <1>2, <2>1, <2>2, OthersKept
<1> QED
  BY <1>1, <1>2 DEF DataInv

-----------------------------------------------------------------------------
(* The device's steps.                                                     *)
(* A quotient's multiple is the next one below. *)
LEMMA Quotient ==
  ASSUME NEW m \in Nat, NEW n \in Nat \ {0}
  PROVE  /\ m \div n \in Nat /\ n * (m \div n) \in Nat
         /\ n * (m \div n) <= m /\ m < n * (m \div n) + n
<1>1. m \div n \in Nat
  OBVIOUS
<1>2. n * (m \div n) \in Nat
  BY <1>1
<1>3. n * (m \div n) <= m
  OBVIOUS
<1>4. m < n * (m \div n) + n
  OBVIOUS
<1> QED
  BY <1>1, <1>2, <1>3, <1>4

(* Whole blocks serve at least what was asked for. *)
LEMMA BlocksCover ==
  ASSUME NEW n \in Nat
  PROVE  RoundUp(n) \in Nat /\ n <= RoundUp(n)
<1> DEFINE m == n + BlockSize - 1
           p == BlockSize * (m \div BlockSize)
<1>1. m \in Nat /\ BlockSize \in Nat \ {0}
  BY PoolAssumption
<1>2. RoundUp(n) = (m \div BlockSize) * BlockSize
  BY DEF RoundUp
<1>3. m + 1 = n + BlockSize
  BY PoolAssumption
<1> HIDE DEF m
<1>4. m \div BlockSize \in Nat /\ p \in Nat /\ m < p + BlockSize
  BY <1>1, Quotient
<1>5. RoundUp(n) = p
  BY <1>1, <1>2, <1>4
<1> HIDE DEF p
<1> QED
  BY <1>1, <1>3, <1>4, <1>5

(* The cells of a call's results belong to its entries. *)
LEMMA CellOfCall ==
  ASSUME NEW r \in Requests, NEW i \in 1 .. OutSize(r)
  PROVE  CellEntry(i, r) \in 1 .. r.sigs
<1> DEFINE c == Cells(r)
           n == r.sigs
           k == (i - 1) \div c
<1>1. n \in Nat /\ c \in Nat \ {0}
  BY RequestFacts, PoolAssumption DEF Cells
<1>2. i - 1 \in Nat /\ i - 1 < c * n
  <2>1. OutSize(r) \in Nat /\ OutSize(r) = c * n
    BY RequestFacts DEF OutSize
  <2> QED
    BY <2>1
<1>3. CellEntry(i, r) = k + 1
  BY DEF CellEntry
<1> HIDE DEF c, n
<1>4. k \in Nat /\ c * k \in Nat /\ c * k <= i - 1
  BY <1>1, <1>2, Quotient
<1> HIDE DEF k
<1>5. k < n
  <2> SUFFICES ASSUME n <= k
               PROVE  FALSE
    BY <1>1, <1>4
  <2>1. PICK d \in Nat : k = n + d
    <3>1. k - n \in Nat /\ k = n + (k - n)
      BY <1>1, <1>4
    <3> QED
      BY <3>1
  <2>2. c * k = c * n + c * d /\ c * d \in Nat /\ c * n \in Nat
    BY <1>1, <2>1
  <2> QED
    BY <1>2, <1>4, <2>2
<1>6. k + 1 \in 1 .. n
  BY <1>1, <1>4, <1>5
<1> QED
  BY <1>3, <1>6 DEF n

(* An entry points into its call's packets. *)
LEMMA SlotOfCall ==
  ASSUME NEW i \in Nat \ {0}, NEW n \in Nat \ {0}
  PROVE  SlotOf(i, n) \in 1 .. n
<1>1. (i - 1) % n \in 0 .. n - 1
  OBVIOUS
<1> QED
  BY <1>1 DEF SlotOf

(* Buffers that hold a call. *)
Holds(b, r, id) ==
    /\ \A i \in 1 .. r.packets : b.packets[i] = id
    /\ \A i \in 1 .. r.sigs : b.offs[i] = Entry(id, SlotOf(i, r.packets))

(* The copy in fills them. *)
LEMMA CopyInHolds ==
  ASSUME NEW b \in Buffers, NEW op \in Ops, Fits(b, op.req)
  PROVE  Holds(CopyIn(b, op), op.req, op.id) /\ CopyIn(b, op).out = b.out
<1>1. op.req.packets \in Nat /\ op.req.sigs \in Nat
  BY RequestFacts DEF Ops
<1>2. /\ Len(b.packets) \in Nat /\ DOMAIN b.packets = 1 .. Len(b.packets)
      /\ Len(b.offs) \in Nat /\ DOMAIN b.offs = 1 .. Len(b.offs)
  BY SeqIs DEF Buffers
<1>3. /\ CopyIn(b, op).packets = [i \in DOMAIN b.packets |->
              IF i <= op.req.packets THEN op.id ELSE b.packets[i]]
      /\ CopyIn(b, op).offs = [i \in DOMAIN b.offs |->
              IF i <= op.req.sigs THEN Entry(op.id, SlotOf(i, op.req.packets)) ELSE b.offs[i]]
      /\ CopyIn(b, op).out = b.out
  BY DEF CopyIn
<1>4. ASSUME NEW i \in 1 .. op.req.packets
      PROVE  CopyIn(b, op).packets[i] = op.id
  BY <1>1, <1>2, <1>3 DEF Fits
<1>5. ASSUME NEW i \in 1 .. op.req.sigs
      PROVE  CopyIn(b, op).offs[i] = Entry(op.id, SlotOf(i, op.req.packets))
  BY <1>1, <1>2, <1>3 DEF Fits
<1> QED
  BY <1>3, <1>4, <1>5 DEF Holds

(* The kernel serves every entry of the call, and reads the call's data.   *)
LEMMA KernelComputes ==
  ASSUME NEW b \in Buffers, NEW op \in Ops, op.req.packets > 0, Fits(b, op.req),
         Holds(b, op.req, op.id)
  PROVE  /\ \A i \in 1 .. OutSize(op.req) : RunKernel(b, op).out[i] = Result(op.id, op.id)
         /\ RunKernel(b, op).packets = b.packets /\ RunKernel(b, op).offs = b.offs
<1> DEFINE r == op.req
<1>1. /\ r \in Requests /\ r.packets \in Nat \ {0} /\ r.sigs \in Nat /\ OutSize(r) \in Nat
  BY RequestFacts DEF Ops
<1>2. /\ Len(b.packets) \in Nat /\ DOMAIN b.packets = 1 .. Len(b.packets)
      /\ Len(b.offs) \in Nat /\ DOMAIN b.offs = 1 .. Len(b.offs)
      /\ Len(b.out) \in Nat /\ DOMAIN b.out = 1 .. Len(b.out)
  BY SeqIs DEF Buffers
<1>3. r.packets <= Len(b.packets) /\ r.sigs <= Len(b.offs) /\ OutSize(r) <= Len(b.out)
  BY DEF Fits
<1>4. ASSUME NEW e \in 1 .. r.sigs
      PROVE  e \in Served(b, r) /\ ResultOf(b, e) = Result(op.id, op.id)
  <2>1. e \in Served(b, r)
    BY <1>1, <1>2, <1>3, BlocksCover DEF Served
  <2>2. SlotOf(e, r.packets) \in 1 .. r.packets
    BY <1>1, SlotOfCall
  <2>3. At(b.offs, e, Entry(Nobody, 1)) = Entry(op.id, SlotOf(e, r.packets))
    BY <1>1, <1>2, <1>3 DEF At, Holds
  <2>4. At(b.packets, SlotOf(e, r.packets), Nobody) = op.id
    BY <1>1, <1>2, <1>3, <2>2 DEF At, Holds
  <2>5. /\ Entry(op.id, SlotOf(e, r.packets)).id = op.id
        /\ Entry(op.id, SlotOf(e, r.packets)).slot = SlotOf(e, r.packets)
    BY DEF Entry
  <2> QED
    BY <2>1, <2>3, <2>4, <2>5 DEF ResultOf
<1>5. /\ RunKernel(b, op).out = [i \in DOMAIN b.out |->
              IF CellEntry(i, r) \in Served(b, r) THEN ResultOf(b, CellEntry(i, r)) ELSE b.out[i]]
      /\ RunKernel(b, op).packets = b.packets /\ RunKernel(b, op).offs = b.offs
  BY DEF RunKernel
<1>6. ASSUME NEW i \in 1 .. OutSize(r)
      PROVE  RunKernel(b, op).out[i] = Result(op.id, op.id)
  <2>1. i \in DOMAIN b.out
    BY <1>1, <1>2, <1>3
  <2>2. CellEntry(i, r) \in 1 .. r.sigs
    BY <1>1, CellOfCall
  <2> QED
    BY <1>4, <1>5, <2>1, <2>2
<1> QED
  BY <1>5, <1>6

(* What is left of a call comes after its oldest work. *)
LEMMA HeadFirst ==
  ASSUME PInv, QueueInv, NEW s \in Streams, stream[s] # <<>>,
         NEW op \in Ops, op = Head(stream[s])
  PROVE  /\ OwnWork(s, op)
         /\ \A k \in Kinds : Queued(op.by, k) => k = op.kind \/ k \in Later(op.kind)
<1>1. op = stream[s][1] /\ 1 \in 1 .. Len(stream[s])
  BY Typed
<1>2. OwnWork(s, op)
  BY <1>1 DEF QueueInv
<1>3. ASSUME NEW k \in Kinds, Queued(op.by, k), k # op.kind
      PROVE  k \in Later(op.kind)
  <2>1. PICK z \in Streams : \E i \in 1 .. Len(stream[z]) :
            stream[z][i].by = op.by /\ stream[z][i].kind = k
    BY <1>3 DEF Queued
  <2>2. PICK i \in 1 .. Len(stream[z]) : stream[z][i].by = op.by /\ stream[z][i].kind = k
    BY <2>1
  <2>3. z = s
    <3>1. OwnWork(z, stream[z][i])
      BY DEF QueueInv
    <3> QED
      BY <1>2, <2>2, <3>1 DEF OwnWork
  <2>4. 1 < i
    BY <1>1, <1>3, <2>2, <2>3
  <2> QED
    BY <1>1, <2>2, <2>3, <2>4 DEF QueueInv
<1> QED
  BY <1>2, <1>3

(* The oldest work of a stream is taken off: no other work goes, and what  *)
(* is left of its call comes later.                                        *)
LEMMA QueueTaken ==
  ASSUME PInv, QueueInv, NEW s \in Streams, Execute(s),
         NEW op \in Ops, op = Head(stream[s])
  PROVE  /\ QueueInv'
         /\ \A u \in Threads, k \in Kinds :
               Queued(u, k) => Queued(u, k)' \/ (u = op.by /\ k = op.kind)
         /\ \A k \in Kinds : Queued(op.by, k) => k = op.kind \/ k \in Later(op.kind)
         /\ OwnWork(s, op)
<1> USE Typed
<1>1. /\ stream[s] # <<>> /\ stream' = [stream EXCEPT ![s] = Tail(@)]
      /\ UNCHANGED <<pc, req, calls, ctx>>
  BY DEF Execute
<1>2. /\ stream[s] \in Seq(Ops) /\ op = stream[s][1] /\ Len(stream[s]) \in Nat
      /\ Len(stream[s]) > 0 /\ 1 \in 1 .. Len(stream[s])
  BY <1>1
<1>3. /\ Len(Tail(stream[s])) = Len(stream[s]) - 1
      /\ \A i \in 1 .. Len(stream[s]) - 1 : Tail(stream[s])[i] = stream[s][i + 1]
  BY <1>1, <1>2
<1>4. stream'[s] = Tail(stream[s]) /\ \A z \in Streams : z # s => stream'[z] = stream[z]
  BY <1>1
<1> DEFINE Shift(z) == IF z = s THEN 1 ELSE 0
<1>5. ASSUME NEW z \in Streams, NEW i \in 1 .. Len(stream'[z])
      PROVE  i + Shift(z) \in 1 .. Len(stream[z]) /\ stream'[z][i] = stream[z][i + Shift(z)]
  <2>1. CASE z = s
    BY <1>2, <1>3, <1>4, <1>5, <2>1, SMTT(30)
  <2>2. CASE z # s
    <3>1. stream'[z] = stream[z] /\ stream[z] \in Seq(Ops) /\ Len(stream[z]) \in Nat
      BY <1>4, <2>2
    <3> QED
      BY <1>5, <2>2, <3>1
  <2> QED
    BY <2>1, <2>2
<1>6. ASSUME NEW z \in Streams, NEW i \in 1 .. Len(stream'[z])
      PROVE  OwnWork(z, stream[z][i])'
  <2>1. OwnWork(z, stream[z][i + Shift(z)])
    BY <1>5 DEF QueueInv
  <2> QED
    BY <1>1, <1>5, <2>1 DEF OwnWork, Id, StreamOf, DefaultStream
<1>7. ASSUME NEW z \in Streams, NEW i \in 1 .. Len(stream'[z]), NEW j \in 1 .. Len(stream'[z]),
             i < j, stream'[z][j].by = stream'[z][i].by
      PROVE  stream'[z][j].kind \in Later(stream'[z][i].kind)
  <2>1. i + Shift(z) < j + Shift(z)
    BY <1>7
  <2>2. /\ i + Shift(z) \in 1 .. Len(stream[z]) /\ stream'[z][i] = stream[z][i + Shift(z)]
        /\ j + Shift(z) \in 1 .. Len(stream[z]) /\ stream'[z][j] = stream[z][j + Shift(z)]
    BY <1>5
  <2> HIDE DEF Shift
  <2> QED
    BY <1>7, <2>1, <2>2 DEF QueueInv
<1>8. QueueInv'
  BY <1>6, <1>7 DEF QueueInv
<1>9. ASSUME NEW z \in Streams, NEW i \in 1 .. Len(stream[z]), z # s \/ i # 1
      PROVE  \E j \in 1 .. Len(stream'[z]) : stream'[z][j] = stream[z][i]
  <2>1. CASE z = s
    <3>1. PICK j \in 1 .. Len(stream[s]) - 1 : i = j + 1
      <4>1. i - 1 \in 1 .. Len(stream[s]) - 1 /\ i = (i - 1) + 1
        BY <1>2, <1>9, <2>1
      <4> QED
        BY <4>1
    <3>2. j \in 1 .. Len(stream'[z]) /\ stream'[z][j] = stream[z][i]
      BY <1>3, <1>4, <2>1, <3>1
    <3> QED
      BY <3>2
  <2>2. CASE z # s
    BY <1>4, <2>2
  <2> QED
    BY <2>1, <2>2
<1>10. ASSUME NEW u \in Threads, NEW k \in Kinds, Queued(u, k)
       PROVE  Queued(u, k)' \/ (u = op.by /\ k = op.kind)
  <2>1. PICK z \in Streams : \E i \in 1 .. Len(stream[z]) :
            stream[z][i].by = u /\ stream[z][i].kind = k
    BY <1>10 DEF Queued
  <2>2. PICK i \in 1 .. Len(stream[z]) : stream[z][i].by = u /\ stream[z][i].kind = k
    BY <2>1
  <2>3. CASE z = s /\ i = 1
    BY <1>2, <2>2, <2>3
  <2>4. CASE z # s \/ i # 1
    BY <1>9, <2>2, <2>4 DEF Queued
  <2> QED
    BY <2>3, <2>4
<1> QED
  BY <1>1, <1>8, <1>10, HeadFirst

(* The device works for one call at a time; its copies and its kernel      *)
(* leave what the call relies on.                                          *)
LEMMA DeviceResults ==
  ASSUME PInv, QueueInv, DataInv, NEW s \in Streams, Execute(s)
  PROVE  QueueInv' /\ DataInv'
<1> USE Typed
<1>1. stream[s] # <<>> /\ UNCHANGED <<pc, req, calls, ctx>>
  BY DEF Execute
<1>2. PICK op \in Ops :
          /\ op = Head(stream[s]) /\ op.by \in Threads
          /\ pc[op.by] \in Working /\ op.ctx = ctx[op.by] /\ op.req = req[op.by]
  <2>1. /\ stream[s] \in Seq(Ops) /\ Head(stream[s]) = stream[s][1]
        /\ 1 \in 1 .. Len(stream[s])
    BY <1>1
  <2> QED
    BY <2>1, QueuedWork DEF Working
<1>3. PICK t \in Threads : t = op.by
  BY <1>2
<1>4. /\ QueueInv' /\ OwnWork(s, op)
      /\ \A u \in Threads, k \in Kinds : Queued(u, k) => Queued(u, k)' \/ (u = t /\ k = op.kind)
      /\ \A k \in Kinds : Queued(t, k) => k = op.kind \/ k \in Later(op.kind)
  BY <1>2, <1>3, QueueTaken
<1>5. PICK b \in Buffers : b = dev[ctx[t]]
  OBVIOUS
<1>6. /\ op.req.packets > 0 /\ Fits(b, op.req) /\ op.id = Id(t)
      /\ op.req = req[t] /\ op.ctx = ctx[t] /\ ctx[t] \in Ctxs /\ op.req \in Requests
      /\ pc[t] \in Working /\ (pc[t] = "launch" => op.kind = "in")
  BY <1>2, <1>3, <1>4, <1>5 DEF PInv, LockInv, SizeInv, SetupSuffices, Chosen, Holding,
                                OwnWork, Working
<1>7. /\ op.kind = "in" => dev' = [dev EXCEPT ![ctx[t]] = CopyIn(b, op)] /\ host' = host
      /\ op.kind = "kernel" => dev' = [dev EXCEPT ![ctx[t]] = RunKernel(b, op)] /\ host' = host
      /\ op.kind = "out" =>
             dev' = dev /\ host' = [host EXCEPT ![t] = SubSeq(b.out, 1, OutSize(op.req))]
  BY <1>2, <1>3, <1>5, <1>6 DEF Execute
<1>8. op.kind \in Kinds
  BY DEF Ops, Kinds
<1>9. ASSUME NEW u \in Threads, u # t
      PROVE  DataOf(u)'
  <2>1. host'[u] = host[u] /\ \A c \in Ctxs : c # ctx[t] => dev'[c] = dev[c]
    BY <1>6, <1>7, <1>8, <1>9 DEF Kinds
  <2>2. SameCall(u)
    BY <1>1, <2>1 DEF SameCall
  <2>3. \A k \in Kinds : Queued(u, k) => Queued(u, k)'
    BY <1>4, <1>9
  <2>4. pc[t] \in Holding
    BY <1>6 DEF Working, Holding
  <2> QED
    BY <1>9, <2>1, <2>2, <2>3, <2>4, OthersKept
<1>10. DataOf(t)'
  <2>1. /\ ~Queued(t, "in") => Holds(b, op.req, op.id)
        /\ pc[t] = "sync" /\ ~Queued(t, "kernel") =>
               \A i \in 1 .. OutSize(op.req) : b.out[i] = Result(op.id, op.id)
        /\ pc[t] = "sync" /\ ~Queued(t, "out") => Returned(t)
    BY <1>5, <1>6 DEF DataInv, DataOf, Copied, Computed, Holds
  <2>2. PICK d \in Buffers : d = dev'[ctx[t]]
    BY <1>6, DeviceStep DEF PInv, TypeOK
  <2>3. /\ Holds(d, op.req, op.id) => Copied(t)'
        /\ (\A i \in 1 .. OutSize(op.req) : d.out[i] = Result(op.id, op.id)) => Computed(t)'
        /\ Returned(t) /\ host'[t] = host[t] => Returned(t)'
    BY <1>1, <1>6, <2>2 DEF Copied, Computed, Holds, Returned, Id
  <2>4. CASE op.kind = "in"
    <3>1. d = CopyIn(b, op) /\ host'[t] = host[t]
      BY <1>6, <1>7, <2>2, <2>4
    <3>2. Holds(d, op.req, op.id) /\ d.out = b.out
      BY <1>6, <3>1, CopyInHolds
    <3>3. /\ Queued(t, "kernel") => Queued(t, "kernel")'
          /\ Queued(t, "out") => Queued(t, "out")'
      BY <1>4, <2>4 DEF Kinds
    <3> QED
      BY <1>1, <1>6, <2>1, <2>3, <3>1, <3>2, <3>3 DEF DataOf, Working
  <2>5. CASE op.kind = "kernel"
    <3>1. d = RunKernel(b, op) /\ host'[t] = host[t]
      BY <1>6, <1>7, <2>2, <2>5
    <3>2. ~Queued(t, "in")
      BY <1>4, <2>5 DEF Kinds, Later
    <3>3. /\ Holds(d, op.req, op.id)
          /\ \A i \in 1 .. OutSize(op.req) : d.out[i] = Result(op.id, op.id)
      BY <1>6, <2>1, <3>1, <3>2, KernelComputes DEF Holds
    <3>4. Queued(t, "out") => Queued(t, "out")'
      BY <1>4, <2>5 DEF Kinds
    <3> QED
      BY <1>1, <1>6, <2>1, <2>3, <3>1, <3>3, <3>4 DEF DataOf, Working
  <2>6. CASE op.kind = "out"
    <3>1. d = b /\ host'[t] = SubSeq(b.out, 1, OutSize(op.req)) /\ pc[t] = "sync"
      BY <1>5, <1>6, <1>7, <2>2, <2>6 DEF Working
    <3>2. ~Queued(t, "in") /\ ~Queued(t, "kernel")
      BY <1>4, <2>6 DEF Kinds, Later
    <3>3. /\ Holds(d, op.req, op.id)
          /\ \A i \in 1 .. OutSize(op.req) : d.out[i] = Result(op.id, op.id)
      BY <2>1, <3>1, <3>2
    <3>4. Returned(t)'
      <4>1. /\ OutSize(op.req) \in Nat /\ OutSize(op.req) <= Len(b.out)
            /\ Len(b.out) \in Nat /\ b.out \in Seq([sig : Ids, data : Ids])
        BY <1>6, RequestFacts, SeqIs DEF Fits, Buffers
      <4>2. SubSeq(b.out, 1, OutSize(op.req)) = [i \in 1 .. OutSize(op.req) |-> b.out[i]]
        <5> DEFINE f == b.out
                   n == OutSize(op.req)
                   T == [sig : Ids, data : Ids]
        <5>1. f \in Seq(T) /\ n \in Nat /\ n <= Len(f)
          BY <4>1
        <5> HIDE DEF f, n, T
        <5>2. SubSeq(f, 1, n) = [i \in 1 .. n |-> f[i]]
          BY <5>1
        <5> QED
          BY <5>2 DEF f, n
      <4>3. host'[t] = [i \in 1 .. OutSize(op.req) |-> Result(op.id, op.id)]
        BY <3>1, <3>3, <4>2
      <4> QED
        BY <1>1, <1>6, <4>3 DEF Returned, Id
    <3> QED
      BY <1>1, <1>6, <2>3, <3>3, <3>4 DEF DataOf, Working
  <2> QED
    BY <1>8, <2>4, <2>5, <2>6 DEF Kinds
<1> QED
  BY <1>4, <1>9, <1>10 DEF DataInv

-----------------------------------------------------------------------------
(* The last step, and the theorem.                                         *)
(* Freeing, and standing still. *)
LEMMA FinishResults ==
  ASSUME PInv, QueueInv, DataInv, FreeGpuMem \/ UNCHANGED vars
  PROVE  QueueInv' /\ DataInv'
<1>1. UNCHANGED <<dev, stream, pc, req, calls, host, ctx>>
  BY DEF FreeGpuMem, vars, devVars, callVars
<1>2. \A u \in Threads : SameCall(u)
  BY <1>1 DEF SameCall
<1> QED
  BY <1>1, <1>2, CallsKept

(* Every step keeps the order of the queues and what calls rely on. *)
LEMMA StepResults == PInv /\ QueueInv /\ DataInv /\ [Next]_vars => QueueInv' /\ DataInv'
<1> SUFFICES ASSUME PInv, QueueInv, DataInv, [Next]_vars
             PROVE  QueueInv' /\ DataInv'
  OBVIOUS
<1>1. CASE UNCHANGED vars
  BY <1>1, FinishResults
<1>2. ASSUME NEW t \in Threads, Begin(t)
      PROVE  QueueInv' /\ DataInv'
  BY <1>2, OffDeviceResults DEF Begin
<1>3. ASSUME NEW t \in Threads, Step(t)
      PROVE  QueueInv' /\ DataInv'
  <2>1. CASE LockGlobal(t) \/ SetUpPool(t) \/ InitReturns(t) \/ Pick(t) \/ NullContext(t)
                \/ LockCtx(t) \/ Release(t)
    BY <2>1, OffDeviceResults
  <2>2. CASE Setup(t)
    BY <2>2, SetupResults
  <2>3. CASE Launch(t)
    BY <2>3, LaunchResults
  <2>4. CASE Synchronize(t)
    BY <2>4, SynchronizeResults
  <2> QED
    BY <1>3, <2>1, <2>2, <2>3, <2>4 DEF Step
<1>4. ASSUME NEW s \in Streams, Device(s)
      PROVE  QueueInv' /\ DataInv'
  BY <1>4, DeviceResults DEF Device
<1>5. CASE Finish
  BY <1>5, FinishResults DEF Finish
<1> QED
  BY <1>1, <1>2, <1>3, <1>4, <1>5 DEF Next, Over

(* The streams keep their order, and work that is done left its data. *)
THEOREM QueueInvariance == Spec => [](QueueInv /\ DataInv)
<1>1. Init => QueueInv /\ DataInv
  <2> SUFFICES ASSUME Init
               PROVE  QueueInv /\ DataInv
    OBVIOUS
  <2>1. /\ \A s \in Streams : Len(stream[s]) = 0
        /\ \A t \in Threads : pc[t] = "idle"
    BY DEF Init
  <2>2. QueueInv
    BY <2>1 DEF QueueInv
  <2>3. DataInv
    BY <2>1 DEF DataInv, DataOf, Working
  <2> QED
    BY <2>2, <2>3
<1> QED
  BY <1>1, StepResults, PoolInvariance, PTL DEF Spec

(* A call returns the results of its own packets and signatures, whatever  *)
(* other threads call and whatever its context served before.              *)
THEOREM ResultsBelongToTheCall == Spec => []ResultsAreOwn
<1>1. DataInv => ResultsAreOwn
  BY DEF DataInv, DataOf, Returned, ResultsAreOwn
<1> QED
  BY <1>1, QueueInvariance, PTL

-----------------------------------------------------------------------------
(***************************************************************************)
(* A kernel stays inside its buffers and reads only what some call wrote,  *)
(* for any number of threads, contexts and batch sizes, as long as calls   *)
(* only verify (as main.cu's do): the verify kernel is told the length of  *)
(* the offset arrays, not of the call, and so also serves entries that     *)
(* earlier, larger calls left.                                             *)
(*                                                                         *)
(* Signing and verifying on one context may leave out smaller than the     *)
(* offset arrays, because out_size_bytes counts signatures; without        *)
(* signing the two are equally long.                                       *)
(***************************************************************************)
VerifyOnly == \A r \in Requests : r.op = "verify"

(* Behind the first n packets and m entries everything was written, and an *)
(* entry points to a packet.                                               *)
Written(b, n, m) ==
    /\ \A i \in 1 .. Len(b.packets) : i > n => b.packets[i] # Nobody
    /\ \A i \in 1 .. Len(b.offs) : i > m =>
          b.offs[i].id # Nobody /\ b.offs[i].slot \in 1 .. Len(b.packets)

SameLengths(b) == Len(b.out) = Len(b.offs) /\ b.outRec = Len(b.out)

(* A context is written all over, or a copy in will see to it.             *)
CopyComes(c) ==
    \E t \in Threads :
        ctx[t] = c /\ Queued(t, "in") /\ Written(dev[c], req[t].packets, req[t].sigs)
WrittenInv ==
    \A c \in Ctxs : SameLengths(dev[c]) /\ (Written(dev[c], 0, 0) \/ CopyComes(c))

(* Work belongs to a holder. *)
LEMMA QueuedHolds ==
  ASSUME PInv, NEW t, NEW k, Queued(t, k)
  PROVE  t \in Threads /\ pc[t] \in Working /\ pc[t] \in Holding
  BY QueuedWork DEF Queued, Working, Holding

(* What is written from the start is written from anywhere on. *)
LEMMA WrittenFrom ==
  ASSUME NEW b \in Buffers, NEW n \in Nat, NEW m \in Nat, Written(b, 0, 0)
  PROVE  Written(b, n, m)
<1>1. Len(b.packets) \in Nat /\ Len(b.offs) \in Nat
  BY SeqIs DEF Buffers
<1> QED
  BY <1>1 DEF Written

(* setup_gpu_ctx leaves old entries and packets where they were, or new    *)
(* buffers of the call's size; out and the entries grow together.          *)
LEMMA GrownWritten ==
  ASSUME VerifyOnly, NEW b \in Buffers, NEW r \in Requests,
         Written(b, 0, 0), SameLengths(b)
  PROVE  Written(Grown(b, r), r.packets, r.sigs) /\ SameLengths(Grown(b, r))
<1>1. /\ r.packets \in Nat /\ r.sigs \in Nat /\ r.sigs > 0 /\ OutSize(r) = r.sigs
  BY RequestFacts DEF VerifyOnly, OutSize, Cells
<1>2. /\ Len(b.packets) \in Nat /\ Len(b.offs) \in Nat /\ Len(b.out) \in Nat
      /\ b.out = <<>> => Len(b.out) = 0
  BY SeqIs DEF Buffers
<1> DEFINE P == Grown(b, r).packets
           O == Grown(b, r).offs
<1>3. /\ P = IF Len(b.packets) < r.packets THEN Fresh(r.packets) ELSE b.packets
      /\ O = IF Len(b.offs) < r.sigs THEN FreshEntries(r.sigs) ELSE b.offs
      /\ Grown(b, r).out = IF NeedsOut(b, r) THEN FreshResults(OutSize(r)) ELSE b.out
      /\ Grown(b, r).outRec = IF NeedsOut(b, r) THEN r.sigs ELSE b.outRec
  BY DEF Grown, GrowPackets, GrowOffs
<1>4. NeedsOut(b, r) <=> Len(b.offs) < r.sigs
  BY <1>1, <1>2 DEF NeedsOut, SameLengths
<1>5. /\ Len(Fresh(r.packets)) = r.packets /\ Len(FreshEntries(r.sigs)) = r.sigs
      /\ Len(FreshResults(r.sigs)) = r.sigs
  BY <1>1 DEF Fresh, FreshEntries, FreshResults
<1> HIDE DEF P, O
<1>6. SameLengths(Grown(b, r))
  BY <1>1, <1>3, <1>4, <1>5 DEF SameLengths, O
<1>7. Len(b.packets) <= Len(P) /\ Len(P) \in Nat
  BY <1>1, <1>2, <1>3, <1>5
<1>8. ASSUME NEW i \in 1 .. Len(P), i > r.packets
      PROVE  P[i] # Nobody
  <2>1. P = b.packets /\ i \in 1 .. Len(b.packets) /\ i > 0
    BY <1>1, <1>2, <1>3, <1>5, <1>8
  <2> QED
    BY <2>1 DEF Written
<1>9. ASSUME NEW i \in 1 .. Len(O), i > r.sigs
      PROVE  O[i].id # Nobody /\ O[i].slot \in 1 .. Len(P)
  <2>1. O = b.offs /\ i \in 1 .. Len(b.offs) /\ i > 0
    BY <1>1, <1>2, <1>3, <1>5, <1>9
  <2>2. b.offs[i].id # Nobody /\ b.offs[i].slot \in 1 .. Len(b.packets)
    BY <2>1 DEF Written
  <2> QED
    BY <1>2, <1>7, <2>1, <2>2
<1> QED
  BY <1>6, <1>8, <1>9 DEF Written, P, O

(* The copy in writes what was still to be written.                        *)
LEMMA CopyInWritten ==
  ASSUME NEW b \in Buffers, NEW op \in Ops, op.req.packets > 0, Fits(b, op.req),
         op.id # Nobody, Written(b, op.req.packets, op.req.sigs)
  PROVE  Written(CopyIn(b, op), 0, 0)
<1> DEFINE d == CopyIn(b, op)
           n == op.req.packets
           m == op.req.sigs
<1>1. n \in Nat \ {0} /\ m \in Nat
  BY RequestFacts DEF Ops
<1>2. /\ Len(b.packets) \in Nat /\ DOMAIN b.packets = 1 .. Len(b.packets)
      /\ Len(b.offs) \in Nat /\ DOMAIN b.offs = 1 .. Len(b.offs)
      /\ n <= Len(b.packets) /\ m <= Len(b.offs)
  BY SeqIs DEF Buffers, Fits
<1>3. /\ d.packets = [i \in DOMAIN b.packets |-> IF i <= n THEN op.id ELSE b.packets[i]]
      /\ d.offs = [i \in DOMAIN b.offs |->
                      IF i <= m THEN Entry(op.id, SlotOf(i, n)) ELSE b.offs[i]]
  BY DEF CopyIn
<1>4. Len(d.packets) = Len(b.packets) /\ Len(d.offs) = Len(b.offs)
  BY CopyInSizes DEF SameSizes
<1> HIDE DEF d
<1>5. ASSUME NEW i \in 1 .. Len(b.packets)
      PROVE  d.packets[i] # Nobody
  <2>1. i <= n \/ i > n
    BY <1>1
  <2> QED
    BY <1>2, <1>3, <2>1 DEF Written
<1>6. ASSUME NEW i \in 1 .. Len(b.offs)
      PROVE  d.offs[i].id # Nobody /\ d.offs[i].slot \in 1 .. Len(b.packets)
  <2>1. CASE i <= m
    <3>1. SlotOf(i, n) \in 1 .. n
      <4>1. i \in Nat \ {0}
        BY <1>2
      <4> QED
        BY <1>1, <4>1, SlotOfCall
    <3>2. SlotOf(i, n) \in 1 .. Len(b.packets)
      BY <1>1, <1>2, <3>1
    <3>3. d.offs[i] = Entry(op.id, SlotOf(i, n))
      BY <1>2, <1>3, <2>1
    <3> QED
      BY <3>2, <3>3 DEF Entry
  <2>2. CASE i > m
    <3>1. d.offs[i] = b.offs[i]
      BY <1>1, <1>2, <1>3, <2>2
    <3> QED
      BY <2>2, <3>1 DEF Written
  <2> QED
    BY <1>1, <2>1, <2>2
<1> QED
  BY <1>4, <1>5, <1>6 DEF Written, d

-----------------------------------------------------------------------------
(* A copy in still comes if its call goes on as it was. *)
LEMMA CopyKept ==
  ASSUME NEW t \in Threads, NEW c, ctx[t] = c, Queued(t, "in"), Queued(t, "in")',
         Written(dev[c], req[t].packets, req[t].sigs),
         ctx'[t] = ctx[t], req'[t] = req[t], dev'[c] = dev[c]
  PROVE  CopyComes(c)'
  BY DEF CopyComes, Written

(* A step that leaves a context's buffers alone and every copy queued.     *)
LEMMA ContextKept ==
  ASSUME PInv, NEW c \in Ctxs, dev'[c] = dev[c],
         SameLengths(dev[c]) /\ (Written(dev[c], 0, 0) \/ CopyComes(c)),
         \A t \in Threads : Queued(t, "in") /\ ctx[t] = c =>
             Queued(t, "in")' /\ ctx'[t] = ctx[t] /\ req'[t] = req[t]
  PROVE  (SameLengths(dev[c]) /\ (Written(dev[c], 0, 0) \/ CopyComes(c)))'
<1>1. SameLengths(dev[c])'
  BY DEF SameLengths
<1>2. CASE Written(dev[c], 0, 0)
  BY <1>1, <1>2 DEF Written
<1>3. CASE CopyComes(c)
  <2>1. PICK t \in Threads : /\ ctx[t] = c /\ Queued(t, "in")
                             /\ Written(dev[c], req[t].packets, req[t].sigs)
    BY <1>3 DEF CopyComes
  <2>2. CopyComes(c)'
    BY <2>1, CopyKept
  <2> QED
    BY <1>1, <2>2
<1> QED
  BY <1>2, <1>3

(* Steps off the device. *)
LEMMA OffDeviceWritten ==
  ASSUME PInv, WrittenInv, UNCHANGED <<dev, stream>>,
         \A u \in Threads : pc[u] \in Working => ctx'[u] = ctx[u] /\ req'[u] = req[u]
  PROVE  WrittenInv'
<1>1. \A t \in Threads : Queued(t, "in") =>
          Queued(t, "in")' /\ ctx'[t] = ctx[t] /\ req'[t] = req[t]
  BY QueuedHolds DEF Queued
<1> QED
  BY <1>1, ContextKept DEF WrittenInv

(* setup_gpu_ctx grows buffers that nobody else uses, and queues the copy. *)
LEMMA SetupWritten ==
  ASSUME VerifyOnly, PInv, QueueInv, WrittenInv, NEW t \in Threads, Setup(t)
  PROVE  WrittenInv'
<1> USE SetupQueues
<1>1. ctx[t] \in Ctxs /\ dev[ctx[t]] \in Buffers /\ req[t] \in Requests
  BY Typed
<1>2. Written(dev[ctx[t]], 0, 0)
  <2> SUFFICES ASSUME CopyComes(ctx[t])
               PROVE  FALSE
    BY <1>1 DEF WrittenInv
  <2>1. PICK u \in Threads : ctx[u] = ctx[t] /\ Queued(u, "in")
    BY DEF CopyComes
  <2>2. u # t /\ pc[u] \in Holding /\ pc[t] \in Holding
    BY <2>1, QueuedHolds DEF Kinds, Holding
  <2> QED
    BY <2>1, <2>2, HoldersApart
<1>3. dev'[ctx[t]] = Grown(dev[ctx[t]], req[t])
  BY <1>1, Typed
<1>4. PICK b \in Buffers : b = Grown(dev[ctx[t]], req[t])
  BY <1>1, GrownFits DEF PInv, SizeInv
<1>5. Written(b, req[t].packets, req[t].sigs) /\ SameLengths(b)
  BY <1>1, <1>2, <1>4, GrownWritten DEF WrittenInv
<1>6. ASSUME NEW c \in Ctxs, c = ctx[t]
      PROVE  SameLengths(dev[c])' /\ CopyComes(c)'
  <2>1. dev'[c] = b /\ ctx'[t] = c /\ req'[t] = req[t] /\ Queued(t, "in")'
    BY <1>3, <1>4, <1>6
  <2>2. SameLengths(dev[c])'
    BY <1>5, <2>1 DEF SameLengths
  <2>3. Written(dev'[c], req'[t].packets, req'[t].sigs)
    BY <1>5, <2>1
  <2>4. CopyComes(c)'
    BY <2>1, <2>3 DEF CopyComes, Written
  <2> QED
    BY <2>2, <2>4
<1>7. ASSUME NEW c \in Ctxs, c # ctx[t]
      PROVE  (SameLengths(dev[c]) /\ (Written(dev[c], 0, 0) \/ CopyComes(c)))'
  <2>1. dev'[c] = dev[c]
    BY <1>7, Typed
  <2>2. \A u \in Threads : Queued(u, "in") => Queued(u, "in")'
    BY DEF Kinds
  <2> QED
    BY <1>7, <2>1, <2>2, ContextKept DEF WrittenInv
<1> QED
  BY <1>6, <1>7 DEF WrittenInv

(* The launch leaves the buffers alone. *)
LEMMA LaunchWritten ==
  ASSUME PInv, QueueInv, WrittenInv, NEW t \in Threads, Launch(t)
  PROVE  WrittenInv'
<1>1. /\ \A u \in Threads : Queued(u, "in") => Queued(u, "in")'
      /\ UNCHANGED <<dev, req, ctx>>
  BY LaunchQueues DEF Kinds
<1> QED
  BY <1>1, ContextKept DEF WrittenInv

(* The device: the copy in that was to come, or a kernel or copy out that  *)
(* writes neither packets nor entries.                                     *)
LEMMA DeviceWritten ==
  ASSUME PInv, QueueInv, WrittenInv, NEW s \in Streams, Execute(s)
  PROVE  WrittenInv'
<1> USE Typed
<1>1. stream[s] # <<>> /\ UNCHANGED <<pc, req, calls, ctx>>
  BY DEF Execute
<1>2. PICK op \in Ops :
          /\ op = Head(stream[s]) /\ op.by \in Threads
          /\ pc[op.by] \in Working /\ op.ctx = ctx[op.by] /\ op.req = req[op.by]
  <2>1. /\ stream[s] \in Seq(Ops) /\ Head(stream[s]) = stream[s][1]
        /\ 1 \in 1 .. Len(stream[s])
    BY <1>1
  <2> QED
    BY <2>1, QueuedWork DEF Working
<1>3. PICK t \in Threads : t = op.by
  BY <1>2
<1>4. /\ op.id = Id(t)
      /\ \A u \in Threads : Queued(u, "in") => Queued(u, "in")' \/ (u = t /\ op.kind = "in")
  BY <1>2, <1>3, QueueTaken DEF OwnWork, Kinds
<1>5. PICK b \in Buffers : b = dev[ctx[t]]
  OBVIOUS
<1>6. /\ op.req.packets > 0 /\ Fits(b, op.req) /\ op.id # Nobody
      /\ op.req = req[t] /\ op.ctx = ctx[t] /\ ctx[t] \in Ctxs /\ pc[t] \in Holding
  <2>1. op.id # Nobody
    <3>1. t # NoThread
      BY PoolAssumption
    <3> QED
      BY <1>4, <3>1 DEF Id, Nobody
  <2>2. op.req = req[t] /\ op.ctx = ctx[t] /\ ctx[t] \in Ctxs /\ pc[t] \in Holding
    BY <1>2, <1>3 DEF Working, Holding
  <2>3. op.req.packets > 0 /\ Fits(b, op.req)
    BY <1>2, <1>3, <1>5 DEF PInv, LockInv, SizeInv, SetupSuffices, Chosen, Holding, Working
  <2> QED
    BY <2>1, <2>2, <2>3
<1>7. /\ op.kind = "in" => dev' = [dev EXCEPT ![ctx[t]] = CopyIn(b, op)]
      /\ op.kind = "kernel" => dev' = [dev EXCEPT ![ctx[t]] = RunKernel(b, op)]
      /\ op.kind = "out" => dev' = dev
  BY <1>2, <1>3, <1>5, <1>6 DEF Execute
<1>8. op.kind \in {"in", "kernel", "out"}
  BY DEF Ops
<1>9. ASSUME NEW c \in Ctxs, c # ctx[t]
      PROVE  (SameLengths(dev[c]) /\ (Written(dev[c], 0, 0) \/ CopyComes(c)))'
  <2>1. dev'[c] = dev[c]
    BY <1>7, <1>8, <1>9
  <2>2. \A u \in Threads : Queued(u, "in") /\ ctx[u] = c => Queued(u, "in")'
    BY <1>4, <1>9
  <2> QED
    BY <1>1, <2>1, <2>2, ContextKept DEF WrittenInv
<1>10. ASSUME NEW c \in Ctxs, c = ctx[t]
       PROVE  (SameLengths(dev[c]) /\ (Written(dev[c], 0, 0) \/ CopyComes(c)))'
  <2>1. SameLengths(b) /\ (Written(b, 0, 0) \/ CopyComes(c))
    BY <1>5, <1>10 DEF WrittenInv
  <2>2. CASE op.kind = "in"
    <3>1. Written(b, op.req.packets, op.req.sigs)
      <4>1. CASE Written(b, 0, 0)
        <5>1. op.req.packets \in Nat /\ op.req.sigs \in Nat
          BY RequestFacts DEF Ops
        <5> QED
          BY <4>1, <5>1, WrittenFrom
      <4>2. CASE CopyComes(c)
        <5>1. PICK u \in Threads : /\ ctx[u] = c /\ Queued(u, "in")
                                   /\ Written(b, req[u].packets, req[u].sigs)
          BY <1>5, <1>10, <4>2 DEF CopyComes
        <5>2. u = t
          BY <1>6, <1>10, <5>1, QueuedHolds, HoldersApart
        <5> QED
          BY <1>6, <5>1, <5>2
      <4> QED
        BY <2>1, <4>1, <4>2
    <3>2. PICK d \in Buffers : d = CopyIn(b, op) /\ SameSizes(d, b)
      BY <1>6, CopyInSizes DEF SameSizes
    <3>3. Written(d, 0, 0) /\ SameLengths(d)
      BY <1>6, <2>1, <3>1, <3>2, CopyInWritten DEF SameLengths, SameSizes
    <3>4. dev'[c] = d
      BY <1>7, <1>10, <2>2, <3>2
    <3> QED
      BY <3>3, <3>4 DEF Written, SameLengths
  <2>3. CASE op.kind = "kernel"
    <3>1. PICK d \in Buffers : d = RunKernel(b, op) /\ SameSizes(d, b)
      BY RunKernelSizes DEF SameSizes
    <3>2. d.packets = b.packets /\ d.offs = b.offs /\ SameLengths(d)
      BY <2>1, <3>1 DEF RunKernel, SameLengths, SameSizes
    <3>3. dev'[c] = d
      BY <1>7, <1>10, <2>3, <3>1
    <3>4. CASE Written(b, 0, 0)
      BY <3>2, <3>3, <3>4 DEF Written, SameLengths
    <3>5. CASE CopyComes(c)
      <4>1. PICK u \in Threads : /\ ctx[u] = c /\ Queued(u, "in")
                                 /\ Written(b, req[u].packets, req[u].sigs)
        BY <1>5, <1>10, <3>5 DEF CopyComes
      <4>2. Queued(u, "in")' /\ ctx'[u] = c /\ req'[u] = req[u]
        BY <1>1, <1>4, <2>3, <4>1
      <4>3. Written(dev'[c], req'[u].packets, req'[u].sigs)
        BY <3>2, <3>3, <4>1, <4>2 DEF Written
      <4>4. CopyComes(c)'
        BY <4>2, <4>3 DEF CopyComes, Written
      <4>5. SameLengths(dev[c])'
        BY <3>2, <3>3 DEF SameLengths
      <4> QED
        BY <4>4, <4>5
    <3> QED
      BY <2>1, <3>4, <3>5
  <2>4. CASE op.kind = "out"
    <3>1. dev'[c] = dev[c]
      BY <1>7, <2>4
    <3>2. \A u \in Threads : Queued(u, "in") => Queued(u, "in")'
      BY <1>4, <2>4
    <3> QED
      BY <1>1, <3>1, <3>2, ContextKept DEF WrittenInv
  <2> QED
    BY <1>8, <2>2, <2>3, <2>4
<1> QED
  BY <1>9, <1>10 DEF WrittenInv

(* Every step keeps it. *)
LEMMA StepWritten ==
  ASSUME VerifyOnly
  PROVE  PInv /\ QueueInv /\ WrittenInv /\ [Next]_vars => WrittenInv'
<1> SUFFICES ASSUME PInv, QueueInv, WrittenInv, [Next]_vars
             PROVE  WrittenInv'
  OBVIOUS
<1> USE Typed
<1>1. ASSUME UNCHANGED <<dev, stream, req, ctx>>
      PROVE  WrittenInv'
  BY <1>1, OffDeviceWritten
<1>2. CASE UNCHANGED vars
  BY <1>1, <1>2 DEF vars, devVars, callVars
<1>3. ASSUME NEW t \in Threads, UNCHANGED <<dev, stream>>, pc[t] \notin Working,
             \A u \in Threads \ {t} : ctx'[u] = ctx[u] /\ req'[u] = req[u]
      PROVE  WrittenInv'
  BY <1>3, OffDeviceWritten
<1>4. ASSUME NEW t \in Threads, Begin(t)
      PROVE  WrittenInv'
  <2>1. /\ UNCHANGED <<dev, stream, ctx>> /\ pc[t] = "idle"
        /\ \A u \in Threads \ {t} : req'[u] = req[u]
    BY <1>4 DEF Begin, Call, CallInit, devVars
  <2> QED
    BY <1>3, <2>1 DEF Working
<1>5. ASSUME NEW t \in Threads, Step(t)
      PROVE  WrittenInv'
  <2>1. CASE LockGlobal(t) \/ SetUpPool(t) \/ InitReturns(t) \/ NullContext(t) \/ LockCtx(t)
                \/ Synchronize(t) \/ Release(t)
    BY <1>1, <2>1 DEF LockGlobal, SetUpPool, InitReturns, NullContext, LockCtx, Synchronize,
                      Release, devVars, callVars
  <2>2. CASE Pick(t)
    <3>1. /\ UNCHANGED <<dev, stream, req>> /\ pc[t] = "pick"
          /\ \A u \in Threads \ {t} : ctx'[u] = ctx[u]
      BY <2>2 DEF Pick, devVars, callVars
    <3> QED
      BY <1>3, <3>1 DEF Working
  <2>3. CASE Setup(t)
    BY <2>3, SetupWritten
  <2>4. CASE Launch(t)
    BY <2>4, LaunchWritten
  <2> QED
    BY <1>5, <2>1, <2>2, <2>3, <2>4 DEF Step
<1>6. ASSUME NEW s \in Streams, Device(s)
      PROVE  WrittenInv'
  BY <1>6, DeviceWritten DEF Device
<1>7. CASE Finish
  BY <1>1, <1>7 DEF Finish, FreeGpuMem, devVars, callVars
<1> QED
  BY <1>2, <1>4, <1>5, <1>6, <1>7 DEF Next, Over

(* A kernel at the head of its stream finds its context written: its own   *)
(* copy in is done, and nobody else's comes.                               *)
LEMMA KernelReads ==
  ASSUME VerifyOnly, PInv, QueueInv, WrittenInv,
         NEW s \in Streams, stream[s] # <<>>, Head(stream[s]).kind = "kernel"
  PROVE  InBounds(dev[Head(stream[s]).ctx], Head(stream[s]).req)
<1> USE Typed
<1>1. PICK op \in Ops :
          /\ op = Head(stream[s]) /\ op.by \in Threads
          /\ pc[op.by] \in Working /\ op.ctx = ctx[op.by] /\ op.req = req[op.by]
  <2>1. /\ stream[s] \in Seq(Ops) /\ Head(stream[s]) = stream[s][1]
        /\ 1 \in 1 .. Len(stream[s])
    OBVIOUS
  <2> QED
    BY <2>1, QueuedWork DEF Working
<1>2. ~Queued(op.by, "in")
  BY <1>1, HeadFirst DEF Kinds, Later
<1>3. op.ctx \in Ctxs /\ op.req \in Requests /\ op.kind = "kernel"
  BY <1>1
<1>4. PICK b \in Buffers : b = dev[op.ctx]
  BY <1>3
<1>5. Written(b, 0, 0) /\ SameLengths(b)
  <2>1. ~CopyComes(op.ctx)
    <3> SUFFICES ASSUME NEW u \in Threads, ctx[u] = op.ctx, Queued(u, "in")
                 PROVE  FALSE
      BY DEF CopyComes
    <3>1. u = op.by
      BY <1>1, QueuedHolds, HoldersApart DEF Working, Holding
    <3> QED
      BY <1>2, <3>1
  <2> QED
    BY <1>3, <1>4, <2>1 DEF WrittenInv
<1>6. /\ Len(b.packets) \in Nat /\ DOMAIN b.packets = 1 .. Len(b.packets)
      /\ Len(b.offs) \in Nat /\ DOMAIN b.offs = 1 .. Len(b.offs)
      /\ Len(b.out) = Len(b.offs)
  BY <1>5, SeqIs DEF Buffers, SameLengths
<1>7. op.req.op = "verify" /\ Cells(op.req) = 1 /\ op.req.sigs \in Nat
  BY <1>3, RequestFacts DEF VerifyOnly, Cells
<1>8. ASSUME NEW e \in Served(b, op.req)
      PROVE  /\ e \in DOMAIN b.offs
             /\ b.offs[e].id # Nobody
             /\ b.offs[e].slot \in DOMAIN b.packets
             /\ b.packets[b.offs[e].slot] # Nobody
             /\ Cells(op.req) * e <= Len(b.out)
  <2>1. e \in 1 .. RoundUp(op.req.sigs) /\ e <= Len(b.offs)
    BY <1>7 DEF Served
  <2>2. e \in 1 .. Len(b.offs) /\ e > 0
    BY <1>6, <1>7, <2>1, BlocksCover
  <2>3. b.offs[e].id # Nobody /\ b.offs[e].slot \in 1 .. Len(b.packets)
    BY <1>5, <2>2 DEF Written
  <2>4. b.packets[b.offs[e].slot] # Nobody
    BY <1>5, <2>3 DEF Written
  <2>5. Cells(op.req) * e = e
    BY <1>7, <2>2
  <2> QED
    BY <1>6, <2>2, <2>3, <2>4, <2>5
<1> QED
  BY <1>1, <1>4, <1>8 DEF InBounds

(* While calls only verify, kernels stay inside their buffers and read     *)
(* only what some call wrote.                                              *)
THEOREM VerifyingStaysInBounds ==
  ASSUME VerifyOnly
  PROVE  Spec => []KernelInBounds
<1>1. Init => WrittenInv
  <2> SUFFICES ASSUME Init, NEW c \in Ctxs
               PROVE  SameLengths(dev[c]) /\ Written(dev[c], 0, 0)
    BY DEF WrittenInv
  <2>1. /\ dev[c].packets = <<>> /\ dev[c].offs = <<>> /\ dev[c].out = <<>>
        /\ dev[c].outRec = 0
    BY DEF Init, NoBuffers
  <2> QED
    BY <2>1 DEF SameLengths, Written
<1>2. PInv /\ QueueInv /\ WrittenInv => KernelInBounds
  BY KernelReads DEF KernelInBounds
<1>3. PInv /\ QueueInv /\ WrittenInv /\ [Next]_vars => WrittenInv'
  BY StepWritten
<1> QED
  BY <1>1, <1>2, <1>3, QueueInvariance, PoolInvariance, PTL DEF Spec

-----------------------------------------------------------------------------
(***************************************************************************)
(* The round robin of get_gpu_ctx is fair to the contexts, for any number  *)
(* of GPUs and queues: the GPUs before curGpu are one turn ahead of those  *)
(* from curGpu on, and on a GPU the queues before curQueue are one pick    *)
(* ahead of the others.                                                    *)
(***************************************************************************)
(* How often a GPU's queues were all picked. *)
LastQueue == MaxQueues - 1
Lap(g) == picks[<<g, LastQueue>>]

(* A GPU's queues, the picked ones of this lap first. *)
RowInv(g) ==
    \A q \in 0 .. LastQueue :
        picks[<<g, q>>] = Lap(g) + IF q < curQueue[g] THEN 1 ELSE 0

(* GPUs with as many turns, and GPUs one turn apart. *)
Level(g, h) == Lap(g) = Lap(h) /\ curQueue[g] = curQueue[h]
Ahead(g, h) ==
    IF curQueue[h] = LastQueue
    THEN Lap(g) = Lap(h) + 1 /\ curQueue[g] = 0
    ELSE Lap(g) = Lap(h) /\ curQueue[g] = curQueue[h] + 1

BalanceInv ==
    /\ total <= 0 => /\ \A c \in Ctxs : picks[c] = 0
                     /\ \A g \in 0 .. MaxGpus - 1 : curQueue[g] = 0
    /\ total > 0 => \A g, h \in 0 .. total - 1 :
          /\ RowInv(g)
          /\ g < h => IF g < curGpu /\ curGpu <= h THEN Ahead(g, h) ELSE Level(g, h)

(* The next of n things in turn. *)
LEMMA NextInTurn ==
  ASSUME NEW n \in Nat \ {0}, NEW i \in 0 .. n - 1
  PROVE  /\ (i + 1) % n = IF i = n - 1 THEN 0 ELSE i + 1
         /\ (i + 1) % n \in 0 .. n - 1
<1>1. CASE i = n - 1
  <2>1. n % n = 0
    OBVIOUS
  <2> QED
    BY <1>1, <2>1
<1>2. CASE i # n - 1
  <2>1. i + 1 \in 0 .. n - 1
    BY <1>2
  <2>2. \A k \in 0 .. n - 1 : k % n = k
    OBVIOUS
  <2> QED
    BY <1>2, <2>1, <2>2
<1> QED
  BY <1>1, <1>2

(* A GPU in use is one of those there may be. *)
LEMMA GpuInUse ==
  ASSUME NEW n \in Int, NEW m \in Int, n <= m, NEW g \in 0 .. n - 1
  PROVE  g \in 0 .. m - 1 /\ ~(g < 0)
  OBVIOUS

(* The GPUs in use are at most MAX_NUM_GPUS. *)
LEMMA TotalInt ==
  ASSUME PInv
  PROVE  total \in Int /\ MaxGpus \in Int /\ total <= MaxGpus
<1>1. total \in -1 .. MaxGpus /\ MaxGpus \in Int
  BY Typed, PoolAssumption
<1> QED
  BY <1>1

(* One pick moves one queue of one GPU. *)
LEMMA PickMoves ==
  ASSUME PInv, NEW t \in Threads, Pick(t)
  PROVE  /\ total > 0 /\ total' = total /\ total \in 1 .. MaxGpus
         /\ curGpu \in 0 .. total - 1
         /\ curGpu' = IF curGpu = total - 1 THEN 0 ELSE curGpu + 1
         /\ curQueue' \in [0 .. MaxGpus - 1 -> 0 .. LastQueue]
         /\ curQueue'[curGpu] =
                IF curQueue[curGpu] = LastQueue THEN 0 ELSE curQueue[curGpu] + 1
         /\ \A g \in 0 .. MaxGpus - 1 : g # curGpu => curQueue'[g] = curQueue[g]
         /\ picks' \in [Ctxs -> Nat]
         /\ picks'[<<curGpu, curQueue[curGpu]>>] = picks[<<curGpu, curQueue[curGpu]>>] + 1
         /\ \A c \in Ctxs : c # <<curGpu, curQueue[curGpu]>> => picks'[c] = picks[c]
<1> USE Typed
<1>1. /\ total > 0 /\ total' = total
      /\ picks' = [picks EXCEPT ![<<curGpu, curQueue[curGpu]>>] = @ + 1]
      /\ curGpu' = (curGpu + 1) % total
      /\ curQueue' = [curQueue EXCEPT ![curGpu] = (@ + 1) % MaxQueues]
  BY DEF Pick, NextGpu, NextQueues
<1>2. total \in 1 .. MaxGpus /\ curGpu \in 0 .. total - 1
  <2>1. curGpu < total
    BY <1>1 DEF PInv, PoolInv
  <2>2. curGpu \in 0 .. MaxGpus - 1 /\ total > 0
    BY <1>1
  <2> QED
    BY ONLY <2>1, <2>2, TotalInt, PInv
<1>3. curGpu \in 0 .. MaxGpus - 1 /\ curQueue[curGpu] \in 0 .. MaxQueues - 1
  OBVIOUS
<1>4. curGpu' = IF curGpu = total - 1 THEN 0 ELSE curGpu + 1
  <2>1. total \in Nat \ {0}
    BY <1>2, PoolAssumption
  <2> QED
    BY <1>1, <1>2, <2>1, NextInTurn
<1>5. (curQueue[curGpu] + 1) % MaxQueues =
          IF curQueue[curGpu] = MaxQueues - 1 THEN 0 ELSE curQueue[curGpu] + 1
  BY <1>3, NextInTurn, PoolAssumption
<1>6. (curQueue[curGpu] + 1) % MaxQueues \in 0 .. MaxQueues - 1
  BY <1>3, NextInTurn, PoolAssumption
<1>7. /\ curQueue' \in [0 .. MaxGpus - 1 -> 0 .. MaxQueues - 1]
      /\ curQueue'[curGpu] = (curQueue[curGpu] + 1) % MaxQueues
      /\ \A g \in 0 .. MaxGpus - 1 : g # curGpu => curQueue'[g] = curQueue[g]
  BY <1>1, <1>3, <1>6
<1>8. <<curGpu, curQueue[curGpu]>> \in Ctxs
  BY <1>3 DEF Ctxs
<1>9. /\ picks' \in [Ctxs -> Nat]
      /\ picks'[<<curGpu, curQueue[curGpu]>>] = picks[<<curGpu, curQueue[curGpu]>>] + 1
      /\ \A c \in Ctxs : c # <<curGpu, curQueue[curGpu]>> => picks'[c] = picks[c]
  BY <1>1, <1>8
<1> QED
  BY <1>1, <1>2, <1>4, <1>5, <1>7, <1>9 DEF LastQueue

(* A GPU that is not picked keeps its row. *)
LEMMA OthersKeepRows ==
  ASSUME PInv, NEW t \in Threads, Pick(t),
         NEW g \in 0 .. total - 1, g # curGpu, RowInv(g)
  PROVE  RowInv(g)' /\ Lap(g)' = Lap(g) /\ curQueue'[g] = curQueue[g]
<1> USE PickMoves
<1>1. g \in 0 .. MaxGpus - 1 /\ curQueue'[g] = curQueue[g]
  <2>1. g \in 0 .. MaxGpus - 1
    BY TotalInt, GpuInUse
  <2> QED
    BY <2>1
<1>2. \A q \in 0 .. LastQueue : picks'[<<g, q>>] = picks[<<g, q>>]
  <2>1. \A q \in 0 .. LastQueue : <<g, q>> \in Ctxs /\ <<g, q>> # <<curGpu, curQueue[curGpu]>>
    BY <1>1 DEF Ctxs, LastQueue
  <2> QED
    BY <2>1
<1>3. LastQueue \in 0 .. LastQueue
  BY PoolAssumption DEF LastQueue
<1> QED
  BY <1>1, <1>2, <1>3 DEF RowInv, Lap, LastQueue

(* The picked one gets a turn more. *)
LEMMA PickedRow ==
  ASSUME PInv, NEW t \in Threads, Pick(t), NEW g, g = curGpu, RowInv(g)
  PROVE  /\ RowInv(g)'
         /\ IF curQueue[g] = LastQueue
            THEN Lap(g)' = Lap(g) + 1 /\ curQueue'[g] = 0
            ELSE Lap(g)' = Lap(g) /\ curQueue'[g] = curQueue[g] + 1
<1> USE PickMoves
<1> DEFINE k == curQueue[g]
<1>1. g \in 0 .. MaxGpus - 1 /\ k \in 0 .. LastQueue /\ LastQueue \in 0 .. LastQueue
  BY Typed, PoolAssumption DEF LastQueue
<1>2. \A q \in 0 .. LastQueue : <<g, q>> \in Ctxs /\ picks[<<g, q>>] \in Nat
  BY <1>1, Typed DEF Ctxs, LastQueue
<1>3. \A q \in 0 .. LastQueue :
          picks'[<<g, q>>] = picks[<<g, q>>] + IF q = k THEN 1 ELSE 0
  <2> TAKE q \in 0 .. LastQueue
  <2>1. CASE q = k
    BY <2>1
  <2>2. CASE q # k
    <3>1. <<g, q>> # <<curGpu, curQueue[curGpu]>>
      BY <2>2
    <3> QED
      BY <1>2, <2>2, <3>1
  <2> QED
    BY <2>1, <2>2
<1>4. \A q \in 0 .. LastQueue : picks[<<g, q>>] = Lap(g) + IF q < k THEN 1 ELSE 0
  BY DEF RowInv
<1>5. Lap(g) \in Nat
  BY <1>1, <1>2 DEF Lap
<1>6. curQueue'[g] = IF k = LastQueue THEN 0 ELSE k + 1
  OBVIOUS
<1>7. picks'[<<g, LastQueue>>] = Lap(g) + IF k = LastQueue THEN 1 ELSE 0
  BY <1>1, <1>3 DEF Lap
<1> HIDE DEF k
<1>8. \A q \in 0 .. LastQueue :
          picks'[<<g, q>>] = picks'[<<g, LastQueue>>]
                                 + IF q < curQueue'[g] THEN 1 ELSE 0
  <2> TAKE q \in 0 .. LastQueue
  <2>1. picks'[<<g, q>>] = Lap(g) + (IF q < k THEN 1 ELSE 0) + IF q = k THEN 1 ELSE 0
    BY <1>3, <1>4
  <2>2. LastQueue \in Nat /\ q \in 0 .. LastQueue /\ k \in 0 .. LastQueue
    BY <1>1, PoolAssumption DEF LastQueue
  <2>3. CASE k = LastQueue
    BY <2>1, <2>2, <2>3, <1>5, <1>6, <1>7
  <2>4. CASE k # LastQueue
    BY <2>1, <2>2, <2>4, <1>5, <1>6, <1>7
  <2> QED
    BY <2>3, <2>4
<1>9. RowInv(g)'
  BY <1>8 DEF RowInv, Lap, LastQueue
<1>10. CASE k = LastQueue
  <2>1. Lap(g)' = Lap(g) + 1 /\ curQueue'[g] = 0
    BY <1>6, <1>7, <1>10 DEF Lap, LastQueue
  <2> QED
    BY <1>9, <1>10, <2>1 DEF k
<1>11. CASE k # LastQueue
  <2>1. Lap(g)' = Lap(g) /\ curQueue'[g] = k + 1
    BY <1>5, <1>6, <1>7, <1>11 DEF Lap, LastQueue
  <2> QED
    BY <1>9, <1>11, <2>1 DEF k
<1> QED
  BY <1>10, <1>11

(* A pick keeps the GPUs level, or a turn apart. *)
LEMMA PickBalances ==
  ASSUME PInv, BalanceInv, NEW t \in Threads, Pick(t)
  PROVE  BalanceInv'
<1> USE PickMoves
<1>1. \A g \in 0 .. total - 1 : RowInv(g)
  BY DEF BalanceInv
<1>2. \A g \in 0 .. total - 1 : g # curGpu =>
          RowInv(g)' /\ Lap(g)' = Lap(g) /\ curQueue'[g] = curQueue[g]
  BY <1>1, OthersKeepRows
<1>3. \A g \in 0 .. total - 1 : g = curGpu =>
          /\ RowInv(g)'
          /\ IF curQueue[g] = LastQueue
             THEN Lap(g)' = Lap(g) + 1 /\ curQueue'[g] = 0
             ELSE Lap(g)' = Lap(g) /\ curQueue'[g] = curQueue[g] + 1
  BY <1>1, PickedRow
<1>4. \A g \in 0 .. total - 1 : RowInv(g)'
  BY <1>2, <1>3
<1>5. ASSUME NEW g \in 0 .. total - 1, NEW h \in 0 .. total - 1, g < h
      PROVE  IF g < curGpu' /\ curGpu' <= h THEN Ahead(g, h)' ELSE Level(g, h)'
  <2>1. IF g < curGpu /\ curGpu <= h THEN Ahead(g, h) ELSE Level(g, h)
    BY <1>5 DEF BalanceInv
  <2>2. /\ g \in Nat /\ h \in Nat /\ curGpu \in Nat /\ total \in Nat
        /\ g < total /\ h < total /\ curGpu < total
    BY PoolAssumption
  <2>3. /\ Lap(g) \in Nat /\ Lap(h) \in Nat
        /\ curQueue[g] \in 0 .. LastQueue /\ curQueue[h] \in 0 .. LastQueue
        /\ LastQueue \in Nat
    <3>1. g \in 0 .. MaxGpus - 1 /\ h \in 0 .. MaxGpus - 1
      BY PoolAssumption
    <3>2. <<g, LastQueue>> \in Ctxs /\ <<h, LastQueue>> \in Ctxs
      BY <3>1, PoolAssumption DEF Ctxs, LastQueue
    <3> QED
      BY <3>1, <3>2, Typed, PoolAssumption DEF Lap, LastQueue
  <2>4. CASE g = curGpu
    <3>1. g < curGpu' /\ curGpu' <= h
      BY <1>5, <2>2, <2>4
    <3>2. Lap(h)' = Lap(h) /\ curQueue'[h] = curQueue[h] /\ Level(g, h)
      BY <1>2, <1>5, <2>1, <2>2, <2>4
    <3>3. Ahead(g, h)'
      BY <1>3, <2>3, <2>4, <3>2 DEF Ahead, Level, LastQueue
    <3> QED
      BY <3>1, <3>3
  <2>5. CASE h = curGpu
    <3>1. ~(g < curGpu' /\ curGpu' <= h)
      BY <1>5, <2>2, <2>5
    <3>2. Lap(g)' = Lap(g) /\ curQueue'[g] = curQueue[g] /\ Ahead(g, h)
      BY <1>2, <1>5, <2>1, <2>2, <2>5
    <3>3. Level(g, h)'
      BY <1>3, <2>3, <2>5, <3>2 DEF Ahead, Level, LastQueue
    <3> QED
      BY <3>1, <3>3
  <2>6. CASE g # curGpu /\ h # curGpu
    <3>1. (g < curGpu' /\ curGpu' <= h) <=> (g < curGpu /\ curGpu <= h)
      BY <1>5, <2>2, <2>6
    <3>2. /\ Lap(g)' = Lap(g) /\ curQueue'[g] = curQueue[g]
          /\ Lap(h)' = Lap(h) /\ curQueue'[h] = curQueue[h]
      BY <1>2, <2>6
    <3>3. (Ahead(g, h)' <=> Ahead(g, h)) /\ (Level(g, h)' <=> Level(g, h))
      BY <3>2 DEF Ahead, Level, LastQueue
    <3> QED
      BY <2>1, <3>1, <3>3
  <2> QED
    BY <2>4, <2>5, <2>6
<1> QED
  BY <1>4, <1>5 DEF BalanceInv

(* Before the pool is set up nothing was picked: its GPUs start level. *)
LEMMA SetUpBalances ==
  ASSUME PInv, BalanceInv, NEW t \in Threads, SetUpPool(t)
  PROVE  BalanceInv'
<1> USE Typed
<1>1. /\ total = -1 /\ curGpu = 0 /\ UNCHANGED <<curGpu, curQueue, picks>>
      /\ \A c \in Ctxs : picks[c] = 0
      /\ \A g \in 0 .. MaxGpus - 1 : curQueue[g] = 0
  BY DEF SetUpPool, Uninitialised, PInv, PoolInv, BalanceInv
<1>2. total' \in Int /\ MaxGpus \in Int /\ total' <= MaxGpus
  <2>1. total' \in -1 .. MaxGpus
    BY SetUpStep DEF PInv, TypeOK
  <2> QED
    BY <2>1, PoolAssumption
<1>3. ASSUME NEW g \in 0 .. total' - 1, NEW h \in 0 .. total' - 1
      PROVE  RowInv(g)' /\ ~(g < curGpu') /\ Level(g, h)'
  <2>1. g \in 0 .. MaxGpus - 1 /\ h \in 0 .. MaxGpus - 1 /\ ~(g < 0)
    BY <1>2, GpuInUse
  <2>2. \A q \in 0 .. LastQueue : <<g, q>> \in Ctxs /\ <<h, q>> \in Ctxs
    BY <2>1 DEF Ctxs, LastQueue
  <2>3. LastQueue \in 0 .. LastQueue
    BY PoolAssumption DEF LastQueue
  <2>4. Lap(g)' = 0 /\ Lap(h)' = 0 /\ curQueue'[g] = 0 /\ curQueue'[h] = 0
    <3>1. picks[<<g, LastQueue>>] = 0 /\ picks[<<h, LastQueue>>] = 0
      BY <1>1, <2>2, <2>3
    <3>2. curQueue[g] = 0 /\ curQueue[h] = 0
      BY <1>1, <2>1
    <3>3. picks' = picks /\ curQueue' = curQueue
      BY <1>1
    <3>4. Lap(g)' = 0 /\ Lap(h)' = 0
      BY <3>1, <3>3 DEF Lap, LastQueue
    <3> QED
      BY <3>2, <3>3, <3>4
  <2>5. \A q \in 0 .. LastQueue : picks'[<<g, q>>] = 0 /\ ~(q < 0)
    <3>1. \A q \in 0 .. LastQueue : ~(q < 0)
      OBVIOUS
    <3>2. \A q \in 0 .. LastQueue : picks'[<<g, q>>] = 0
      BY <1>1, <2>2
    <3> QED
      BY <3>1, <3>2
  <2> QED
    BY <1>1, <2>1, <2>4, <2>5 DEF RowInv, Level, LastQueue
<1>4. (total <= 0 => /\ \A c \in Ctxs : picks[c] = 0
                    /\ \A g \in 0 .. MaxGpus - 1 : curQueue[g] = 0)'
  BY <1>1
<1> QED
  BY <1>3, <1>4 DEF BalanceInv

(* Every other step leaves the round robin alone. *)
LEMMA StepBalances == PInv /\ BalanceInv /\ [Next]_vars => BalanceInv'
<1> SUFFICES ASSUME PInv, BalanceInv, [Next]_vars
             PROVE  BalanceInv'
  OBVIOUS
<1>1. ASSUME UNCHANGED <<total, curGpu, curQueue, picks>>
      PROVE  BalanceInv'
  BY <1>1 DEF BalanceInv, RowInv, Ahead, Level, Lap, LastQueue
<1>2. CASE UNCHANGED vars
  BY <1>1, <1>2 DEF vars, poolVars
<1>3. ASSUME NEW t \in Threads, Begin(t)
      PROVE  BalanceInv'
  BY <1>1, <1>3 DEF Begin, Call, CallInit, poolVars
<1>4. ASSUME NEW t \in Threads, Step(t)
      PROVE  BalanceInv'
  <2>1. CASE LockGlobal(t) \/ InitReturns(t) \/ NullContext(t) \/ LockCtx(t) \/ Setup(t)
                \/ Launch(t) \/ Synchronize(t) \/ Release(t)
    BY <1>1, <2>1 DEF LockGlobal, InitReturns, NullContext, LockCtx, Setup, Launch,
                      Synchronize, Release, poolVars
  <2>2. CASE SetUpPool(t)
    BY <2>2, SetUpBalances
  <2>3. CASE Pick(t)
    BY <2>3, PickBalances
  <2> QED
    BY <1>4, <2>1, <2>2, <2>3 DEF Step
<1>5. ASSUME NEW s \in Streams, Device(s)
      PROVE  BalanceInv'
  BY <1>1, <1>5 DEF Device, Execute, poolVars
<1>6. CASE Finish
  BY <1>1, <1>6 DEF Finish, FreeGpuMem, poolVars
<1> QED
  BY <1>2, <1>3, <1>4, <1>5, <1>6 DEF Next, Over

(* What a context was picked lies between its GPU's lap and one more, and  *)
(* the laps of two GPUs are at most one turn apart.                        *)
LEMMA TurnsApart ==
  ASSUME PInv, BalanceInv, total > 0, NEW c \in UsableGpus(total), NEW d \in UsableGpus(total)
  PROVE  picks[c] <= picks[d] + 1
<1> DEFINE g == c[1]
           h == d[1]
<1>1. /\ g \in 0 .. total - 1 /\ h \in 0 .. total - 1
      /\ c[2] \in 0 .. LastQueue /\ d[2] \in 0 .. LastQueue
      /\ c = <<g, c[2]>> /\ d = <<h, d[2]>>
      /\ g \in 0 .. MaxGpus - 1 /\ h \in 0 .. MaxGpus - 1
  <2>1. c \in Ctxs /\ d \in Ctxs /\ g < total /\ h < total
    BY DEF UsableGpus
  <2> HIDE DEF g, h
  <2>2. /\ g \in 0 .. MaxGpus - 1 /\ h \in 0 .. MaxGpus - 1
        /\ c[2] \in 0 .. MaxQueues - 1 /\ d[2] \in 0 .. MaxQueues - 1
        /\ c = <<g, c[2]>> /\ d = <<h, d[2]>>
    BY <2>1 DEF Ctxs, g, h
  <2>3. g \in 0 .. total - 1 /\ h \in 0 .. total - 1
    BY <2>1, <2>2, TotalInt
  <2> QED
    BY <2>2, <2>3 DEF LastQueue
<1>2. /\ picks[c] = Lap(g) + IF c[2] < curQueue[g] THEN 1 ELSE 0
      /\ picks[d] = Lap(h) + IF d[2] < curQueue[h] THEN 1 ELSE 0
  BY <1>1 DEF BalanceInv, RowInv
<1>3. Lap(g) \in Nat /\ Lap(h) \in Nat /\ LastQueue \in Nat
      /\ curQueue[g] \in 0 .. LastQueue /\ curQueue[h] \in 0 .. LastQueue
  <2> HIDE DEF g, h
  <2>1. <<g, LastQueue>> \in Ctxs /\ <<h, LastQueue>> \in Ctxs
    BY <1>1, PoolAssumption DEF Ctxs, LastQueue
  <2>2. Lap(g) \in Nat /\ Lap(h) \in Nat
    BY <2>1, Typed DEF Lap
  <2>3. curQueue[g] \in 0 .. MaxQueues - 1 /\ curQueue[h] \in 0 .. MaxQueues - 1
    BY <1>1, Typed
  <2> QED
    BY <2>2, <2>3, PoolAssumption DEF LastQueue
<1>4. g = h \/ Level(g, h) \/ Ahead(g, h) \/ Level(h, g) \/ Ahead(h, g)
  <2> HIDE DEF g, h
  <2>1. g < h \/ h < g \/ g = h
    BY <1>1
  <2> QED
    BY <1>1, <2>1 DEF BalanceInv
<1>5. c[2] \in Nat /\ d[2] \in Nat
  BY <1>1
<1> HIDE DEF g, h
<1>6. CASE g = h \/ Level(g, h) \/ Level(h, g)
  BY <1>2, <1>3, <1>5, <1>6 DEF Level
<1>7. CASE Ahead(g, h)
  BY <1>1, <1>2, <1>3, <1>5, <1>7 DEF Ahead
<1>8. CASE Ahead(h, g)
  BY <1>1, <1>2, <1>3, <1>5, <1>8 DEF Ahead
<1> QED
  BY <1>4, <1>6, <1>7, <1>8

(* The round robin spreads the calls evenly over all contexts, for every   *)
(* number of GPUs, queues and threads.                                     *)
THEOREM CallsSpread == Spec => []Balanced
<1>1. Init => BalanceInv
  <2> SUFFICES ASSUME Init
               PROVE  BalanceInv
    OBVIOUS
  <2>1. total = -1 /\ (\A c \in Ctxs : picks[c] = 0)
            /\ (\A g \in 0 .. MaxGpus - 1 : curQueue[g] = 0)
    BY DEF Init
  <2> QED
    BY <2>1 DEF BalanceInv
<1>2. PInv /\ BalanceInv => Balanced
  BY TurnsApart DEF Balanced
<1> QED
  BY <1>1, <1>2, StepBalances, PoolInvariance, PTL DEF Spec
=============================================================================
