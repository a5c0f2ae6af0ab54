----------------------------- MODULE GpuCtxPool -----------------------------
(***************************************************************************)
(* The pool of GPU contexts behind ed25519_verify_many and                 *)
(* ed25519_sign_many (gpu_ctx.cu, verify.cu, sign.cu).  Threads take a     *)
(* context round robin, grow its device buffers when a call needs more,    *)
(* queue copies and a kernel on a stream, wait for the stream and give the *)
(* context back.  Buffers keep what earlier calls left in them.            *)
(*                                                                         *)
(* Data is who wrote it: a packet, an offset and a result carry the call   *)
(* they belong to.  A CUDA error aborts the process (CUDA_CHK) and is left *)
(* out.                                                                    *)
(***************************************************************************)
EXTENDS Integers, Sequences, FiniteSets

CONSTANTS
    Threads,        \* callers
    NoThread,       \* the owner of a free mutex
    MaxGpus,        \* MAX_NUM_GPUS
    MaxQueues,      \* MAX_QUEUE_SIZE
    Devices,        \* what cudaGetDeviceCount may find
    Requests,       \* the calls threads make
    BlockSize,      \* threads per block (64)
    SigSize,        \* SIG_SIZE: result cells of a signature (a verdict is one)
    MaxCalls        \* bound: calls of one thread

ASSUME PoolAssumption ==
    /\ NoThread \notin Threads
    /\ MaxGpus \in Nat \ {0} /\ MaxQueues \in Nat \ {0}
    /\ Devices \subseteq Nat
    /\ Requests \subseteq [op : {"verify", "sign"}, packets : Nat, sigs : Nat \ {0},
                           own : BOOLEAN]
    /\ BlockSize \in Nat \ {0} /\ SigSize \in Nat \ {0}
    /\ MaxCalls \in Nat

VARIABLES
    total,      \* g_total_gpus; -1 before cuda_crypt_init_locked
    curGpu,     \* g_cur_gpu
    curQueue,   \* g_cur_queue
    gmutex,     \* who holds g_ctx_mutex
    owner,      \* owner[c]: who holds the context's mutex
    ready,      \* the contexts whose mutex and stream were created
    dev,        \* dev[c]: the device buffers of the context
    stream,     \* stream[s]: the work queued on a stream, oldest first
    heap,       \* heap[c]: buffers cudaMalloc'ed for the context, not yet freed
    pc,         \* pc[t]: where t is in its call
    req,        \* req[t]: the call's arguments
    calls,      \* calls[t]: calls made; <<t, calls[t]>> names the last
    ctx,        \* ctx[t]: the context get_gpu_ctx chose
    host,       \* host[t]: the caller's out array
    answers,    \* what ed25519_init has returned so far
    picks,      \* picks[c]: times get_gpu_ctx chose c
    life        \* of the process: up, crashed (NULL context) or freed

poolVars == <<total, curGpu, curQueue, ready, picks>>
devVars == <<dev, stream, heap>>
callVars == <<req, calls, host>>
vars == <<poolVars, gmutex, owner, devVars, pc, callVars, ctx, answers, life>>

-----------------------------------------------------------------------------
Ctxs == (0 .. MaxGpus - 1) \X (0 .. MaxQueues - 1)

(* Stream 0 of a GPU stands beside the streams of its contexts. *)
DefaultStream(c) == <<c[1], MaxQueues>>
Streams == (0 .. MaxGpus - 1) \X (0 .. MaxQueues)

(* What a device buffer holds: nothing yet, or data of a call. *)
Id(t) == <<t, calls[t]>>
Nobody == <<NoThread, 0>>
Fresh(n) == [i \in 1 .. n |-> Nobody]

(* An entry of the offset arrays: its call and the packet it points into.  *)
Entry(id, slot) == [id |-> id, slot |-> slot]
FreshEntries(n) == [i \in 1 .. n |-> Entry(Nobody, 1)]
SlotOf(i, packets) == ((i - 1) % packets) + 1

(* A result: the call whose offsets, and whose packet, it was made from.   *)
Result(entry, data) == [sig |-> entry, data |-> data]
FreshResults(n) == [i \in 1 .. n |-> Result(Nobody, Nobody)]

(* NULL buffers are empty: a context starts with none. *)
NoBuffers == [packets |-> <<>>, offs |-> <<>>, out |-> <<>>, outRec |-> 0]

Cells(r) == IF r.op = "sign" THEN SigSize ELSE 1
OutSize(r) == Cells(r) * r.sigs
StreamOf(t) == IF req[t].own THEN ctx[t] ELSE DefaultStream(ctx[t])

Init ==
    /\ total = -1
    /\ curGpu = 0
    /\ curQueue = [g \in 0 .. MaxGpus - 1 |-> 0]
    /\ gmutex = NoThread
    /\ owner = [c \in Ctxs |-> NoThread]
    /\ ready = {}
    /\ dev = [c \in Ctxs |-> NoBuffers]
    /\ stream = [s \in Streams |-> <<>>]
    /\ heap = [c \in Ctxs |-> 0]
    /\ pc = [t \in Threads |-> "idle"]
    /\ req \in [Threads -> Requests]
    /\ calls = [t \in Threads |-> 0]
    /\ ctx = [t \in Threads |-> <<0, 0>>]
    /\ host = [t \in Threads |-> <<>>]
    /\ answers = {}
    /\ picks = [c \in Ctxs |-> 0]
    /\ life = "up"

-----------------------------------------------------------------------------
GotoPc(t, l) == pc' = [pc EXCEPT ![t] = l]

(* A call of verify_many or sign_many; one without packets returns.        *)
Call(t) ==
    /\ pc[t] = "idle" /\ calls[t] < MaxCalls
    /\ \E r \in Requests :
          /\ req' = [req EXCEPT ![t] = r]
          /\ GotoPc(t, IF r.packets = 0 THEN "idle" ELSE "lock")
    /\ calls' = [calls EXCEPT ![t] = @ + 1]
    /\ host' = [host EXCEPT ![t] = <<>>]
    /\ UNCHANGED <<poolVars, gmutex, owner, devVars, ctx, answers, life>>

(* A call of ed25519_init. *)
CallInit(t) ==
    /\ pc[t] = "idle" /\ calls[t] < MaxCalls
    /\ GotoPc(t, "initlock")
    /\ calls' = [calls EXCEPT ![t] = @ + 1]
    /\ UNCHANGED <<poolVars, gmutex, owner, devVars, req, host, ctx, answers, life>>

LockGlobal(t) ==
    /\ pc[t] \in {"lock", "initlock"}
    /\ gmutex = NoThread
    /\ gmutex' = t
    /\ GotoPc(t, IF pc[t] = "lock" THEN "pick" ELSE "init")
    /\ UNCHANGED <<poolVars, owner, devVars, callVars, ctx, answers, life>>

(* cuda_crypt_init_locked: the first caller creates the contexts in order; *)
(* a pthread_mutex_init that fails gives the pool up for good.             *)
Before(c, d) == c[1] < d[1] \/ (c[1] = d[1] /\ c[2] < d[2])
UsableGpus(n) == {c \in Ctxs : c[1] < n}

(* Variants: any pool that is not usable is set up again; a failed set-up  *)
(* leaves g_total_gpus at the number of devices.                           *)
UninitialisedRetry == total <= 0
Uninitialised == total = -1

GiveUpLater(n) == total' = n
GiveUp(n) == total' = 0

SetUpPool(t) ==
    /\ pc[t] \in {"pick", "init"}
    /\ Uninitialised
    /\ \E d \in Devices :
          LET n == IF d < MaxGpus THEN d ELSE MaxGpus IN
          \/ total' = n /\ ready' = UsableGpus(n)
          \/ \E c \in UsableGpus(n) :
                /\ GiveUp(n)
                /\ ready' = {e \in UsableGpus(n) : Before(e, c)}
    /\ UNCHANGED <<curGpu, curQueue, picks, gmutex, owner, devVars, pc, callVars, ctx,
                   answers, life>>

(* ed25519_init returns whether there is a pool (the variant unlocks only  *)
(* if there is one).                                                       *)
InitReturnsLocked(t) ==
    /\ pc[t] = "init"
    /\ total # -1
    /\ answers' = answers \cup {total > 0}
    /\ gmutex' = IF total > 0 THEN NoThread ELSE t
    /\ GotoPc(t, "idle")
    /\ UNCHANGED <<poolVars, owner, devVars, callVars, ctx, life>>

InitReturns(t) ==
    /\ pc[t] = "init"
    /\ total # -1
    /\ answers' = answers \cup {total > 0}
    /\ gmutex' = NoThread
    /\ GotoPc(t, "idle")
    /\ UNCHANGED <<poolVars, owner, devVars, callVars, ctx, life>>

(* get_gpu_ctx: the next GPU, and that GPU's next queue.  Variants: the    *)
(* GPU is not wrapped round; every GPU's queue is moved on.                *)
NextGpuPast(g) == g + 1
NextGpu(g) == (g + 1) % total

NextQueuesAll(g) == [h \in DOMAIN curQueue |-> (curQueue[h] + 1) % MaxQueues]
NextQueues(g) == [curQueue EXCEPT ![g] = (@ + 1) % MaxQueues]

Pick(t) ==
    /\ pc[t] = "pick"
    /\ total > 0
    /\ LET c == <<curGpu, curQueue[curGpu]>> IN
          /\ ctx' = [ctx EXCEPT ![t] = c]
          /\ picks' = [picks EXCEPT ![c] = @ + 1]
    /\ curGpu' = NextGpu(curGpu)
    /\ curQueue' = NextQueues(curGpu)
    /\ gmutex' = NoThread
    /\ GotoPc(t, "acquire")
    /\ UNCHANGED <<total, ready, owner, devVars, callVars, answers, life>>

(* ... or NULL, which the callers dereference. *)
NullContext(t) ==
    /\ pc[t] = "pick"
    /\ total = 0
    /\ gmutex' = NoThread
    /\ life' = "crashed"
    /\ UNCHANGED <<poolVars, owner, devVars, pc, callVars, ctx, answers>>

(* Variant: the context's mutex is not taken. *)
LockCtxFree(t) ==
    /\ pc[t] = "acquire"
    /\ owner' = [owner EXCEPT ![ctx[t]] = t]
    /\ GotoPc(t, "setup")
    /\ UNCHANGED <<poolVars, gmutex, devVars, callVars, ctx, answers, life>>

LockCtx(t) ==
    /\ pc[t] = "acquire"
    /\ owner[ctx[t]] = NoThread
    /\ owner' = [owner EXCEPT ![ctx[t]] = t]
    /\ GotoPc(t, "setup")
    /\ UNCHANGED <<poolVars, gmutex, devVars, callVars, ctx, answers, life>>

-----------------------------------------------------------------------------
(* setup_gpu_ctx: grow what is too small.  packets_size_bytes and          *)
(* offsets_len are their buffers' sizes; out_size_bytes is set to the      *)
(* number of signatures.  (Variants: an existing buffer is never grown.)   *)
GrowPackets(b, r) == IF Len(b.packets) < r.packets THEN Fresh(r.packets) ELSE b.packets

GrowOffsNull(b, r) == IF b.offs = <<>> THEN FreshEntries(r.sigs) ELSE b.offs
GrowOffs(b, r) == IF Len(b.offs) < r.sigs THEN FreshEntries(r.sigs) ELSE b.offs

NeedsOutNull(b, r) == b.out = <<>>
NeedsOut(b, r) == b.out = <<>> \/ b.outRec < OutSize(r)

Grown(b, r) ==
    [packets |-> GrowPackets(b, r),
     offs    |-> GrowOffs(b, r),
     out     |-> IF NeedsOut(b, r) THEN FreshResults(OutSize(r)) ELSE b.out,
     outRec  |-> IF NeedsOut(b, r) THEN r.sigs ELSE b.outRec]

(* How many of the six buffers exist. *)
Live(b) == (IF b.packets = <<>> THEN 0 ELSE 1) + (IF b.out = <<>> THEN 0 ELSE 1)
               + (IF b.offs = <<>> THEN 0 ELSE 4)

(* What growing allocates, and frees before; cudaFree(NULL) frees nothing  *)
(* (the variant leaks the packets).                                        *)
Count(test, n) == IF test THEN n ELSE 0
Allocated(b, r) ==
    Count(Len(b.packets) < r.packets, 1) + Count(NeedsOut(b, r), 1) + Count(Len(b.offs) < r.sigs, 4)
ReplacedLeaky(b, r) ==
    Count(NeedsOut(b, r) /\ b.out # <<>>, 1) + Count(Len(b.offs) < r.sigs /\ b.offs # <<>>, 4)
Replaced(b, r) ==
    Count(Len(b.packets) < r.packets /\ b.packets # <<>>, 1)
      + Count(NeedsOut(b, r) /\ b.out # <<>>, 1) + Count(Len(b.offs) < r.sigs /\ b.offs # <<>>, 4)

Op(t, kind) == [kind |-> kind, id |-> Id(t), by |-> t, ctx |-> ctx[t], req |-> req[t]]

Setup(t) ==
    /\ pc[t] = "setup"
    /\ dev' = [dev EXCEPT ![ctx[t]] = Grown(@, req[t])]
    /\ heap' = [heap EXCEPT ![ctx[t]] =
                   @ + Allocated(dev[ctx[t]], req[t]) - Replaced(dev[ctx[t]], req[t])]
    /\ stream' = [stream EXCEPT ![StreamOf(t)] = Append(@, Op(t, "in"))]
    /\ GotoPc(t, "launch")
    /\ UNCHANGED <<poolVars, gmutex, owner, callVars, ctx, answers, life>>

(* The kernel and the copy of its results. *)
Launch(t) ==
    /\ pc[t] = "launch"
    /\ stream' = [stream EXCEPT ![StreamOf(t)] = @ \o <<Op(t, "kernel"), Op(t, "out")>>]
    /\ GotoPc(t, "sync")
    /\ UNCHANGED <<poolVars, gmutex, owner, dev, heap, callVars, ctx, answers, life>>

(* cudaStreamSynchronize (the variant does not wait). *)
QueuedBy(t) == {s \in Streams : \E i \in DOMAIN stream[s] : stream[s][i].by = t}
SynchronizeNot(t) ==
    /\ pc[t] = "sync"
    /\ GotoPc(t, "release")
    /\ UNCHANGED <<poolVars, gmutex, owner, devVars, callVars, ctx, answers, life>>

Synchronize(t) ==
    /\ pc[t] = "sync"
    /\ QueuedBy(t) = {}
    /\ GotoPc(t, "release")
    /\ UNCHANGED <<poolVars, gmutex, owner, devVars, callVars, ctx, answers, life>>

(* release_gpu_ctx. *)
Release(t) ==
    /\ pc[t] = "release"
    /\ owner' = [owner EXCEPT ![ctx[t]] = NoThread]
    /\ GotoPc(t, "idle")
    /\ UNCHANGED <<poolVars, gmutex, devVars, callVars, ctx, answers, life>>

-----------------------------------------------------------------------------
(* The device takes the oldest work of a stream.                           *)
CopyIn(b, op) ==
    [packets |-> [i \in DOMAIN b.packets |->
                     IF i <= op.req.packets THEN op.id ELSE b.packets[i]],
     offs    |-> [i \in DOMAIN b.offs |->
                     IF i <= op.req.sigs THEN Entry(op.id, SlotOf(i, op.req.packets))
                     ELSE b.offs[i]],
     out     |-> b.out,
     outRec  |-> b.outRec]

(* The verify kernel is told offsets_len, not the call's signatures: its   *)
(* last block also serves entries that earlier calls left.                 *)
RoundUp(n) == ((n + BlockSize - 1) \div BlockSize) * BlockSize
Served(b, r) ==
    IF r.op = "sign" THEN 1 .. r.sigs
    ELSE {i \in 1 .. RoundUp(r.sigs) : i <= Len(b.offs)}

At(s, i, none) == IF i \in DOMAIN s THEN s[i] ELSE none

(* The cell i of out belongs to entry CellEntry; cells past the end of out *)
(* are not ours to describe.                                               *)
CellEntry(i, r) == ((i - 1) \div Cells(r)) + 1

ResultOf(b, e) ==
    LET entry == At(b.offs, e, Entry(Nobody, 1)) IN
    Result(entry.id, At(b.packets, entry.slot, Nobody))

RunKernel(b, op) ==
    [packets |-> b.packets,
     offs    |-> b.offs,
     out     |-> [i \in DOMAIN b.out |->
                     LET e == CellEntry(i, op.req) IN
                     IF e \in Served(b, op.req) THEN ResultOf(b, e) ELSE b.out[i]],
     outRec  |-> b.outRec]

Execute(s) ==
    /\ stream[s] # <<>>
    /\ stream' = [stream EXCEPT ![s] = Tail(@)]
    /\ LET op == Head(stream[s]) IN
          \/ /\ op.kind = "in"
             /\ dev' = [dev EXCEPT ![op.ctx] = CopyIn(@, op)]
             /\ UNCHANGED host
          \/ /\ op.kind = "kernel"
             /\ dev' = [dev EXCEPT ![op.ctx] = RunKernel(@, op)]
             /\ UNCHANGED host
          \/ /\ op.kind = "out"
             /\ host' = [host EXCEPT ![op.by] = SubSeq(dev[op.ctx].out, 1, OutSize(op.req))]
             /\ UNCHANGED dev
    /\ UNCHANGED <<poolVars, gmutex, owner, heap, pc, req, calls, ctx, answers, life>>

(* ed25519_free_gpu_mem, once every thread was joined (main.cu). *)
FreeGpuMem ==
    /\ \A t \in Threads : pc[t] = "idle" /\ calls[t] = MaxCalls
    /\ heap' = [c \in Ctxs |-> heap[c] - Live(dev[c])]
    /\ life' = "freed"
    /\ UNCHANGED <<poolVars, gmutex, owner, dev, stream, pc, callVars, ctx, answers>>

-----------------------------------------------------------------------------
Step(t) ==
    /\ life = "up"
    /\ \/ LockGlobal(t) \/ SetUpPool(t) \/ InitReturns(t) \/ Pick(t) \/ NullContext(t)
       \/ LockCtx(t) \/ Setup(t) \/ Launch(t) \/ Synchronize(t) \/ Release(t)

Begin(t) == life = "up" /\ (Call(t) \/ CallInit(t))

Device(s) == life = "up" /\ Execute(s)

Finish == life = "up" /\ FreeGpuMem

Over == life # "up" /\ UNCHANGED vars

Next ==
    \/ \E t \in Threads : Begin(t) \/ Step(t)
    \/ \E s \in Streams : Device(s)
    \/ Finish
    \/ Over

Spec == Init /\ [][Next]_vars

(* Threads run and the device works its streams off.  A mutex need not be  *)
(* fair as long as the calls are finitely many.                            *)
Fairness ==
    /\ \A t \in Threads : WF_vars(Step(t))
    /\ \A s \in Streams : WF_vars(Device(s))
FairSpec == Spec /\ Fairness

-----------------------------------------------------------------------------
(* Properties.                                                             *)
Holding == {"setup", "launch", "sync", "release"}
Locations == {"idle", "lock", "initlock", "pick", "init", "acquire"} \cup Holding

Ids == (Threads \cup {NoThread}) \X (0 .. MaxCalls)
Buffers == [packets : Seq(Ids), offs : Seq([id : Ids, slot : Nat]),
            out : Seq([sig : Ids, data : Ids]), outRec : Nat]
Ops == [kind : {"in", "kernel", "out"}, id : Ids, by : Threads, ctx : Ctxs, req : Requests]

TypeOK ==
    /\ total \in -1 .. MaxGpus
    /\ curGpu \in 0 .. MaxGpus - 1
    /\ curQueue \in [0 .. MaxGpus - 1 -> 0 .. MaxQueues - 1]
    /\ gmutex \in Threads \cup {NoThread}
    /\ owner \in [Ctxs -> Threads \cup {NoThread}]
    /\ ready \subseteq Ctxs
    /\ dev \in [Ctxs -> Buffers]
    /\ stream \in [Streams -> Seq(Ops)]
    /\ pc \in [Threads -> Locations]
    /\ req \in [Threads -> Requests]
    /\ calls \in [Threads -> 0 .. MaxCalls]
    /\ ctx \in [Threads -> Ctxs]
    /\ host \in [Threads -> Seq([sig : Ids, data : Ids])]
    /\ answers \subseteq BOOLEAN
    /\ picks \in [Ctxs -> Nat]
    /\ life \in {"up", "crashed", "freed"}

(* A context never serves two calls at once: whatever is queued on any     *)
(* stream for a context belongs to the thread that holds its mutex and is  *)
(* still waiting for it.  (setup_gpu_ctx may free buffers only then.)      *)
WorkIsOwners ==
    \A s \in Streams : \A i \in DOMAIN stream[s] :
        LET op == stream[s][i] IN
        owner[op.ctx] = op.by /\ pc[op.by] \in {"launch", "sync"}

(* A call returns the results of its own packets and signatures, although  *)
(* buffers are reused and the kernel also serves stale entries.            *)
ResultsAreOwn ==
    \A t \in Threads : pc[t] = "release" =>
        host[t] = [i \in 1 .. OutSize(req[t]) |-> Result(Id(t), Id(t))]

(* After setup_gpu_ctx the buffers hold the call, whatever sizes and kinds *)
(* of calls the context served before.                                     *)
Fits(b, r) ==
    /\ r.packets <= Len(b.packets)
    /\ r.sigs <= Len(b.offs)
    /\ OutSize(r) <= Len(b.out)
SetupSuffices ==
    \A t \in Threads : pc[t] \in {"launch", "sync"} => Fits(dev[ctx[t]], req[t])

(* A kernel about to run stays inside its buffers and reads only entries   *)
(* and packets that some call has written - also for the stale entries     *)
(* that the verify kernel serves.  (For calls that only verify: signing in *)
(* between may leave out smaller than the offset arrays.)                  *)
InBounds(b, r) ==
    \A e \in Served(b, r) :
        /\ e \in DOMAIN b.offs
        /\ b.offs[e].id # Nobody
        /\ b.offs[e].slot \in DOMAIN b.packets
        /\ b.packets[b.offs[e].slot] # Nobody
        /\ Cells(r) * e <= Len(b.out)
KernelInBounds ==
    \A s \in Streams :
        stream[s] # <<>> /\ Head(stream[s]).kind = "kernel" =>
            InBounds(dev[Head(stream[s]).ctx], Head(stream[s]).req)

(* ed25519_free_gpu_mem returns every buffer that was ever allocated.      *)
AllFreed == life = "freed" => \A c \in Ctxs : heap[c] = 0

(* Only contexts whose mutex and stream were created are used, also if     *)
(* cuda_crypt_init_locked failed half way.                                 *)
OnlyReady == \A t \in Threads : pc[t] \in Holding => ctx[t] \in ready

(* ed25519_init's answer is final: after TRUE no caller gets NULL, after   *)
(* FALSE there never is a pool.                                            *)
InitAnswerFinal ==
    /\ TRUE \in answers => FALSE \notin answers /\ life # "crashed"
    /\ FALSE \in answers => \A c \in Ctxs : picks[c] = 0

(* The round robin spreads the calls: no context was chosen twice more     *)
(* often than another one.                                                 *)
Balanced ==
    total > 0 => \A c, d \in UsableGpus(total) : picks[c] <= picks[d] + 1

(* Every call returns, unless there is no pool: no lock order, lost unlock *)
(* or stream leaves a caller waiting.                                      *)
CallsReturn ==
    \A t \in Threads : pc[t] # "idle" ~> pc[t] = "idle" \/ life = "crashed"
=============================================================================
