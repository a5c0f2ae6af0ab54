------------------------------ MODULE PohPool -------------------------------
(***************************************************************************)
(* poh_verify.cu: threads that iterate SHA-256 over many hashes on a pool  *)
(* of GPU contexts of its own.  The pick, with the set-up of the pool, is  *)
(* under one mutex, each context under its own.  A hash is                 *)
(* [of |-> whose, n |-> how often it was hashed]; HashStream is about the  *)
(* hash itself.                                                            *)
(***************************************************************************)
EXTENDS Integers, Sequences

CONSTANTS
  Callers,         \* host threads
  Devices,         \* the numbers of GPUs the machine may have
  MAX_NUM_GPUS,
  MAX_QUEUE_SIZE,
  Batches,         \* the num_hashes_arr of a call
  MaxVerifies      \* bound on the calls of a thread

ASSUME PohAssumption ==
  /\ MAX_NUM_GPUS \in Nat \ {0} /\ MAX_QUEUE_SIZE \in Nat \ {0} /\ Devices \subseteq Nat
  /\ Batches \subseteq Seq(Nat) /\ "nobody" \notin Callers

VARIABLES
  g_total_gpus,  \* -1 before the set-up
  g_cur_gpu,
  g_cur_queue,
  pool,      \* the contexts made: <<gpu, queue>> |-> [hashes, num_hashes_arr, held]
  caller     \* each thread: where it is in poh_verify_many

pohVars == <<g_total_gpus, g_cur_gpu, g_cur_queue, pool, caller>>

Nobody == "nobody"
NoContext == <<>>
FreshContext == [hashes |-> <<>>, num_hashes_arr |-> <<>>, held |-> Nobody]
Idle(n) == [pc |-> "idle", batch |-> <<>>, hashes |-> <<>>, ctx |-> NoContext, calls |-> n]

PohInit ==
  /\ g_total_gpus = -1 /\ g_cur_gpu = 0
  /\ g_cur_queue = [gpu \in 0..(MAX_NUM_GPUS - 1) |-> 0]
  /\ pool = [place \in (0..(MAX_NUM_GPUS - 1)) \X (0..(MAX_QUEUE_SIZE - 1)) |-> FreshContext]
  /\ caller = [c \in Callers |-> Idle(0)]

Go(c, pc) == caller' = [caller EXCEPT ![c].pc = pc]
At(c, pc) == caller[c].pc = pc
Held(c) == pool[caller[c].ctx]

-----------------------------------------------------------------------------
(* poh_init_locked: the first caller counts the devices; a mutex that      *)
(* cannot be made leaves none.                                             *)
SetUp(total) ==
  IF g_total_gpus # -1 THEN total = g_total_gpus
  ELSE \E devices \in Devices : total \in {0, IF devices < MAX_NUM_GPUS THEN devices ELSE MAX_NUM_GPUS}

(* poh_init, which a program may call before its threads or not at all. *)
Initialise(c) ==
  /\ At(c, "idle")
  /\ \E total \in 0..MAX_NUM_GPUS : SetUp(total) /\ g_total_gpus' = total
  /\ UNCHANGED <<g_cur_gpu, g_cur_queue, pool, caller>>

(* A call: it returns at once for no elements, and 1 without GPUs; else it *)
(* takes the next context in turn.                                         *)
Pick(c, batch) ==
  /\ At(c, "idle") /\ caller[c].calls < MaxVerifies
  /\ IF batch = <<>>
     THEN /\ caller' = [caller EXCEPT ![c].calls = @ + 1]
          /\ UNCHANGED <<g_total_gpus, g_cur_gpu, g_cur_queue>>
     ELSE \E total \in 0..MAX_NUM_GPUS :
            /\ SetUp(total) /\ g_total_gpus' = total
            /\ IF total <= 0
               THEN /\ caller' = [caller EXCEPT ![c].calls = @ + 1]
                    /\ UNCHANGED <<g_cur_gpu, g_cur_queue>>
               ELSE /\ g_cur_gpu' = (g_cur_gpu + 1) % total
                    /\ g_cur_queue' = [g_cur_queue EXCEPT ![g_cur_gpu] = (@ + 1) % MAX_QUEUE_SIZE]
                    /\ caller' = [caller EXCEPT ![c] =
                         [pc |-> "lock", batch |-> batch, calls |-> @.calls + 1,
                          hashes |-> [i \in DOMAIN batch |-> [of |-> <<c, i>>, n |-> 0]],
                          ctx |-> <<g_cur_gpu, g_cur_queue[g_cur_gpu]>>]]
  /\ UNCHANGED pool

LockContext(c) ==
  /\ At(c, "lock") /\ Held(c).held = Nobody
  /\ pool' = [pool EXCEPT ![caller[c].ctx].held = c]
  /\ Go(c, "grow") /\ UNCHANGED <<g_total_gpus, g_cur_gpu, g_cur_queue>>

(* Memory for at least this batch; what a fresh allocation holds is a past *)
(* owner's.                                                                *)
TooSmallUnmade(ctx, batch) == ctx.hashes = <<>>  \* mutant: memory once made is never replaced
TooSmall(ctx, batch) == Len(ctx.hashes) < Len(batch)
Garbage(batch) == [i \in DOMAIN batch |-> [of |-> Nobody, n |-> 0]]
Grow(c) ==
  /\ At(c, "grow")
  /\ pool' = IF TooSmall(Held(c), caller[c].batch)
             THEN [pool EXCEPT ![caller[c].ctx].hashes = Garbage(caller[c].batch),
                               ![caller[c].ctx].num_hashes_arr = [i \in DOMAIN caller[c].batch |-> 0]]
             ELSE pool
  /\ Go(c, "copy_in") /\ UNCHANGED <<g_total_gpus, g_cur_gpu, g_cur_queue>>

(* The stream's work, in its order: the copies in, the kernel with a       *)
(* thread for each element, the copy out; then the thread that waits for   *)
(* the stream goes on.                                                     *)
Copied(memory, from) == [i \in DOMAIN memory |-> IF i \in DOMAIN from THEN from[i] ELSE memory[i]]
CopyIn(c) ==
  /\ At(c, "copy_in")
  /\ pool' = [pool EXCEPT ![caller[c].ctx].hashes = Copied(@, caller[c].hashes),
                          ![caller[c].ctx].num_hashes_arr = Copied(@, caller[c].batch)]
  /\ Go(c, "kernel") /\ UNCHANGED <<g_total_gpus, g_cur_gpu, g_cur_queue>>

poh_verify_kernel(hashes, num_hashes_arr, num_elems) ==
  [i \in DOMAIN hashes |->
     IF i <= num_elems THEN [hashes[i] EXCEPT !.n = @ + num_hashes_arr[i]] ELSE hashes[i]]
Kernel(c) ==
  /\ At(c, "kernel")
  /\ pool' = [pool EXCEPT ![caller[c].ctx].hashes =
                poh_verify_kernel(@, Held(c).num_hashes_arr, Len(caller[c].batch))]
  /\ Go(c, "copy_out") /\ UNCHANGED <<g_total_gpus, g_cur_gpu, g_cur_queue>>

CopyOut(c) ==
  /\ At(c, "copy_out")
  /\ caller' = [caller EXCEPT ![c].hashes = Copied(@, Held(c).hashes), ![c].pc = "unlock"]
  /\ UNCHANGED <<g_total_gpus, g_cur_gpu, g_cur_queue, pool>>

Unlock(c) ==
  /\ At(c, "unlock")
  /\ pool' = [pool EXCEPT ![caller[c].ctx].held = Nobody]
  /\ Go(c, "returned") /\ UNCHANGED <<g_total_gpus, g_cur_gpu, g_cur_queue>>

Return(c) ==
  /\ At(c, "returned")
  /\ caller' = [caller EXCEPT ![c] = Idle(@.calls)]
  /\ UNCHANGED <<g_total_gpus, g_cur_gpu, g_cur_queue, pool>>

Poh ==
  \E c \in Callers :
    \/ Initialise(c)
    \/ \E batch \in Batches : Pick(c, batch)
    \/ LockContext(c) \/ Grow(c) \/ CopyIn(c) \/ Kernel(c) \/ CopyOut(c) \/ Unlock(c) \/ Return(c)

PohSpec == PohInit /\ [][Poh]_pohVars

-----------------------------------------------------------------------------
(* A call that took a context returns its own hashes, each hashed as often *)
(* as asked, whatever sizes the calls before left the context's buffers    *)
(* with and whichever thread uses it at the same time.                     *)
PohResultsOwn ==
  \A c \in Callers :
    At(c, "returned") =>
      \A i \in DOMAIN caller[c].batch :
        caller[c].hashes[i] = [of |-> <<c, i>>, n |-> caller[c].batch[i]]
=============================================================================
