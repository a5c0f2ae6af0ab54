# Verification of the pump key generator

TLA+ modules, TLC runs and TLAPS proofs for `sorenmiles/pump_key_generator_v0`.
A CUDA engine searches for ed25519 keys whose base58 address ends with `pump`;
`find_pump_keys.py` starts the engine, verifies every key it reports and stores
the good ones in MongoDB. The engine tree also carries the library it grew out
of: batch verification and signing on GPUs, PoH verification, ChaCha20 and AES
in CBC mode, SHA-2, and an SGX signing enclave.

Paths are those of the repository; `cuda-ecc-ed25519/` and its neighbours are
under `src/engine/src/`.

## Inventory

| component | state | operations | talks to |
|---|---|---|---|
| orchestrator, `find_pump_keys.py` | `client`, `ssh_tunnel`, `proc`, `stored`, `seen_addresses`, the SIGINT handler | open the collection, start the engine, read lines, verify, store, count, shut down | engine (pipe, signals), MongoDB, SSH |
| key collection, MongoDB | documents, unique index on `public_key` | `create_index`, `update_one(upsert)`; wallets set `isused` | every orchestrator |
| vanity engine, `vanity.cu` | per-GPU random states, grid sizes, attempts per launch | set up, launch, synchronise, report, tune; in the kernel: walk seeds, hash, encode, match | stdout pipe |
| GPU context pool, `gpu_ctx.cu` | `g_total_gpus`, round-robin counters, a mutex for them and one per context, device buffers, streams | `ed25519_init`, `get_gpu_ctx`, `setup_gpu_ctx`, `release_gpu_ctx`, `ed25519_free_gpu_mem` | verify, sign |
| batch verification and signing, `verify.cu`, `sign.cu` | none of their own | `ed25519_verify_many`, `ed25519_sign_many` and their kernels | the pool, the GPU's streams |
| benchmark, `main.cu` | threads, offset arrays, results | calls `verify_many` from several threads, joins, frees | verification |
| PoH verification, `poh_verify.cu` | a second pool | `poh_init`, `poh_verify_many` | GPU |
| SGX enclave, `sgx/signing/` | key pair, lockout parameters, monotonic counter | create, seal, reinitialise, sign, release | untrusted host, platform counters |
| ciphers, `cuda-crypt/` | IVs, hash states, device chunks | AES and ChaCha20, CBC and CTR over many keys, sampling | GPU |
| hashes, `sha256.cu`, `sha512.*` | buffer, length, chaining state | init, update, final | all of the above |
| ed25519 arithmetic, `fe`, `sc`, `ge` (a copy for CUDA, one for the enclave) | none | field, scalar and group operations | signing, verification, engine, enclave |
| host calls: keypair, seed, add_scalar, key_exchange | none; their callers keep keys that must stay in step | create, sign, verify, move a key by a scalar, agree on a secret | arithmetic, SHA-512 |
| jerasure-sys, build and CI scripts, tests | none at run time | | |

What is hard here:

* **Concurrency.** Several orchestrators share a collection whose upsert is two
  steps; a signal handler interrupts `main()` anywhere, itself included; threads
  share GPU contexts under two levels of mutexes; copies and kernels run
  asynchronously on streams.
* **Failure.** The engine crashes, blocks or prints nonsense; the server's reply
  is lost; a process is killed between two steps; a set-up fails half way; an
  enclave is destroyed and restored from old data.
* **Ordering.** `seen_addresses` before `store`; the index before the first
  upsert; synchronise before release; the sealed counter against the counter.
* **Reuse.** Device buffers keep what earlier calls left, and kernels are given
  the capacity rather than the size of the call.
* **Boundaries.** Data comes in pieces: limbs with signed carries, windows of a
  scalar, blocks of a hash, chunks of a cipher, the bytes of a seed. Each has an
  edge (the last carry, the fitting tail, the slice across two chunks) that few
  inputs reach.

What makes each component correct is stated below with its module; what can go
wrong, line by line, is the list of hazards in `PROJECT.json`.

## The modules

### KeyCollection, EngineProcess, Finder: the orchestrator

`KeyCollection` is MongoDB as `store()` uses it: an upsert first looks for the
address (`Match`), inserts later (`Insert`), and is retried or refused by the
unique index (`Refuse`). Requests outlive the client that sent them, replies get
lost. `EngineProcess` is the child process: it prints lines into a bounded pipe,
dies by itself, of a signal, or perhaps of a broken pipe (there is no SIGPIPE on
Windows, and `vanity_run` ignores what `printf` returns). Both are parametric modules
that `Finder` instantiates over its own variables.

`Finder` is `find_pump_keys.py` with any number of runs of the script.
`pc[w]` names the statement of `main()` (or of a function it calls) that runs
next; each action is one statement that can fail or be interrupted:

| actions | code |
|---|---|
| `OpenTunnel`, `Connect`, `Ping`, `MakeIndex` | `_open_ssh_tunnel`, `open_collection` |
| `BuildCommand`, `Popen`, `InstallHandler`, `EnterTry` | `main()` up to its `try` |
| `Read`, `ReadEof`, `Verify`, `Dedup`, `StoreReturns`, `StoreFails`, `Count` | the loop |
| `Poll`, `Terminate`, `Wait`, `Kill` | `shutdown()`, from the handler or from `finally` |
| `CloseClient`, `StopTunnel` | the rest of `finally` |
| `Interrupt`, `Deliver`, `Killed` | Ctrl-C, the interpreter running the handler, SIGTERM/SIGKILL |

`phase[w]` says what an exception unwinds: nothing before the `try`, the
`finally` block inside it, and nothing again from within `finally`. `caller[w]`
says where `shutdown()` returns to. A key is a pair of model values; the function
`AddressOf` stands for ed25519 and base58, and the engine may report any pair.

`KeyStore` is the abstract specification: verified keys only, one document per
address with immutable key material, used keys stay used, a run adds a key only
while short of its target and after counting the last one. `Finder` implements
it (`ImplementsKeyStore`), with `keys <- coll`, `credit <- stored` and
`uncounted` = "an insert was answered and not yet counted".

### GpuCtxPool: contexts, batches and streams

Threads call `ed25519_verify_many`, `ed25519_sign_many` and `ed25519_init`.
`Call`, `LockGlobal`, `SetUpPool`, `Pick`, `LockCtx`, `Setup`, `Launch`,
`Synchronize`, `Release` are the steps of a call between which others run;
`Execute` is the GPU taking the oldest piece of work off a stream (the copies of
`setup_gpu_ctx`, a kernel, the copy of the results). A cell of a device buffer
holds the name of the call that wrote it, so that a result says which packet and
which entry of the offset arrays it was computed from, and stale data is visible.
Sizes are in cells; `SigSize` and `BlockSize` are parameters (64 in the code).
`outRec` is `out_size_bytes` as the code computes it. `heap` counts, for each
context, the buffers allocated and not freed.

A CUDA error aborts the process (`CUDA_CHK`) and is left out. A call without a
pool crashes on the NULL context (`NullContext`).

### VanityEngine: the launch loop

`vanity_run` in `vanity.cu`: `Launch` starts a kernel on each GPU in turn,
`Synchronize` waits for the GPU set last (the only one waited for, and timed),
`Report` prints and flushes, `Tune` chooses the attempts of the next round.
`Find(g)` and `Fail(g)` are the GPU's side: `queue[g]` holds its
unfinished launches, `fifo[g]` the lines in its printf buffer, which travel on to
the C library's buffer when the host launches on `g` again or synchronises with
it, and to the pipe with `fflush`. No CUDA error is checked, so a GPU outside
`alive` takes launches for nothing and is never waited for.

Time is counted in ticks: a machine (`setup`) says how many of them an attempt may
cost on each GPU. A launch in `queue[g]` carries the ticks it needs yet, and `Pass`
lets time pass on all GPUs at once until the next kernel ends. `secs` runs as in the
code, from before the first launch of a round until `cudaDeviceSynchronize` returns:
the time a launch waits for room in the full queue of a slower GPU is part of it, and
so is what the timed GPU has left to do. A prompt host (`delays` = {0}) takes no time
of its own, so that time passes only while it waits (`Waiting`); any other lets time
pass anywhere, and comes late by some of its `delays`. The tuning computes in
integers what the code computes in doubles (`Round`, and the comparisons with
four times and a quarter, multiplied out). What a kernel computes is the subject
of `VanityKernel`; the overflow of the printf buffer is left out, which would take
more lines within a launch than a search for such keys produces.

### FieldElement, ScalarMod, GroupElement, Ed25519: the arithmetic

Functions, not state: every operation of `fe`, `sc` and `ge`, limb by limb and
carry by carry, and on them `ed25519_create_keypair`, `_sign`, `_verify`,
`_add_scalar` and `_key_exchange`. The two copies of the code compute the same;
`map` names the lines of either one.

The limb widths are constants. `FieldElement` has ten limbs of alternately
`LimbBits` and `LimbBits - 1` bits, so the modulus is 2^(10 LimbBits - 5) - 19:
2^255 - 19 for the code's 26. The carries, the wrap by 19, the doubled products of
odd limbs, the estimate of the quotient in `fe_tobytes`, the unaligned loads of
`fe_frombytes` (`LoadAt`) and the exponent chains (`Ladder`) all follow from the
widths. `ScalarMod` does the same for limbs of `ScalarBits` bits (21) modulo
2^(12 ScalarBits) - delta. Strings of bytes are tuples of bits. The tables of
`precomp_data.h` are given by the rule that produced them (`base`, `Bi`). The
shared parts of unrolled code are written once (`Along` walks a list of carries or
folds in the code's order).

Operations are functions (`fe_mul[f, g]`) rather than operators: TLC computes a
function's argument once. For the same reason `Strict` has a fold of its own
(`Along`), in which no step is nested in another; its step is a function of the
value so far that gives a function of the next element.

### KeyHolders: who keeps a key, who follows it, who shares a secret

A holder creates a key pair, adds scalars to both halves in one call or to each
half in its own (between which the halves disagree), signs, and exchanges keys
with a peer; an observer who has only the public key adds the same scalars later,
in its own time, and verifies. The hash is a parameter.

### VanityKernel: the search of a GPU thread

`Draw(id)` begins a launch: the thread's generator, kept in device memory between
launches, gives the 32 bytes of a seed. `Attempt(id)` derives the key, encodes it
with `b58enc` (digit by digit, with the code's size estimate and loop bounds),
compares the suffix, prints, and increments the seed as a little-endian number;
the last attempt saves the generator. `tried[id][n]` records the seeds of the n-th
launch; what the generator gives (`RandomByte`) is a parameter.

### SgxSigning: the enclave

The enclave's `g_signing_params`, the host's `ctxt`, the sealed copies the host
keeps and the platform's monotonic counters. One action per ECALL with its host
wrapper, and one for its failures: `InitFails` and `ReinitFails` happen before or
after the counter was created or incremented, and with or without the out buffer
cleared. `LoseEnclave` is a power event. `passed[c]`, which the code has not,
counts the reinitialisations that counter `c` let through.

### Words, Sha2, HashStream: the hashes

`Sha2` is both compression functions on words of 16-bit limbs, with one record of
parameters for each, and `process` and `done` with their buffer. `HashStream` is a
caller that feeds a message in pieces.

### AesCore, ChaChaCore, ChunkedCipher: the ciphers

`AesCore` has the key schedules and both directions of AES, its tables by the rule
in the source's comment; `ChaChaCore` the quarter rounds, the block function and
the counter mode. `ChunkedCipher` is a caller of one of the four many-key
functions: `Call` copies the input, `ThreadBlock(k)` is one block of the thread of
key `k` in the shared output memory, `ThreadEnds(k)` its last lines (the ivec, the
samples), `NextChunk` the host's loop, `EndShaState` the digests. `RoundTrip` is
AES-CBC there and back on the host.

### PohPool: PoH verification

`poh_verify_many` by several threads: `Pick` (with the set-up of the pool),
`LockContext`, `Grow`, `CopyIn`, `Kernel`, `CopyOut`, `Unlock`, `Return`. A hash is
[whose it is, how often it was hashed]; freshly allocated memory holds hashes of
nobody.

### MCKeys and MCStreams

Each instantiates several modules that do not meet in the program; `part` says
which of them a behaviour is about, so that one run explores all of them without
their product.

## The runs

| run | instance | shows |
|---|---|---|
| `finder_life` | one run of the script, 3 keys (2 matching), 7 kinds of lines, 4 environments, 2 interrupts, a pipe of one line | `TypeOK`, `StoredKeysVerified`, `ExitReleases`, `InterruptStopsEngine`; `RunEnds` under fairness |
| `finder_pair` | two runs with target 1, from the point where both have connected, 2 keys, no interrupts (kills and faults happen) | `OneDocPerAddress`, `InsertsAccounted`, `NoOvershoot`, `SeenIsStored`, `DocsWriteOnce`, `ImplementsKeyStore` |
| `finder_cleanup` | as `finder_life`, no interrupts | `CallerCleansUp` is violated (finding) |
| `pool_verify` | 2 threads, 3 calls each, 2 GPUs of 2 queues, 0, 1 or 3 devices, set-up failing at any context, batches of 0 to 3 | `TypeOK`, `WorkIsOwners`, `KernelInBounds`, `AllFreed`, `OnlyReady`, `InitAnswerFinal`, `Balanced` |
| `pool_mixed` | 2 threads, 3 calls each, no GPU or one context, signing and verifying | `ResultsAreOwn`, `SetupSuffices`; `CallsReturn` under fairness |
| `vanity_loop` | machines with 0, 1 and 2 GPUs, attempts of 1 to 7 ticks and of 40, steady and varying, a fixed setting; target 16 ticks, limit 64, at most 12 attempts, 2 launches queued, a line; hosts that are prompt or come late | `TypeOK`, `LaunchesShort`, `RoundIsFlushed`; `LinesArrive`, `ReportsForever`, `TuningSettles` under fairness |
| `vanity_uneven` | a slow GPU before a fast one, at most 40 attempts | `LaunchesUnderLimit` is violated (finding) |
| `keys` | the field 2^85 - 19, a prime group order of 83 bits times 8, two additions, two messages; two kernel threads, three attempts, two launches; three keys and counters of the enclave | `SignaturesVerify`, `PublicKeysFollow`, `SecretsAgree`, `FoundKeysMatch`, `SeedsAreFresh`, `SignsAsPublished`, `CountersPassOnce` |
| `enclave_reseal` | the enclave on a platform that never fails | `SealedDataReinits` is violated (finding) |
| `streams` | three pieces of 1 to 127 bytes; chunks of 128 bytes, one or two keys, two calls of 64 to 192 bytes; two PoH threads, batches of 0, 1 and 3 | `DigestsAreWhole`, `AesInverts`, `StreamsAreOneShot`, `ChunksAreCtr`, `SamplesMatch`, `PohResultsOwn` |
| `cipher_ctr` | as `streams`, the counter mode alone | `CtrContinues` is violated (finding) |
| `cipher_ragged` | as `streams`, the two CBC calls alone | `CbcAtAnyLength` is violated (finding) |

**Bounds.** One pipe slot suffices for a full and an empty pipe; a second
interrupt is the one that lands in the shutdown the first began; more only repeat
it. Two keys with the suffix let a run find a new and a known key, target 2 lets
it stop after the second. `finder_pair` starts connected because everything
before concerns one run only and is explored in `finder_life`. Three calls on a
context are what it takes to grow, shrink and reuse its buffers (a large
verification, a signature, a smaller verification); three devices exceed the
model's `MAX_NUM_GPUS` of two. `vanity_loop` keeps the code's proportions of
target and limit (0.5 s and 2 s), its first launch of 8 attempts, and costs that
make the tuning grow, shrink, meet both of its damping limits and both of its
bounds; two launches in a queue are enough for a GPU nobody waits for to fall behind
until the host has to wait for room there (the code's queue holds some thousand).

**The slow GPU.** `TuningSettles` speaks of machines of steady speed, a prompt host,
and GPUs none of which is slower than the timed one (`NoneSlower`). Without that last
condition it is false of the code: while the fast, timed GPU's rounds are short the
attempts grow, the launches on the slow one stack up until its queue is full, from
then on every round lasts as long as a launch on the slow GPU, and the attempts shrink
until the backlog is gone. With costs of 5 and 2 ticks, first launch and bounds as in
`vanity_loop` but up to 40 attempts, the attempts go up and down without end. Such a
GPU is also what `LaunchesUnderLimit` fails for.

**The small field.** TLC's integers have 32 bits; ten products of 26-bit limbs do
not fit, ten of 9-bit limbs do. `keys` therefore uses `LimbBits` 9 and
`ScalarBits` 7, which leaves the number of limbs, the order of every carry and
fold, the signed digits and the windows as they are, and shortens only what a
limb holds. 2^85 - 19 is prime, as 2^255 - 19 is, and is 5 modulo 8, which the
square root relies on. On it the twisted Edwards curve with d = -57/58 has
8 (2^82 + 531447783969) points, the second factor prime and, like the code's
2^252 + delta, a power of two and a delta of half its length; d is not a square,
so that the addition has no exceptions. 58 plays the part of 121666. What it
cannot show is a limb that outgrows 32 or 64 bits: the bounds of the code's limbs
are not checked. SHA-512 is replaced by a small mixing function, since only that
different inputs give different outputs matters there.

**The real hashes and ciphers.** `streams` computes SHA-256, SHA-512, AES and
ChaCha20 as they are, and `KnownAnswers`, an assumption TLC evaluates first,
compares them with published answers. ChaCha runs 20 rounds instead of the code's
`CHACHA_ROUNDS` of 500; a chunk has 128 bytes instead of 4096, a multiple of both
blocks as the code's is. Pieces of 1, 8, 55, 64 and 127 bytes meet every case of a
tail: short, exactly fitting before the length, full, and one short of full.
Inputs shorter than a chunk, not a multiple of it and not a multiple of a block
occur. Seeds of 254, 255 carry twice within three attempts, and a seed of zeros
meets Base58's leading zeros.

**Symmetry.** Threads are interchangeable in `pool_verify`, which has safety properties
only; `pool_mixed` has a liveness property and uses no symmetry.

**Fairness.** The interpreter runs (`WF` of `Script`) and delivers a pending
signal; mongod answers or the driver times out; a fatal signal takes effect.
Nothing obliges a user, a wallet, a crash, or a broken pipe that might end an engine
(it does not on Windows): an engine left behind by a killed run may live on, and no
property says otherwise. In the
pool, threads and streams make progress; a mutex is only weakly fair, which
suffices because calls are finite in number. In the engine the host loop runs,
kernels end, and the orchestrator reads (`Finder` reads until the engine ends);
finding keys and failing is never owed. All of it is weak fairness: no step
relies on being enabled again and again.

**Stopping.** A run of the orchestrator, the pool and the launch loop that has
ended stutters (`AllDone`, `Over`), so those check for deadlock. `keys` and
`streams` do not: their callers stop when the bound on their calls is reached. The
mutex of a PoH context is released by a holder that waits for nobody.

## The proofs

The proof modules follow the same line: an inductive invariant, one lemma per
action, and the properties as consequences, for every value of the constants
that satisfies the module's named assumption.

`FinderProofs` (from `FinderAssumption`): `IInv` joins the types with
* `DocsInv`: documents are verified, and one per address once the index exists -
  which it does before any run can store;
* for each run, `CallInv` (a call in flight carries a verified key, and only a
  storing run inside the loop has one), `SeenInv` (while a run searches, every
  address it has seen is held by the collection; while a store is awaited or
  counted, every one but that in hand; and a run that exited with 0 has them all)
  and `HeldInv` (which resources may be open at each location).

From it: `TypeCorrect`, `NothingUnverified`, `AddressesUnique`,
`SeenIsNeverLost`, `ExitsRelease`, `InterruptsStopEngine`, `DocumentsWriteOnce`.
`CountInv`, inductive relative to `IInv`, relates the cardinality of a run's
documents to its counter: `CountsAgree`, `TargetsHold`. `Refinement` maps every
step to a step of `KeyStore` or to a stutter.

`GpuCtxPoolProofs` (from `PoolAssumption`): `PInv` joins the types with the
pool's own fields (`PoolInv`: counters in range of `g_total_gpus`, created
contexts), the mutexes (`LockInv`: who is inside which critical section),
`WorkInv` (all queued work belongs to the holder of its context, and a stream
other than 0 only carries its own context's work) and `SizeInv` (buffers hold
the pending call). From it: `PoolTypeCorrect`, `OneCallPerContext`,
`BuffersHoldTheCall`, `OnlyCreatedContexts`; `AnswerInv`, inductive relative to
`PInv`, gives `AnswersAreFinal`; `HeapInv` (a context's `heap` is the number of
buffers it holds, and 0 after the pool was freed) gives
`EveryBufferIsFreed` (`AllFreed`).

Three further invariants build on it:
* `CallsSpread` (`Balanced`). The counts alone are not
  inductive; `BalanceInv` says where the round robin stands. The GPUs before
  `g_cur_gpu` are one turn ahead of the others, and on a GPU the queues before its
  own index are one pick ahead (`RowInv`, `Level`, `Ahead`).
* `ResultsBelongToTheCall` (`ResultsAreOwn`). `QueueInv`: a
  call's work stands on the call's stream in the order copy in, kernel, copy out,
  also if the stream is shared. `DataInv`: what is done of it has left its data in
  the buffers or the caller's array. Nobody else's work can disturb that, because
  two holders hold different contexts (`OthersKept`). `KernelComputes` shows that
  the verify kernel's rounding up to blocks covers the call, and that its entries
  point into its packets.
* `VerifyingStaysInBounds` (`KernelInBounds`), assuming that
  calls only verify, as in `main.cu`: then `out` and the offset arrays are equally
  long, and what is behind a call's own entries was written and points into the
  packets (`WrittenInv`). Without the assumption the property is false: signing in
  between leaves `out` smaller than the offset arrays, because `out_size_bytes`
  counts signatures.

`VanityEngineProofs` (from `EngineAssumption`): `EngineTypeCorrect`;
`RoundsFlush` (`RoundIsFlushed`) from `FlushInv`: once the host has waited for the
timed GPU, its queue and its `printf` buffer stay empty until the next launch, and
a GPU that failed has nothing queued; and `LaunchesStayShort` from `ShortInv`.
`LaunchesShort` speaks of what is queued and is not inductive: `Timed` says that the round's time, with what the timed GPU's last
launch needs yet (`LeftOf`), pays for its attempts (`Paid`) until the tuning has used
it; that a launch waited for room or the host came late only makes it longer.
`PassIsTimely` shows that no time is lost when kernels end, and `NextIsShort` bounds
the next launch before it is made. The arithmetic is in `TuningIsShort`: of the three cases of the tuning,
growing fourfold leaves three quarters of the limit, backing off leaves less
than before, and aiming at the target leaves three times the target and the
rounding, fifteen sixteenths of the limit.

`KeysProofs` holds the proofs about `VanityKernel` and `SgxSigning`, which meet in
no property. The kernel, from `SeedAssumption` (a seed has at least the four bytes
`LowBytes` and `Count` read), `LaunchAssumption` (the attempts of a launch fit the
code's `int`) and `GeneratorAssumption` (the generator gives bytes): a walk is a
`Path` if it begins with the seed its launch drew and each seed is the one before
incremented; `Scanning` says of a thread how many bytes its generator has given,
that each walk is such a path of the right length, and that the seed to try next
`GoesOn` from the last. `ScanInv` is that for every thread. An increment adds 1 to
the number the seed's four low bytes stand for, modulo 2^32 (`Count`): the lemmas
on `Prefix` and `CarriedTo` show it for the code's loop, which clears a prefix of
255s and stops after the first byte that does not wrap. As a launch makes fewer
than 2^32 attempts, no seed of a walk comes back: `EverySeedIsFresh`
(`SeedsAreFresh`).

The lines the kernel prints take three arguments.
* `Base58IsExact`: whatever the bytes, a decoder reads back what `b58enc` was given.
  `Written` says that the buffer's digits read in base 58 (`Reads`) as the bytes added
  so far read in base 256, and that the digits up to `high` are 0. The size
  `len * 138 / 100 + 1` holds them (`RoomEnough`: 256^n <= 58^size, by steps of eight
  bytes and eleven digits), one digit fewer holds all but the last byte
  (`RoomToSpare`), and so the loop that breaks off below digit 0 never has a carry
  left there (`AddByteAdds`). Two strings of bytes without leading zeros that stand
  for the same number are the same (`StandsOnce`).
* `KeyIs`: the keypair call gives a key of exactly the seed's length in bytes, whatever
  the seed. Field elements keep ten limbs through products, squares, carries
  (`CarryMoves` says what a carry moves), the inversion's chain and the reduction
  (`ReducedIs`: all limbs natural), points and tables keep their coordinates, `select`
  reads only entries the table has (`SelectIs`) because the signed digits of a clamped
  scalar stay in -8..8 (`SignedNibblesAre`: the carry into the last digit needs the
  cleared top bit), and the encoding has all its bits (`EncodingIs`). It takes
  `LimbsAssumption`, `LadderAssumption` (each rung of the inversion uses exponents
  reached before), `CurveAssumption` (the constants are field elements) and
  `NibbleAssumption` (the last byte has bits in both halves), all true of the code's
  numbers, and from SHA-512 only its type, the theorem's hypothesis `Sha512Total`.
* `FoundInv` adds to `ScanInv` that a line is printed for a tried seed exactly when
  its address matches (`LinesMatch`).

`FoundKeysAreExact` (`FoundKeysMatch`) joins them, for any suffix
(`SuffixAssumption`: a sequence of digits), any generator, threads and launches. What
it does not say is that the key is the right point: `PublicKeysFollow` and
`SignaturesVerify` are about that.

The enclave (no assumption needed): `EInv` joins the types with
`ParamsInv` (a set-up enclave, and each sealed copy, names a counter that exists
and records the value 1 for it: the increment never gets into the sealed data) and
`CounterInv` (a counter stands beyond 1 by at least what it let through). Since
only a counter at its recorded value lets a reinitialisation through, it can do so
once: `OneReinitPerCounter`. `KeysArePublished` needs that a failed call never
shows a key and a successful one shows the key it installs.

`PohPoolProofs` (from `PohAssumption`): `PohInv` follows a call through its
context. `BuffersInv`: the two arrays of a context are equally long. `CallInv(c)`,
by place in the call: who holds the context, that the batch fits the buffers, and
whose hashes, hashed how often, stand in the context or with the caller. A step of
another thread cannot disturb it (`Undisturbed`), because two holders hold
different contexts (`OwnStep`). `ResultsBelong` is what is left at the return.

`FoldProofs` is what the proofs about data rest on. Hash, cipher and arithmetic
modules write every loop as `Along`, a fold whose step is a function. The library's
induction theorems take an operator and cannot be used, but induction over a *set*
of numbers needs none: `Least` (a set of naturals has a least element), `Induction`
and `InductionTo` are first-order, and the set is defined by the predicate in
question. From the recursive definition in `Strict` follow `AlongIs` (the value
after n elements is the step from the value after n - 1), `AlongNothing`,
`AlongAppend`, `AlongInvariant` (a set the step never leaves holds the result),
`AlongStays` and `AlongAgree` (two steps that agree on such a set give the same).
Numbers in any base are `Reads(b, s, j, n, v, r)`: continuing from the value v with the
digits after the j-th of s up to the n-th gives r. Digits can be taken at either end,
moved and bounded (`ReadsFront`, `ReadsOn`, `ReadsLast`, `ReadsMoved`, `ReadsBelow`,
`ReadsAbove`, with `Power` for the base's powers, as a power with a variable exponent
is beyond the provers).

`StreamsProofs` (from `MessageAssumption` and `PieceLengthsAssumption`: the message
is bytes, lengths are naturals) is about SHA-256 and SHA-512 as they are.
* Every operation on words keeps their width: tables of xor, the rotations that
  split and splice limbs, the carries of an addition. Hence the message schedule and
  the rounds do, and `compress` maps eight words and a block to eight words
  (`CompressIs`).
* `Within(alg, md, all, p, q)`: `md` has taken the first p bytes of `all`; its state
  is the compression of the first q blocks (`Chain`), its buffer the bytes after
  them, its length the bits compressed. `ProcessWithin`: feeding a piece of any
  length takes `Within` to `Within`, whichever of the loop's two branches its turns
  take.
* `FramedIs`, `ZeroCount`, `DoneIsWhole`: the zeros that `done` adds, in one block or
  in two, are the ones FIPS 180 asks for, so `done` gives the hash of the whole.

`Streaming` joins this for the caller of `HashStream` (`HashIsStreaming`), and
`EveryDigestIsWhole` (`DigestsAreWhole`) is what is left at the digest: for every
message, and every way to cut it into pieces.

`CipherProofs` (from `ChunkAssumption`, `KeyAssumption`, `CallAssumption` and
`RoundsAssumption`: a chunk is a multiple of both ciphers' blocks and fits an `int`,
keys have 32 bytes and ivecs 64, inputs are bytes) is about the many-key calls and
the host's AES.
* AES with its key schedules, and ChaCha20, map blocks to blocks (`AesIs`,
  `ChaChaIs`), so that every byte written is one.
* `StreamIs`: the j-th block of a key's one-shot CBC stream is the cipher of input
  block j under block j - 1, the last one filled up; `StreamSame`: the blocks
  of a prefix are a prefix of the blocks, which is what lets a stream grow from
  chunk to chunk and from call to call.
* `MemoryHolds`: what one thread writes leaves every other thread's part of the
  shared memory alone. This needs that a block fits the thread's own part
  (`Apart`, `Inside`), which `Whole` says: whole blocks, or a ragged end where a
  thread is `Alone` (one key, or the sampling variant, whose threads write
  `BLOCK_SIZE` bytes apart).
* `CbcAt` and `CtrAt` say what each thread's part holds so far, `CbcKey` also which
  block the thread chains next: its ivec at the start of a chunk, and after that the
  block it reads back from the output (`ChainIsStreams`). `CbcBetween` carries the ivecs from
  one call to the next. `CipherInv` joins them with the types; it takes one lemma for
  each action (`UseStep`, `CallStep`, `BlockStep`, `EndsStep`, `ChunkStep`,
  `ReturnStep`, `QuietStep`, `TripStep`).

`OneShot` (`StreamsAreOneShot`) follows for any number of keys, inputs, calls and
interleavings where `Whole` holds; for several keys and a ragged input the statement
is false (`cipher_ragged`). Nothing in it depends on the cipher being AES or ChaCha
beyond the types. `CtrPerChunk` (`ChunksAreCtr`) has no such condition, since a CTR
thread writes no byte beyond its part (`ChunksFollow`), and promises less: the CTR of each
chunk from counter 0, not that of the whole input (`cipher_ctr`).

The samples join this with `ProcessWithin`. `SlicesIn(cph, a, b, list)` are the slices
of a ciphertext whose samples begin from a to below b. With an ascending list the
slices up to the end of a chunk are those up to its start followed by those in it
(`SlicesSplit`; a list that goes back would mix them, which is why the property asks
for an ascending one); what a thread reads back from its part of the memory is the
slice of the ciphertext (`SliceRead`), which needs that a block is a whole number of
samples; and the stream's later bytes change no slice of the earlier ones
(`TextGrows`). `SampleInv` says of every key that its SHA-256 state has taken in the
slices up to the start of the chunk, or to its end once the thread has ended;
`SamplesAreHashed` (`SamplesMatch`) follows when `chacha_end_sha_state` closes the
hash.

`TripsInvert` (`AesInverts`) is the host's encryption and decryption, for every key,
each of the three key sizes, every first chaining block and inputs of any length. It
needs no more of the state than the property says; the argument is about AES.
* On bytes the exclusive or is a group's operation, shown bit by bit through the
  nibbles of the tables (`NibbleGroup`, `ByteGroup`), and so it is on words of four
  (`WordCancel`, `WordCross`).
* A byte is eight bits (`Worth`, `OctetXor`), on which doubling is seen to be linear
  (`TwiceAdds`), and so are products (`TimesAdds`). A linear map that respects
  doubling is the product with what it makes of 1 (`LinearIs`): two such maps agree
  when they agree there, which replaces the 256 (or 65536) cases of the laws of the
  ring. `BytesAreARing` is what comes of it: products commute, associate, distribute,
  and x^256 = x, since squaring eight times is linear and keeps 2.
* `Td4` undoes the S-box on each byte (`Td4Undoes`), because no two bytes have the
  same reciprocal (`ReciprocalTells`, from x^256 = x) and the affine step can be
  read backwards bit by bit (`FivesTell`, `AffineTells`).
* The inverse MixColumn on a word, `Uncolumns`, is four rows of products (`RowsAre`);
  their coefficients against MixColumn's give 1 on the diagonal and 0 elsewhere
  (`ColumnsUndone`), and by linearity (`UncolumnsAdd`) it undoes MixColumn on every
  word (`MixWordUndone`).
* The tables hold what their rule says (`TablesHold`, `TablesUndo`), so a round is
  substitution, rotation, mixing and a round key (`RoundMixes`), a round of
  decryption undoes it up to a key that has been unmixed (`InverseUndoes`), and
  `AES_set_decrypt_key` has unmixed exactly those (`InvertedIs`).
* `BlockInverts`: after j rounds the decryption has what round R - j of the
  encryption looked up, so that a block comes back. `CbcInverts` does the same for
  the chain: after j blocks the decryption has the first 16j bytes of the input and
  the chaining block that the encryption had.

**Only model-checked.** `RunEnds`, `CallsReturn`, `LinesArrive`,
`ReportsForever` and `TuningSettles` are liveness under fairness, beyond this
prover. Three invariants rest on TLC alone:
* `SignaturesVerify`, `PublicKeysFollow`, `SecretsAgree`: that limbs, carries and
  folds compute in the field and modulo the group's order, and that the addition
  formulas form a group. The first part is integer arithmetic with products of many
  terms, the second algebra over a field; the SMT solver finds neither, and each
  would be a development of its own.

## Findings

* `open_collection` leaves cleaning up to its caller, and `main()` can exit before
  it reaches the `try` whose `finally` does so (`finder_cleanup`).
* The comment on the tuning promises launches well under the driver's limit; the
  loop times the last GPU only, and a slower one gets launches that reach it
  (`vanity_uneven`). Proved nevertheless: with GPUs that differ by at most three
  times they stay under it (`LaunchesStayShort`).
* `signing_public.h` promises that sealed data reinitialises the enclave; after one
  reinitialisation data sealed afresh is refused (`enclave_reseal`), because the
  incremented counter is overwritten with the unsealed one.
* `test_chacha_ctr` takes one `chacha20_ctr_encrypt` over the whole input as the
  reference for every key; the library starts the counter at 0 in each chunk
  (`cipher_ctr`), so the key stream repeats from chunk to chunk. Proved: each chunk is
  the CTR of that chunk (`CtrPerChunk`).
* `test_aes` and `test_chacha_cbc` compare the ivecs of any number of keys with a
  one-shot call, at any length. A last block that is not full is written whole, over
  the next key's part of the output memory (`cipher_ragged`). Proved: without a ragged
  end, or with one key, or in the sampling variant, all of it is one-shot CBC
  (`OneShot`). The model takes a block as one step and the threads do not, which
  leaves more outcomes, not fewer. Lengths at which a thread's part is not aligned for
  the words it is accessed by are left out: that is a CUDA error.
  The calls of these three tests are commented out in `main()`, and outputs are not
  copied back (`DO_COPY` is not defined); the ivecs are.

Behaviour the models follow and no run reports:
* `out_size_bytes` is declared as a size and compared with one, and set to a number of
  signatures (`gpu_ctx.cu:106`, `outRec`): a signing call replaces a buffer that is large
  enough. The buffers hold the current call all the same (`BuffersHoldTheCall`).
* The tuning need not come to rest where a slow GPU precedes the timed one (see "The
  slow GPU" above).
* An engine whose run was killed, or interrupted before the handler was installed, is
  left running.
* `ed25519_key_exchange` clamps the private scalar. After `ed25519_add_scalar` it is
  no longer clamped, and the two sides get different secrets (`SecretsAgree` is
  about fresh keys).
* A failed call to the enclave clears the public key shown while the enclave goes
  on signing with its own.
* ChaCha in CBC mode looks at no key: the block function's whole input is the
  chaining block mixed with the data.

## Not modelled, and why

* Formatting, logging, timing and command lines carry no property. The `.env`
  loader, TLS and SSH options decide only whether the start-up fails, which it may
  at any step; the ssh diagnosis only words the failure.
* CUDA errors abort the process in every module but the engine (`CUDA_CHK`), which
  checks none; the engine's GPUs may fail, the others' do not.
* Arithmetic that wraps at 32 bits (batches of 4 GiB, offsets of the ciphers' host
  loop beyond it) needs numbers beyond TLC's; the hazards list its lines.
* Device memory that `chacha_cbc.cu` never frees has no effect on a later call.
* `vanity_scan` has SHA-512 of the seed written out (`vanity.cu:258-352`); `VanityKernel`
  takes the keypair call's hash in its place, and that the two compute the same is not
  shown.
* `ed25519_init` asks again when the number of devices could not be had (-1); in the
  pool's model the question always gets an answer.
* The enclave's lockout parameters are stored and never read; remote attestation
  and the buffer length checks of the ECALLs are left out. `seed.c` reads the
  operating system's random numbers.
* Build and CI scripts and `jerasure-sys` have no run-time state; the tests and
  tools were read as statements of intent.

## Plan

Done: (1) `KeyCollection`, `EngineProcess`, `KeyStore`, `Finder`, with proofs;
(2) `GpuCtxPool`, with proofs; (3) `SgxSigning`, with proofs; (4) the engine, its
launch loop with proofs (`VanityEngine`) and its search kernel (`VanityKernel`);
(5) `PohPool`, with proofs; (6) the ciphers and (7) the hashes, with proofs; (8)
the arithmetic and its callers. To come, most important first:

9. Bounds of the limbs through the field operations that `ge` composes, for the
   code's own widths: what each operation assumes of its inputs and promises of
   its output, as lemmas about `Carry` and `Products`.
10. The `.env` parser of the orchestrator.
