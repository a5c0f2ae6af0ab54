--------------------------- MODULE ChunkedCipher ----------------------------
(***************************************************************************)
(* CBC and CTR over many keys at once (aes_cbc.cu, chacha_cbc.cu).  A call *)
(* copies the input to the device chunk by chunk; one thread per key       *)
(* enciphers the chunk into its part of the output memory, reading the     *)
(* chaining block back from there, and leaves the last block in its ivec.  *)
(* The sampling variant hashes slices of what it has just written.         *)
(* Threads proceed block by block in any order.                            *)
(*                                                                         *)
(* mode is the function called: "aes" AES_cbc_encrypt_many, "chacha"       *)
(* chacha_cbc_encrypt_many, "sample" chacha_cbc_encrypt_many_sample, "ctr" *)
(* chacha_ctr_encrypt_many.                                                *)
(***************************************************************************)
EXTENDS AesCore, ChaChaCore, Sha2

CONSTANTS
  BLOCK_SIZE,   \* bytes of a chunk: 4096, a multiple of 64
  SAMPLE_SIZE,  \* bytes of a sample: 32
  Modes,        \* the functions called
  KeyBytes,     \* the keys, 32 bytes each; thread k has key k
  Ivec,         \* the first ivec of each key, 64 bytes (a nonce: the first 12)
  Inputs(_),    \* inputs of a caller's n-th call, as sequences of bytes
  Samples,      \* sample lists
  MaxCalls,     \* bound on the calls of one caller
  Trips         \* inputs of the host's encryption and decryption

ASSUME ChunkAssumption ==
  /\ BLOCK_SIZE \in Nat /\ BLOCK_SIZE >= 64 /\ BLOCK_SIZE <= 2147483647 /\ BLOCK_SIZE % 64 = 0
  /\ SAMPLE_SIZE \in Nat \ {0} /\ 64 % SAMPLE_SIZE = 0
ASSUME KeyAssumption ==
  /\ KeyBytes \in Seq(Seq(0..255)) /\ Ivec \in Seq(Seq(0..255)) /\ Len(Ivec) = Len(KeyBytes)
  /\ \A k \in DOMAIN KeyBytes : Len(KeyBytes[k]) = 32 /\ Len(Ivec[k]) = 64
ASSUME CallAssumption ==
  /\ Modes \subseteq {"aes", "chacha", "sample", "ctr"} /\ Samples \subseteq Seq(Nat)
  /\ MaxCalls \in Nat /\ \A n \in 1..MaxCalls : Inputs(n) \subseteq Seq(0..255)
  /\ Trips \subseteq Seq(0..255)

NoCall == <<>>

VARIABLES
  mode,     \* the function this caller uses, "none" before; "host" for the host's
  num_keys, \* how many of the keys
  sample_idx, \* its sample list
  ivec,     \* the ivec of each key
  sha,      \* the hash state of each key
  given,    \* the inputs of the calls so far
  calls,    \* how many calls
  call,     \* [in, i, start]: the input, the chunk and the offset of the call in progress
  out,      \* the output memory of the call
  at,       \* for each thread, the bytes of the chunk it has done
  finished, \* threads that have ended on this chunk
  digests,  \* the digests of the samples, one per key
  trip      \* the host's last encryption and decryption

cipherVars == <<mode, num_keys, sample_idx, ivec, sha, given, calls, call, out, at, finished, digests, trip>>

Joined(parts) == Along([s \in Seq(Nat) |-> [part_ \in Seq(Nat) |-> s \o part_]], <<>>, parts)
KeyNumbers == 1..num_keys
Schedules == [k \in DOMAIN KeyBytes |-> AES_set_encrypt_key[KeyBytes[k]][128]] \o <<>>

CipherInit ==
  /\ mode = "none" /\ num_keys = 0 /\ sample_idx = <<>> /\ ivec = <<>> /\ sha = <<>> /\ given = <<>> /\ calls = 0
  /\ call = NoCall /\ out = <<>> /\ at = <<>> /\ finished = {} /\ digests = <<>> /\ trip = <<>>

-----------------------------------------------------------------------------
(* Pure parts.                                                             *)
CipherBlock(m) == IF m = "aes" THEN 16 ELSE 64
(* ChaCha ignores the key: the block is all the input it has. *)
Enciphered(m, key, block) ==
  IF m = "aes" THEN AES_encrypt[block][key] ELSE chacha20_encrypt[block][CHACHA_ROUNDS]

(* Input bytes done + 1.. under iv; a short rest is filled with iv's bytes. *)
Mixed(in, done_, iv) ==
  [n \in DOMAIN iv |-> IF done_ + n <= Len(in) THEN XorByte(in[done_ + n], iv[n]) ELSE iv[n]] \o <<>>
CbcBlock(m, key, in, done_, iv) == Enciphered(m, key, Mixed(in, done_, iv))

(* aes_cbc128_encrypt alone and its inverse, on the host: <<out, ivec>>.   *)
BlockStarts(in, size) == [j \in 1..((Len(in) + size - 1) \div size) |-> size * (j - 1)]
AES_cbc_encrypt(in, key, iv) ==
  Along([t \in Seq(Nat) \X Seq(Nat) |-> [from \in Nat |->
           LET block == CbcBlock("aes", key, in, from, t[2]) IN <<t[1] \o block, block>>]],
        << <<>>, iv>>, BlockStarts(in, 16))
CRYPTO_cbc128_decrypt(in, len, key, iv) ==
  Along([t \in Seq(Nat) \X Seq(Nat) |-> [from \in Nat |->
           LET block == SubSeq(in, from + 1, from + 16)
           IN <<t[1] \o SubSeq(XorBytes[AES_decrypt[block][key]][t[2]], 1, IF len - from < 16 THEN len - from ELSE 16),
                block>>]],
        << <<>>, iv>>, BlockStarts(SubSeq(in, 1, len), 16))

-----------------------------------------------------------------------------
(* The caller's set-up; chacha_init_sha_state for the samples. *)
Use(m, n, samples) ==
  /\ mode = "none" /\ (m = "sample" <=> samples # <<>>)
  /\ mode' = m /\ num_keys' = n /\ sample_idx' = samples
  /\ ivec' = [k \in 1..n |-> SubSeq(Ivec[k], 1, CipherBlock(m))]
  /\ sha' = IF m = "sample" THEN [k \in 1..n |-> init(Sha256)] ELSE <<>>
  /\ UNCHANGED <<given, calls, call, out, at, finished, digests, trip>>

(* The chunk of a call that the device has, and the stride of its threads. *)
ChunkEnd(c) == IF Len(c.in) < BLOCK_SIZE * (c.i + 1) THEN Len(c.in) ELSE BLOCK_SIZE * (c.i + 1)
Chunk(c) == SubSeq(c.in, BLOCK_SIZE * c.i + 1, ChunkEnd(c))
Stride(c) == IF mode = "sample" THEN BLOCK_SIZE ELSE Len(Chunk(c))

(* A call; all functions but the sampling one refuse a length below        *)
(* BLOCK_SIZE.                                                             *)
Call(in) ==
  /\ mode \notin {"none", "host"} /\ call = NoCall /\ digests = <<>> /\ calls < MaxCalls
  /\ calls' = calls + 1
  /\ \/ /\ mode # "sample" /\ Len(in) < BLOCK_SIZE
        /\ UNCHANGED <<call, out, at, finished>>
     \/ /\ mode = "sample" \/ Len(in) >= BLOCK_SIZE
        /\ call' = [in |-> in, i |-> 0, start |-> Len(Joined(given))]
        /\ out' = ZeroBytes(num_keys * BLOCK_SIZE)
        /\ at' = [k \in KeyNumbers |-> 0] /\ finished' = {}
  /\ UNCHANGED <<mode, num_keys, sample_idx, ivec, sha, given, digests, trip>>

(* Thread k's next block.                                                  *)
Place(k) == Stride(call) * (k - 1) + at[k]
ChainBlockBefore(k) == ivec[k]  \* mutant: every block is chained to the chunk's first
ChainBlock(k) ==
  IF at[k] = 0 THEN ivec[k] ELSE SubSeq(out, Place(k) - CipherBlock(mode) + 1, Place(k))
CtrBlockOnce(k) ==  \* mutant: every block takes the first counter's key stream
  LET part == SubSeq(Chunk(call), at[k] + 1, IF at[k] + 64 < Len(Chunk(call)) THEN at[k] + 64 ELSE Len(Chunk(call)))
  IN XorBytes[part][KeyStream(KeyBytes[k], SubSeq(Ivec[k], 1, 12), 0)]
CtrBlock(k) ==
  LET part == SubSeq(Chunk(call), at[k] + 1, IF at[k] + 64 < Len(Chunk(call)) THEN at[k] + 64 ELSE Len(Chunk(call)))
  IN XorBytes[part][KeyStream(KeyBytes[k], SubSeq(Ivec[k], 1, 12), at[k] \div 64)]
Written(k) ==
  IF mode = "ctr" THEN CtrBlock(k) ELSE CbcBlock(mode, Schedules[k], Chunk(call), at[k], ChainBlock(k))

Overwritten(memory, place, bytes) ==
  SubSeq(memory, 1, place) \o bytes \o SubSeq(memory, place + Len(bytes) + 1, Len(memory))

ThreadBlock(k) ==
  /\ call # NoCall /\ at[k] < Len(Chunk(call))
  /\ \E bytes \in {Written(k)} :
       /\ out' = Overwritten(out, Place(k), bytes)
       /\ at' = [at EXCEPT ![k] = @ + Len(bytes)]
  /\ UNCHANGED <<mode, num_keys, sample_idx, ivec, sha, given, calls, call, finished, digests, trip>>

(* It ends: the last block to its ivec; then the samples in this chunk.    *)
OffsetInCall(c) == BLOCK_SIZE * c.i  \* mutant: the offset starts over in each call
Offset(c) == BLOCK_SIZE * c.i + c.start
InChunk(sample) == sample * SAMPLE_SIZE >= Offset(call) /\ sample * SAMPLE_SIZE < Offset(call) + Len(Chunk(call))
Sampled(k) ==
  Along([state \in HashState |-> [sample \in Nat |->
           IF InChunk(sample)
           THEN LET from == Stride(call) * (k - 1) + sample * SAMPLE_SIZE - Offset(call)
                IN process[Sha256][state][SubSeq(out, from + 1, from + SAMPLE_SIZE)]
           ELSE state]], sha[k], sample_idx)
ThreadEnds(k) ==
  /\ call # NoCall /\ at[k] >= Len(Chunk(call)) /\ k \notin finished
  /\ finished' = finished \union {k}
  /\ ivec' = IF mode = "ctr" \/ Chunk(call) = <<>> THEN ivec ELSE [ivec EXCEPT ![k] = ChainBlock(k)]
  /\ sha' = IF mode = "sample" THEN [sha EXCEPT ![k] = Sampled(k)] ELSE sha
  /\ UNCHANGED <<mode, num_keys, sample_idx, given, calls, call, out, at, digests, trip>>

(* The next chunk, on the same stream and in the same memory, or return. *)
LastChunk(c) == Len(c.in) <= BLOCK_SIZE * (c.i + 1)
NextChunk ==
  /\ call # NoCall /\ finished = KeyNumbers
  /\ finished' = {} /\ at' = [k \in KeyNumbers |-> 0]
  /\ IF LastChunk(call)
     THEN call' = NoCall /\ given' = Append(given, call.in) /\ out' = <<>>
     ELSE call' = [call EXCEPT !.i = @ + 1] /\ UNCHANGED <<given, out>>
  /\ UNCHANGED <<mode, num_keys, sample_idx, ivec, sha, calls, digests, trip>>

(* chacha_end_sha_state. *)
EndShaState ==
  /\ mode = "sample" /\ call = NoCall /\ calls > 0 /\ digests = <<>>
  /\ digests' = [k \in KeyNumbers |-> done(Sha256, sha[k])]
  /\ UNCHANGED <<mode, num_keys, sample_idx, ivec, sha, given, calls, call, out, at, finished, trip>>

(* AES_cbc_encrypt there and back on the host. *)
RoundTrip(k, bits, in) ==
  /\ mode = "none" /\ mode' = "host"
  /\ \E there \in {AES_cbc_encrypt(in, AES_set_encrypt_key[KeyBytes[k]][bits], SubSeq(Ivec[k], 1, 16))} :
       \E back \in {CRYPTO_cbc128_decrypt(there[1], Len(in), AES_set_decrypt_key(KeyBytes[k], bits),
                                          SubSeq(Ivec[k], 1, 16))} :
         trip' = [in |-> in, ivec |-> there[2], plain |-> back[1], after |-> back[2]]
  /\ UNCHANGED <<num_keys, sample_idx, ivec, sha, given, calls, call, out, at, finished, digests>>

Cipher ==
  \/ \E m \in Modes, n \in DOMAIN KeyBytes, samples \in Samples \union {<<>>} : Use(m, n, samples)
  \/ \E in \in Inputs(calls + 1) : Call(in)
  \/ \E k \in KeyNumbers : ThreadBlock(k) \/ ThreadEnds(k)
  \/ NextChunk
  \/ EndShaState
  \/ \E k \in DOMAIN KeyBytes, bits \in {128, 192, 256}, in \in Trips : RoundTrip(k, bits, in)

CipherSpec == CipherInit /\ [][Cipher]_cipherVars

-----------------------------------------------------------------------------
(* What AES encrypts its decryption gives back, for the three key sizes    *)
(* and any length, with the same chaining block left behind.               *)
AesInverts == trip # <<>> => trip.plain = trip.in /\ trip.after = trip.ivec

(* The reference: CBC of a whole stream, filled with zeros to the block.   *)
(* Component 1 is the first ivec, j + 1 the j-th block.                    *)
StreamOf(k, stream) ==
  LET size == CipherBlock(mode)
      filled == stream \o ZeroBytes((size - (Len(stream) % size)) % size)
  IN Along([cs \in Seq(Seq(Nat)) |-> [from \in Nat |->
              Append(cs, Enciphered(mode, Schedules[k],
                                    XorBytes[SubSeq(filled, from + 1, from + size)][cs[Len(cs)]]))]],
           <<SubSeq(Ivec[k], 1, size)>>, BlockStarts(filled, size))
(* No thread writes over its neighbour: the inputs are whole blocks, or the *)
(* last one is padded where there is room - one key, or the sampling       *)
(* variant, whose threads write BLOCK_SIZE bytes apart.                    *)
Alone == num_keys = 1 \/ mode = "sample"
Whole(inputs) ==
  \A i \in DOMAIN inputs :
    Len(inputs[i]) % CipherBlock(mode) = 0 \/ (i = Len(inputs) /\ Alone)

(* CBC in chunks and calls, with any interleaving of the keys' threads in  *)
(* the shared output memory: every block a thread has written is the block *)
(* of the one-shot CBC of that key, and between calls the ivec is its last *)
(* one - where no thread writes over its neighbour (see CbcAtAnyLength).   *)
OutputOf(k, count) == SubSeq(out, Stride(call) * (k - 1) + 1, Stride(call) * (k - 1) + count)
CbcIsOneShot(so_far, before) ==
  LET size == CipherBlock(mode)
  IN Whole(so_far) =>
       \A k \in KeyNumbers : \E blocks \in {StreamOf(k, Joined(so_far))} :
         /\ call = NoCall \/ k \in finished => ivec[k] = blocks[Len(blocks)]
         /\ call # NoCall =>
              OutputOf(k, size * (at[k] \div size))
                = Joined(SubSeq(blocks, before \div size + 2, before \div size + 1 + at[k] \div size))
StreamsAreOneShot ==
  mode \in {"aes", "chacha", "sample"} =>
    IF call = NoCall THEN CbcIsOneShot(given, 0)
    ELSE CbcIsOneShot(Append(given, SubSeq(call.in, 1, ChunkEnd(call))), Offset(call))

(* CTR: what each thread has written of a chunk, of any length and with    *)
(* any interleaving, is chacha20_ctr_encrypt of that chunk alone, from     *)
(* counter 0 in every chunk (see CtrContinues).                            *)
ChunksAreCtr ==
  mode = "ctr" /\ call # NoCall =>
    \A k \in KeyNumbers :
      OutputOf(k, at[k])
        = SubSeq(chacha20_ctr_encrypt(Chunk(call), KeyBytes[k], SubSeq(Ivec[k], 1, 12), 0), 1, at[k])

(* test_chacha_ctr: the output is that of one chacha20_ctr_encrypt over    *)
(* the whole input.                                                        *)
CtrContinues ==
  mode = "ctr" /\ call # NoCall =>
    \A k \in KeyNumbers :
      OutputOf(k, at[k])
        = SubSeq(chacha20_ctr_encrypt(call.in, KeyBytes[k], SubSeq(Ivec[k], 1, 12), 0),
                 BLOCK_SIZE * call.i + 1, BLOCK_SIZE * call.i + at[k])

(* test_aes and test_chacha_cbc: after one call every key's ivec is that   *)
(* of the one-shot CBC, for any number of keys and any length.             *)
CbcAtAnyLength ==
  mode \in {"aes", "chacha"} /\ call = NoCall /\ Len(given) = 1 =>
    \A k \in KeyNumbers : \E blocks \in {StreamOf(k, given[1])} : ivec[k] = blocks[Len(blocks)]

(* The digest of a key's samples is the hash of the sampled slices of its  *)
(* one-shot ciphertext, in the order of an ascending sample list, whichever *)
(* calls and chunks the slices fell into; samples beyond the input count   *)
(* for nothing.                                                            *)
Ascending(list) == \A i, j \in DOMAIN list : i < j => list[i] <= list[j]
Slices(k) ==
  LET cipher == Joined(Tail(StreamOf(k, Joined(given))))
  IN Along([s \in Seq(Nat) |-> [sample \in Nat |->
              IF sample * SAMPLE_SIZE < Len(Joined(given))
              THEN s \o SubSeq(cipher, sample * SAMPLE_SIZE + 1, sample * SAMPLE_SIZE + SAMPLE_SIZE)
              ELSE s]], <<>>, sample_idx)
SamplesMatch ==
  digests # <<>> /\ Whole(given) /\ Ascending(sample_idx) =>
    \A k \in KeyNumbers : digests[k] = hash(Sha256, Slices(k))
=============================================================================
