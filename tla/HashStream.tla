----------------------------- MODULE HashStream -----------------------------
(***************************************************************************)
(* A caller of the streaming hashes: sha256_init, sha256_process,          *)
(* sha256_done and the sha512 counterparts, fed a message in pieces of any *)
(* lengths.                                                                *)
(***************************************************************************)
EXTENDS Sha2

CONSTANTS
  Message,     \* a long message: byte k of the stream
  PieceLengths,
  MaxPieces    \* bound on the pieces

ASSUME MessageAssumption == Message \in Seq(0..255)
ASSUME PieceLengthsAssumption == PieceLengths \subseteq Nat

VARIABLES
  hashing,  \* the algorithm's parameters, None before init
  md,       \* the hash state
  fed,      \* the bytes given to process so far
  pieces,   \* how many pieces
  digest    \* what done returned

hashVars == <<hashing, md, fed, pieces, digest>>

None == <<>>

HashInit == hashing = None /\ md = None /\ fed = <<>> /\ pieces = 0 /\ digest = None

Begin(alg) ==
  /\ hashing = None
  /\ hashing' = alg /\ md' = init(alg)
  /\ UNCHANGED <<fed, pieces, digest>>

Feed(n) ==
  /\ hashing # None /\ digest = None /\ pieces < MaxPieces /\ Len(fed) + n <= Len(Message)
  /\ \E piece \in {SubSeq(Message, Len(fed) + 1, Len(fed) + n)} :
       /\ md' = process[hashing][md][piece]
       /\ fed' = fed \o piece
  /\ pieces' = pieces + 1
  /\ UNCHANGED <<hashing, digest>>

Finish ==
  /\ hashing # None /\ digest = None
  /\ digest' = done(hashing, md)
  /\ UNCHANGED <<hashing, md, fed, pieces>>

Hash == (\E alg \in {Sha256, Sha512} : Begin(alg)) \/ (\E n \in PieceLengths : Feed(n)) \/ Finish
HashSpec == HashInit /\ [][Hash]_hashVars

-----------------------------------------------------------------------------
(* The digest does not depend on how the message was cut: it is the one    *)
(* that FIPS 180 defines on the whole message, which is framed by a one    *)
(* bit, zeros and its length in bits (8 or 16 bytes) to a multiple of the  *)
(* block and compressed block by block.                                    *)
Framed(alg, message) ==
  LET tail == IF alg.limbs = 4 THEN 17 ELSE 9
      zeros == (alg.block - ((Len(message) + tail) % alg.block)) % alg.block
  IN message \o <<128>> \o ZeroBytes(zeros + tail - 9) \o LengthBytes(8 * Len(message))
WholeDigest(alg, message) ==
  LET all == Framed(alg, message)
  IN WordBytes[alg][Along([s \in Seq(Seq(Nat)) |-> [k \in Nat |->
                             compress[alg][s][SubSeq(all, alg.block * (k - 1) + 1, alg.block * k)]]],
                          Narrow(alg, InitialState), [k \in 1..(Len(all) \div alg.block) |-> k])]
DigestsAreWhole == digest # None => digest = WholeDigest(hashing, fed)
=============================================================================
