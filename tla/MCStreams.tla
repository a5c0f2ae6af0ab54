----------------------------- MODULE MCStreams ------------------------------
(***************************************************************************)
(* The code that works through data in pieces, each part alone: a caller   *)
(* of the streaming hashes, a caller of the chunked ciphers with their     *)
(* threads, and threads that verify PoH hashes.  The hashes and ciphers    *)
(* are the real ones, ChaCha with 20 rounds; chunks have 128 bytes.        *)
(***************************************************************************)
EXTENDS HashStream, ChunkedCipher, PohPool

VARIABLE part

Bytes(count, by, plus) == [k \in 1..count |-> (by * k + plus) % 256] \o <<>>

MCMessage      == Bytes(400, 7, 3)
MCPieceLengths == {1, 8, 55, 64, 127}

MCKeyBytes == <<Bytes(32, 1, 0), Bytes(32, 5, 17)>>
MCIvec     == <<Bytes(64, 3, 100), Bytes(64, 11, 7)>>
MCInputs(n) == IF n = 1 THEN {Bytes(64, 13, 1), Bytes(192, 1, 50), Bytes(152, 2, 0)} ELSE {Bytes(192, 9, 2)}
MCSamples  == {<<0, 1, 5, 5, 7>>, <<3, 2, 40>>}
MCTrips    == {Bytes(1, 1, 1), Bytes(16, 1, 2), Bytes(37, 3, 1)}

MCBatches == {<<>>, <<2>>, <<0, 3, 1>>}

MCInit == part \in {"hash", "cipher", "poh"} /\ HashInit /\ CipherInit /\ PohInit
MCNext ==
  /\ UNCHANGED part
  /\ \/ part = "hash"   /\ Hash   /\ UNCHANGED <<cipherVars, pohVars>>
     \/ part = "cipher" /\ Cipher /\ UNCHANGED <<hashVars, pohVars>>
     \/ part = "poh"    /\ Poh    /\ UNCHANGED <<hashVars, cipherVars>>
Spec == MCInit /\ [][MCNext]_<<part, hashVars, cipherVars, pohVars>>

(* Answers known from the standards: "abc" under SHA-256 and SHA-512       *)
(* (sha256_test in sha256.cu has the first), FIPS 197, RFC 8439 2.3.2.     *)
abc == <<97, 98, 99>>
ASSUME KnownAnswers ==
  /\ SubSeq(hash(Sha256, abc), 1, 8) = <<186, 120, 22, 191, 143, 1, 207, 234>>
  /\ SubSeq(hash(Sha512, abc), 1, 8) = <<221, 175, 53, 161, 147, 97, 122, 186>>
  /\ AES_encrypt[[k \in 1..16 |-> 17 * (k - 1)] \o <<>>][AES_set_encrypt_key[Bytes(16, 1, 255)][128]]
       = <<105, 196, 224, 216, 106, 123, 4, 48, 216, 205, 183, 128, 112, 180, 197, 90>>
  /\ SubSeq(KeyStream(Bytes(32, 1, 255), <<0, 0, 0, 9, 0, 0, 0, 74, 0, 0, 0, 0>>, 1), 1, 8)
       = <<16, 241, 231, 228, 209, 59, 89, 21>>
=============================================================================
