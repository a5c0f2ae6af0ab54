------------------------------- MODULE MCKeys -------------------------------
(***************************************************************************)
(* Those who make and use keys: callers of the library, the threads of the *)
(* vanity kernel and the signing enclave, each alone (part), on a curve    *)
(* small enough for TLC's integers: -x^2 + y^2 = 1 - (57/58) x^2 y^2 over  *)
(* 2^85 - 19, whose order is 8 (2^82 + 531447783969), the second factor    *)
(* prime.  Limbs, carries, wraps, windows and tables are the code's.       *)
(***************************************************************************)
EXTENDS KeyHolders, VanityKernel, SgxSigning

VARIABLE part

MCLoadAt == <<0, 11, 19, 27, 35, 43, 53, 62, 69, 78, 85>>
MCLadder == << <<5, 5>>, <<10, 10>>, <<20, 20>>, <<40, 40>> >>
MCDelta  == <<-4, -17, -26, -24, 17, -62>>
MCd      == <<-119, 115, -177, 18, -106, 62, 141, 88, -18, -75>>
MCd2     == <<255, -27, 159, 35, -212, 124, -230, -79, -35, 106>>
MCsqrtm1 == <<107, -81, -2, -51, -151, -28, -12, 94, 40, 13>>
MCBaseX  == <<-223, 63, -106, -15, 21, -87, -72, -77, -146, -111>>
MCBaseY  == <<226, 122, -45, 78, 111, -67, -22, -89, -200, -33>>

(* A stand-in for SHA-512 with enough spread for different inputs. *)
Mix == [x \in Nat |-> [b \in Nat |-> (x * 16807 + 7919 * b + 12345) % 32749]]
Squeezed(a) == Along([t \in Seq(Nat) |-> [k \in Nat |-> Append(t, Mix[t[k]][k])]], <<a>>,
                     [k \in 1..(2 * StringBits - 1) |-> k])
MCSha512 ==
  [s \in Fe |-> LET t == Squeezed(Along(Mix, 1, s))
                IN [k \in 1..(2 * StringBits) |-> (t[k] \div 64) % 2] \o <<>>]

MCSeed(i)   == BitsOf[77 * i + 3][StringBits]
MCSeeds     == {MCSeed(1)}
MCPeerSeed  == MCSeed(5)
MCMessages  == {<<1, 0, 1>>, <<>>}
MCScalars   == {[k \in 1..StringBits |-> IF k % 3 = 0 \/ k > StringBits - 6 THEN 1 ELSE 0] \o <<>>}

(* Thread 1 starts at 254, 255 and so carries twice; thread 2 starts at 0, *)
(* all leading zeros.                                                      *)
MCRandomByte(id, n) ==
  CASE id = 1 /\ n = 1 -> 254
    [] id = 1 /\ n = 2 -> 255
    [] id = 1 /\ n > 2 -> (37 * n) % 256
    [] OTHER           -> IF n = SeedBytes + 1 THEN 40 ELSE 0
MCSuffix == <<32, 43>>

MCInit == part \in {"holders", "kernel", "enclave"} /\ HolderInit /\ ScanInit /\ EnclaveInit
MCNext ==
  /\ UNCHANGED part
  /\ \/ part = "holders" /\ Holders /\ UNCHANGED <<scanVars, enclaveVars>>
     \/ part = "kernel"  /\ Scan    /\ UNCHANGED <<holderVars, enclaveVars>>
     \/ part = "enclave" /\ Enclave /\ UNCHANGED <<holderVars, scanVars>>
Spec == MCInit /\ [][MCNext]_<<part, holderVars, scanVars, enclaveVars>>

MCInitEnclave == part = "enclave" /\ HolderInit /\ ScanInit /\ EnclaveInit
MCReliable == part = "enclave" /\ Reliable /\ UNCHANGED <<part, holderVars, scanVars>>
ReliableSpec == MCInitEnclave /\ [][MCReliable]_<<part, holderVars, scanVars, enclaveVars>>
=============================================================================
