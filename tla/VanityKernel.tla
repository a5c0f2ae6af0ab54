---------------------------- MODULE VanityKernel ----------------------------
(***************************************************************************)
(* The kernels of vanity.cu: vanity_init, vanity_scan and b58enc.  A       *)
(* thread draws a seed, then tries it and the seeds that follow it as      *)
(* little-endian numbers, and prints those whose address ends in the       *)
(* suffix.  Bytes are numbers here; keys come from the arithmetic of       *)
(* Ed25519.                                                                *)
(***************************************************************************)
EXTENDS Ed25519, FiniteSets

CONSTANTS
  Threads,            \* the kernel's threads
  RandomByte(_, _),   \* the n-th byte a thread's generator gives: 0..255
  suffix,             \* the characters to match, as numbers 0..57
  attempts_per_thread,
  MaxLaunches         \* bound on the launches

SeedBytes == (StringBits + 7) \div 8               \* 32

(* A seed has at least four bytes; attempts_per_thread is an int, and the  *)
(* launch loop keeps it positive.                                          *)
ASSUME SeedAssumption == SeedBytes \in Nat /\ SeedBytes >= 4
ASSUME LaunchAssumption ==
  attempts_per_thread \in Nat \ {0} /\ attempts_per_thread <= 2147483647 /\ MaxLaunches \in Nat
ASSUME GeneratorAssumption ==
  \A id \in Threads : \A n \in 1..(SeedBytes * MaxLaunches) : RandomByte(id, n) \in 0..255
ASSUME SuffixAssumption == suffix \in Seq(Nat)

VARIABLES
  state,     \* state[id]: bytes drawn from the generator, as saved in memory
  seed,      \* the seed a running thread tries next
  attempts,  \* its attempts in this launch
  tried,     \* tried[id][n]: the seeds it tried in its n-th launch, in order
  printed    \* the FOUND lines: address and seed, digits in base 58

scanVars == <<state, seed, attempts, tried, printed>>

Idle      == [k \in 1..SeedBytes |-> 0] \o <<>>    \* seed[32] = {0}
BitsOfBytes == [bytes \in Seq(0..255) |-> [k \in 1..(8 * Len(bytes)) |->
                                              (bytes[(k + 7) \div 8] \div 2 ^ ((k - 1) % 8)) % 2] \o <<>>]
BytesOfBits ==
  [s \in Fe |-> [k \in 1..SeedBytes |->
                  Number(s, 8 * k - 8, IF 8 * k < Len(s) THEN 8 * k - 1 ELSE Len(s) - 1)] \o <<>>]

-----------------------------------------------------------------------------
(* b58enc.  size digits are estimated from the bytes behind the leading    *)
(* zeros; each byte is added to 256 times the digits, from the last digit  *)
(* up to the highest one in use, and further while there is a carry.  e is *)
(* <<buf, carry, high, done>>; digit j of the code is buf[j + 1].          *)
zcount(bin) == Cardinality({k \in DOMAIN bin : \A m \in 1..k : bin[m] = 0})
size(bin)   == ((Len(bin) - zcount(bin)) * 138) \div 100 + 1

(* Mutant: the loop ends at the highest digit in use, carry or not. *)
DigitStates == Seq(Nat) \X Nat \X Nat \X BOOLEAN
DigitStepCarryless ==
  [e \in DigitStates |-> [j \in Nat |->
     IF e[4] \/ ~(j > e[3]) THEN <<e[1], e[2], IF e[4] THEN e[3] ELSE j, TRUE>>
     ELSE LET carry == e[2] + 256 * e[1][j + 1]
          IN <<[e[1] EXCEPT ![j + 1] = carry % 58], carry \div 58, e[3], FALSE>>]]

DigitStep ==
  [e \in DigitStates |-> [j \in Nat |->
     IF e[4] THEN e
     ELSE IF ~(j > e[3] \/ e[2] # 0) THEN <<e[1], e[2], j, TRUE>>
     ELSE LET carry == e[2] + 256 * e[1][j + 1]
          IN <<[e[1] EXCEPT ![j + 1] = carry % 58], carry \div 58, e[3], FALSE>>]]

(* The inner loop for one byte; it breaks off below digit 0. *)
AddByte ==
  [e \in Seq(Nat) \X Int |-> [byte \in Nat |->
     LET end == Along(DigitStep, <<e[1], byte, e[2], FALSE>>, [k \in 1..Len(e[1]) |-> Len(e[1]) - k])
     IN <<end[1], IF end[4] THEN end[3] ELSE 0>>]]

Zeros(n) == [k \in 1..n |-> 0] \o <<>>
b58enc ==
  [bin \in Seq(Nat) |->
     LET buf == Along(AddByte, <<Zeros(size(bin)), size(bin) - 1>>, SubSeq(bin, zcount(bin) + 1, Len(bin)))[1]
     IN Zeros(zcount(bin)) \o SubSeq(buf, zcount(buf) + 1, Len(buf))]

-----------------------------------------------------------------------------
(* The seed's next value: 255 becomes 0 and carries, another byte ends it. *)
(* Mutant: only the first byte counts. *)
IncrementByte(bytes) == [bytes EXCEPT ![1] = (@ + 1) % 256]

Increment(bytes) ==
  LET full == Cardinality({k \in DOMAIN bytes : \A m \in 1..k : bytes[m] = 255})
  IN [k \in DOMAIN bytes |-> IF k <= full THEN 0 ELSE IF k = full + 1 THEN bytes[k] + 1 ELSE bytes[k]] \o <<>>

KeyOf(bytes) == BytesOfBits[ed25519_create_keypair[BitsOfBytes[bytes]].public_key]
Address(bytes) == b58enc[KeyOf(bytes)]
Match(key) ==
  Len(key) >= Len(suffix) /\ \A j \in DOMAIN suffix : key[Len(key) - Len(suffix) + j] = suffix[j]

ScanInit ==
  /\ state = [id \in Threads |-> 0] /\ seed = [id \in Threads |-> Idle]
  /\ attempts = [id \in Threads |-> attempts_per_thread]
  /\ tried = [id \in Threads |-> <<>>] /\ printed = {}

(* A launch: the seed is drawn.  The generator's state is saved at the end *)
(* of the kernel, which stands for it here as the thread alone uses it.    *)
Drawn(id, before) == [k \in 1..SeedBytes |-> RandomByte(id, before + k)] \o <<>>

Draw(id) ==
  /\ attempts[id] = attempts_per_thread /\ Len(tried[id]) < MaxLaunches
  /\ seed' = [seed EXCEPT ![id] = Drawn(id, state[id])]
  /\ attempts' = [attempts EXCEPT ![id] = 0]
  /\ tried' = [tried EXCEPT ![id] = Append(@, <<>>)]
  /\ UNCHANGED <<state, printed>>

Saved(drawn) == drawn + SeedBytes

(* One attempt; the last one ends the thread and saves its generator. *)
Attempt(id) ==
  /\ attempts[id] < attempts_per_thread
  /\ \E key \in {Address(seed[id])} :
       printed' = IF Match(key) THEN printed \union {[address |-> key, seed |-> b58enc[seed[id]]]} ELSE printed
  /\ tried' = [tried EXCEPT ![id][Len(tried[id])] = Append(@, seed[id])]
  /\ seed' = [seed EXCEPT ![id] = Increment(@)]
  /\ attempts' = [attempts EXCEPT ![id] = @ + 1]
  /\ state' = [state EXCEPT ![id] = IF attempts[id] + 1 = attempts_per_thread THEN Saved(@) ELSE @]

Scan == \E id \in Threads : Draw(id) \/ Attempt(id)
ScanSpec == ScanInit /\ [][Scan]_scanVars

-----------------------------------------------------------------------------
(* The bytes a Base58 string stands for, computed the way decoders do it:  *)
(* leading ones are zero bytes, the rest 58 times the bytes so far plus a  *)
(* digit.                                                                  *)
TimesPlus ==
  [bytes \in Seq(0..255) |-> [digit \in Nat |->
     LET t == Along([a \in Seq(0..255) \X Nat |-> [k \in Nat |->
                       <<(<<(58 * bytes[k] + a[2]) % 256>>) \o a[1], (58 * bytes[k] + a[2]) \div 256>>]],
                    << <<>>, digit>>, [k \in 1..Len(bytes) |-> Len(bytes) + 1 - k])
     IN IF t[2] = 0 THEN t[1] ELSE <<t[2]>> \o t[1]]]
Decoded == [text \in Seq(Nat) |->
              Zeros(zcount(text)) \o Along(TimesPlus, <<>>, SubSeq(text, zcount(text) + 1, Len(text)))]

(* The FOUND lines are exact.  The Base58 text of the last seed tried and  *)
(* of its key decode to them (the digits, the size estimate and the loop   *)
(* bounds of b58enc lose nothing), and a line is printed for that seed     *)
(* exactly when the key of the library's own keypair call has an address   *)
(* that ends in the suffix; every line printed names a tried seed and its  *)
(* key.                                                                    *)
EndsInSuffix(text) == \E k \in 0..Len(text) : SubSeq(text, k + 1, Len(text)) = suffix
FoundKeysMatch ==
  /\ \A id \in Threads : \A n \in DOMAIN tried[id] :
       n = Len(tried[id]) /\ tried[id][n] # <<>> =>
         LET last == tried[id][n][Len(tried[id][n])]
         IN \E key \in {KeyOf(last)} : \E address \in {b58enc[key]} :
              /\ Decoded[address] = key /\ Decoded[b58enc[last]] = last
              /\ [address |-> address, seed |-> b58enc[last]] \in printed <=> EndsInSuffix(address)
  /\ \A line \in printed :
       \E id \in Threads : \E n \in DOMAIN tried[id] : \E k \in DOMAIN tried[id][n] :
         tried[id][n][k] = Decoded[line.seed] /\ KeyOf(tried[id][n][k]) = Decoded[line.address]

(* No thread tries a seed twice in a launch, where each seed is the number *)
(* after the one before (a lost carry would turn the walk around), and no  *)
(* byte of its generator starts two launches: the n-th begins with the     *)
(* n-th seed's worth of bytes, from the state the launch before it saved.  *)
LowBytes(bytes) == bytes[1] + 256 * bytes[2] + 65536 * bytes[3]
SeedsAreFresh ==
  \A id \in Threads : \A n \in DOMAIN tried[id] :
    LET walk == tried[id][n]
    IN /\ walk # <<>> => walk[1] = Drawn(id, SeedBytes * (n - 1))
       /\ \A i \in 2..Len(walk) : LowBytes(walk[i]) = (LowBytes(walk[i - 1]) + 1) % 16777216
       /\ \A i, j \in DOMAIN walk : i # j => walk[i] # walk[j]
=============================================================================
