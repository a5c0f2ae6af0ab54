----------------------------- MODULE SgxSigning -----------------------------
(***************************************************************************)
(* The signing enclave: signing_trusted.c (g_signing_params and the four   *)
(* ECALLs) and the host's wrappers in signing_untrusted.c, which keep one  *)
(* ed25519_context_t.  Key pairs are model values, a signature is the pair *)
(* of the key that made it and the message: KeyHolders shows on the        *)
(* arithmetic that such a signature verifies under that key alone.         *)
(*                                                                         *)
(* External: the SGX runtime.  Any of its calls may fail; an enclave may   *)
(* be lost (the machine sleeps, the host process dies); the monotonic      *)
(* counters and the host's sealed data remain.                             *)
(***************************************************************************)
EXTENDS Integers, FiniteSets, Sequences

CONSTANTS
  Keys,         \* key pairs, in the order the enclave's random seeds give them: 1..n
  MaxCounters,  \* bound on the monotonic counters created
  MaxSealed     \* bound on the sealed data the host keeps

ASSUME EnclaveAssumption == Keys \subseteq Nat \ {0} /\ MaxCounters \in Nat /\ MaxSealed \in Nat

NoKey == 0
Fresh == [initialized |-> FALSE, key |-> NoKey, counter |-> 0, counter_value |-> 0]

VARIABLES
  params,    \* g_signing_params of the running enclave
  alive,     \* whether the enclave of ctxt exists
  ctxt,      \* the host's context: enclaveEnabled and public_key
  blobs,     \* data sealed so far, copies of g_signing_params
  counters,  \* the platform's monotonic counters: counters[c] is c's value
  passed,    \* for each counter, how many reinitialisations it let through
  used,      \* the key pairs drawn so far
  result     \* the last call and its answer

enclaveVars == <<params, alive, ctxt, blobs, counters, passed, used, result>>

Answer(call, ok) == [call |-> call, ok |-> ok, key |-> NoKey]
NoContext == [enclaveEnabled |-> FALSE, public_key |-> NoKey]

EnclaveInit ==
  /\ params = Fresh /\ alive = FALSE /\ ctxt = NoContext
  /\ blobs = {} /\ counters = <<>> /\ passed = <<>> /\ used = 0
  /\ result = Answer("none", TRUE)

-----------------------------------------------------------------------------
CanCount == Len(counters) < MaxCounters

(* init_ed25519: an enclave is made; init_sgx_ed25519 gets a session,      *)
(* trying again while the service is busy, creates a counter right in      *)
(* g_signing_params, draws a seed and makes the key pair.                  *)
InitEd25519 ==
  /\ ~alive /\ CanCount /\ used + 1 \in Keys
  /\ counters' = Append(counters, 1) /\ passed' = Append(passed, 0)
  /\ used' = used + 1
  /\ params' = [initialized |-> TRUE, key |-> used', counter |-> Len(counters'), counter_value |-> 1]
  /\ alive' = TRUE
  /\ ctxt' = [enclaveEnabled |-> TRUE, public_key |-> used']
  /\ result' = Answer("init", TRUE)
  /\ UNCHANGED blobs

(* Any of these calls fails: the enclave is destroyed and ctxt left, but   *)
(* an ECALL that answered has cleared the out buffer.  The counter, once   *)
(* made, stays.                                                            *)
InitFails(counted, cleared) ==
  /\ ~alive
  /\ counted => CanCount /\ cleared
  /\ counters' = IF counted THEN Append(counters, 1) ELSE counters
  /\ passed' = IF counted THEN Append(passed, 0) ELSE passed
  /\ ctxt' = IF cleared THEN [ctxt EXCEPT !.public_key = NoKey] ELSE ctxt
  /\ result' = Answer("init", FALSE)
  /\ UNCHANGED <<params, alive, blobs, used>>

(* get_ed25519_data: g_signing_params as it is. *)
GetData ==
  /\ ctxt.enclaveEnabled /\ alive
  /\ Cardinality(blobs \union {params}) <= MaxSealed
  /\ blobs' = blobs \union {params}
  /\ result' = Answer("seal", TRUE)
  /\ UNCHANGED <<params, alive, ctxt, counters, passed, used>>

-----------------------------------------------------------------------------
(* init_ed25519_from_data.  The counter read, compared and incremented is  *)
(* the one of the running enclave; the unsealed data, with its counter and *)
(* counter_value, then replaces g_signing_params.                          *)
CounterUnchecked == TRUE  \* mutant
CounterMatches == counters[params.counter] = params.counter_value

Restored(data) == [data EXCEPT !.initialized = TRUE]
(* Mutant: the restored key is not shown to the host. *)
ReinitUnshown(data) ==
  /\ ctxt.enclaveEnabled /\ alive /\ CounterMatches
  /\ counters' = [counters EXCEPT ![params.counter] = @ + 1]
  /\ passed' = [passed EXCEPT ![params.counter] = @ + 1]
  /\ params' = Restored(data)
  /\ result' = Answer("reinit", TRUE)
  /\ UNCHANGED <<alive, ctxt, blobs, used>>

Reinit(data) ==
  /\ ctxt.enclaveEnabled /\ alive /\ CounterMatches
  /\ counters' = [counters EXCEPT ![params.counter] = @ + 1]
  /\ passed' = [passed EXCEPT ![params.counter] = @ + 1]
  /\ params' = Restored(data)
  /\ ctxt' = [ctxt EXCEPT !.public_key = params'.key]
  /\ result' = Answer("reinit", TRUE)
  /\ UNCHANGED <<alive, blobs, used>>

(* It fails before the increment or, its reply lost, behind it;            *)
(* g_signing_params is kept.  The out buffer comes back cleared unless the *)
(* ECALL itself failed.                                                    *)
AfterRefusal(cleared) == IF cleared THEN [ctxt EXCEPT !.public_key = NoKey] ELSE ctxt
ReinitFails(data, incremented, cleared) ==
  /\ ctxt.enclaveEnabled /\ alive
  /\ incremented => CounterMatches /\ cleared
  /\ counters' = IF incremented THEN [counters EXCEPT ![params.counter] = @ + 1] ELSE counters
  /\ ctxt' = AfterRefusal(cleared)
  /\ result' = Answer("reinit", FALSE)
  /\ UNCHANGED <<params, alive, blobs, passed, used>>

(* sign_ed25519; the history is not looked at.  A released or lost enclave *)
(* answers with an error.                                                  *)
Signer == IF params.initialized THEN params.key ELSE NoKey
SignWith ==
  /\ ctxt.enclaveEnabled
  /\ result' = [call |-> "sign", ok |-> alive /\ Signer # NoKey,
                key |-> IF alive THEN Signer ELSE NoKey]
  /\ UNCHANGED <<params, alive, ctxt, blobs, counters, passed, used>>

(* release_ed25519_context leaves the context as it is. *)
ReleaseContext ==
  /\ alive
  /\ alive' = FALSE /\ params' = Fresh
  /\ result' = Answer("release", TRUE)
  /\ UNCHANGED <<ctxt, blobs, counters, passed, used>>

LoseEnclave ==
  /\ alive
  /\ alive' = FALSE /\ params' = Fresh
  /\ ctxt' \in {ctxt, NoContext}
  /\ result' = Answer("lost", TRUE)
  /\ UNCHANGED <<blobs, counters, passed, used>>

Enclave ==
  \/ InitEd25519 \/ \E counted, cleared \in BOOLEAN : InitFails(counted, cleared)
  \/ GetData
  \/ \E data \in blobs : Reinit(data)
  \/ \E data \in blobs, incremented, cleared \in BOOLEAN : ReinitFails(data, incremented, cleared)
  \/ SignWith \/ ReleaseContext \/ LoseEnclave

EnclaveSpec == EnclaveInit /\ [][Enclave]_enclaveVars

(* The enclave on a platform that never fails. *)
Reliable == InitEd25519 \/ GetData \/ (\E data \in blobs : Reinit(data)) \/ SignWith \/ ReleaseContext

-----------------------------------------------------------------------------
(* Whatever calls succeeded or failed before, restarts included: a public  *)
(* key the context shows is the one that the enclave's signatures verify   *)
(* under.  (A failed call clears the shown key while the enclave goes on   *)
(* signing with its own.)                                                  *)
SignsAsPublished ==
  alive /\ ctxt.public_key # NoKey => Signer = ctxt.public_key

(* A monotonic counter lets at most one reinitialisation through, in all   *)
(* enclaves together: data sealed before cannot be played back through it  *)
(* again, because the restored counter_value is the one before the         *)
(* increment.                                                              *)
CountersPassOnce == \A c \in DOMAIN passed : passed[c] <= 1

(* "The sealed data can be used to reinit the enclave using                *)
(* init_ed25519_from_data()" (signing_public.h): the enclave whose data    *)
(* was just sealed does not refuse it for its counter.                     *)
SealedDataReinits == result.call = "seal" => CounterMatches
=============================================================================
