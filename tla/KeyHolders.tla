----------------------------- MODULE KeyHolders -----------------------------
(***************************************************************************)
(* A holder of a key pair, an observer who knows the public key, and a     *)
(* peer, calling the ed25519 library: keypair.c, sign.c, verify.c,         *)
(* add_scalar.c and key_exchange.c on the arithmetic of Ed25519.           *)
(***************************************************************************)
EXTENDS Ed25519

CONSTANTS
  HolderSeeds,  \* seeds of the holder's key
  PeerSeed,     \* the seed of the peer's key
  Messages,     \* messages to sign
  Scalars,      \* scalars added to the key
  MaxShifts     \* bound on the additions

None == [call |-> "none"]

VARIABLES
  holder,    \* the holder's key pair; a public key moved later lags behind
  lagging,   \* the scalars the holder has added to the private key only
  observed,  \* the public key the observer has computed
  unseen,    \* the scalars the observer has still to add
  shifts,    \* additions so far
  post,      \* the last signature, its message and the signer's public key
  answer     \* what the last call returned, None after a call without answer

holderVars == <<holder, lagging, observed, unseen, shifts, post, answer>>

peer == ed25519_create_keypair[PeerSeed]

HolderInit ==
  /\ holder = None /\ lagging = <<>>
  /\ observed = Null /\ unseen = <<>> /\ shifts = 0
  /\ post = None /\ answer = None

CreateKeypair(seed) ==
  /\ holder = None
  /\ holder' = ed25519_create_keypair[seed]
  /\ observed' = holder'.public_key
  /\ UNCHANGED <<lagging, unseen, shifts, post, answer>>

CanShift(scalar) == holder # None /\ lagging = <<>> /\ shifts < MaxShifts

(* Both halves in one call. *)
AddScalar(scalar) ==
  /\ CanShift(scalar)
  /\ holder' = ed25519_add_scalar(holder.public_key, holder.private_key, scalar)
  /\ unseen' = Append(unseen, scalar)
  /\ shifts' = shifts + 1 /\ answer' = None
  /\ UNCHANGED <<lagging, observed, post>>

(* Each half in a call of its own, as the comment on timing advises. *)
AddToPrivate(scalar) ==
  /\ CanShift(scalar)
  /\ holder' = [holder EXCEPT !.private_key = ed25519_add_scalar(Null, @, scalar).private_key]
  /\ lagging' = <<scalar>> /\ unseen' = Append(unseen, scalar)
  /\ shifts' = shifts + 1 /\ answer' = None
  /\ UNCHANGED <<observed, post>>
AddToPublic ==
  /\ lagging # <<>>
  /\ holder' = [holder EXCEPT !.public_key = ed25519_add_scalar(@, Null, Head(lagging)).public_key]
  /\ lagging' = <<>> /\ answer' = None
  /\ UNCHANGED <<observed, unseen, shifts, post>>

Observe ==
  /\ unseen # <<>>
  /\ observed' = ed25519_add_scalar(observed, Null, Head(unseen)).public_key
  /\ unseen' = Tail(unseen) /\ answer' = None
  /\ UNCHANGED <<holder, lagging, shifts, post>>

Sign(message) ==
  /\ holder # None /\ lagging = <<>> /\ post = None
  /\ post' = [call |-> "sign", message |-> message, key |-> holder.public_key,
              signature |-> ed25519_sign[message, holder.public_key, holder.private_key]]
  /\ answer' = None
  /\ UNCHANGED <<holder, lagging, observed, unseen, shifts>>

(* The observer checks the signature with the key it has. *)
Verify(message) ==
  /\ post # None /\ answer = None
  /\ answer' = [call |-> "verify", message |-> message, key |-> observed,
                valid |-> ed25519_verify[post.signature, message, observed]]
  /\ UNCHANGED <<holder, lagging, observed, unseen, shifts, post>>

Exchange ==
  /\ holder # None /\ lagging = <<>> /\ answer = None
  /\ answer' = [call |-> "exchange",
                mine   |-> ed25519_key_exchange[peer.public_key, holder.private_key],
                theirs |-> ed25519_key_exchange[holder.public_key, peer.private_key]]
  /\ UNCHANGED <<holder, lagging, observed, unseen, shifts, post>>

Holders ==
  \/ \E seed \in HolderSeeds : CreateKeypair(seed)
  \/ \E scalar \in Scalars : AddScalar(scalar) \/ AddToPrivate(scalar)
  \/ AddToPublic
  \/ Observe
  \/ \E message \in Messages : Sign(message) \/ Verify(message)
  \/ Exchange

-----------------------------------------------------------------------------
(* ed25519_verify accepts a signature exactly for the message and the      *)
(* public key it was made with, whether the key pair is fresh or has been  *)
(* moved by add_scalar (sc_muladd and ge_double_scalarmult_vartime agree). *)
SignaturesVerify ==
  answer.call = "verify" =>
    (answer.valid <=> answer.message = post.message /\ answer.key = post.key)

(* add_scalar moves a public key to the same point whether the private key *)
(* is known, the halves are moved apart, or only the public key is known.  *)
PublicKeysFollow ==
  holder # None /\ lagging = <<>> /\ unseen = <<>> => observed = holder.public_key

(* Two fresh key pairs agree on the secret, each with the other's public   *)
(* key.  (After add_scalar the private scalar is no longer clamped, and    *)
(* the exchange, which clamps it, uses another one.)                       *)
SecretsAgree ==
  answer.call = "exchange" /\ shifts = 0 => answer.mine = answer.theirs
=============================================================================
