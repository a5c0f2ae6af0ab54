--------------------------- MODULE KeyCollection ---------------------------
(***************************************************************************)
(* The MongoDB collection the finders share, as find_pump_keys.py uses it. *)
(* A finder only creates the unique index on public_key (open_collection)  *)
(* and upserts one document per verified key (store).  The server is not   *)
(* part of the repository; it is modelled by what store() relies on:       *)
(*                                                                         *)
(*   - an upsert looks for the address first and inserts afterwards, and   *)
(*     another client's insert may come in between;                        *)
(*   - the unique index refuses the second document of an address, and the *)
(*     server then either retries the upsert (it matches now) or reports   *)
(*     a DuplicateKeyError;                                                *)
(*   - a request outlives the client that sent it.                         *)
(*                                                                         *)
(* The wallets that consume keys set isused; they are outside the          *)
(* repository, too.                                                        *)
(***************************************************************************)
EXTENDS FiniteSets

CONSTANTS
    Workers,    \* the finder processes that share the collection
    Addrs,      \* base58 addresses
    Seeds,      \* 32-byte seeds
    NoAddr,     \* the address of no key
    NoSeed      \* a base58 word that is not the text of a 32-byte seed

VARIABLES
    coll,       \* the documents of the collection
    indexed,    \* the unique index on public_key exists
    call        \* call[w]: how far w's latest update_one has come

-----------------------------------------------------------------------------
(* "by" stands for _id: it tells apart two documents of one address.       *)
Docs == [public_key : Addrs, seed : Seeds, isused : BOOLEAN, by : Workers]

(* idle: no call; sent: on its way; inserting: no document matched; new,   *)
(* old, dup: the server's answer (upserted_id set, not set, error).  An    *)
(* answer "new" stays until the client has counted it.                     *)
CallStates == {"idle", "sent", "inserting", "new", "old", "dup"}

Calls == [at : CallStates, addr : Addrs \cup {NoAddr}, seed : Seeds \cup {NoSeed}]

NoCall == [at |-> "idle", addr |-> NoAddr, seed |-> NoSeed]

CollTypeOK ==
    /\ coll \subseteq Docs
    /\ indexed \in BOOLEAN
    /\ call \in [Workers -> Calls]

CollInit ==
    /\ coll = {}
    /\ indexed = FALSE
    /\ call = [w \in Workers |-> NoCall]

Holds(a) == \E d \in coll : d.public_key = a

(* The document $setOnInsert builds (and, as a variant, one born used). *)
NewDocUsed(w) == [public_key |-> call[w].addr, seed |-> call[w].seed,
                  isused |-> TRUE, by |-> w]
NewDoc(w) == [public_key |-> call[w].addr, seed |-> call[w].seed,
              isused |-> FALSE, by |-> w]

(* What the documents become when the upsert of w finds its address:       *)
(* $setOnInsert alone changes nothing ($set, the variant, resets isused).  *)
OnMatchSetAll(w) ==
    {IF d.public_key = call[w].addr THEN [d EXCEPT !.isused = FALSE] ELSE d : d \in coll}
OnMatch(w) == coll

SetCall(w, state) ==
    call' = [call EXCEPT ![w] = [at |-> state, addr |-> call[w].addr, seed |-> call[w].seed]]

-----------------------------------------------------------------------------
(* create_index(..., unique=True): refused over duplicates.  The variant   *)
(* makes a plain index.                                                    *)
CreateIndexPlain == UNCHANGED <<coll, indexed, call>>
CreateIndex ==
    /\ \A d, e \in coll : d.public_key = e.public_key => d = e
    /\ indexed' = TRUE
    /\ UNCHANGED <<coll, call>>

(* store() sends update_one. *)
Store(w, a, s) ==
    /\ call' = [call EXCEPT ![w] = [at |-> "sent", addr |-> a, seed |-> s]]
    /\ UNCHANGED <<coll, indexed>>

(* The caller has dealt with the answer. *)
Settle(w) ==
    /\ SetCall(w, "idle")
    /\ UNCHANGED <<coll, indexed>>

(* The server looks for the address... *)
Match(w) ==
    /\ call[w].at = "sent"
    /\ IF Holds(call[w].addr)
       THEN coll' = OnMatch(w) /\ SetCall(w, "old")
       ELSE UNCHANGED coll /\ SetCall(w, "inserting")
    /\ UNCHANGED indexed

(* ... inserts the document if there was none and the index agrees... *)
Insert(w) ==
    /\ call[w].at = "inserting"
    /\ indexed => ~Holds(call[w].addr)
    /\ coll' = coll \cup {NewDoc(w)}
    /\ SetCall(w, "new")
    /\ UNCHANGED indexed

(* ... and if the index refuses, retries the upsert or reports the error. *)
Refuse(w) ==
    /\ call[w].at = "inserting"
    /\ indexed /\ Holds(call[w].addr)
    /\ \/ SetCall(w, "sent")
       \/ SetCall(w, "dup")
    /\ UNCHANGED <<coll, indexed>>

Server(w) == Match(w) \/ Insert(w) \/ Refuse(w)

(* A wallet takes a key: the document is marked used. *)
Use ==
    \E d \in coll :
        /\ ~d.isused
        /\ coll' = (coll \ {d}) \cup
                {[public_key |-> d.public_key, seed |-> d.seed, isused |-> TRUE, by |-> d.by]}
        /\ UNCHANGED <<indexed, call>>
=============================================================================
