------------------------------ MODULE KeyStore ------------------------------
(***************************************************************************)
(* What find_pump_keys.py promises about the keys it collects, without the *)
(* engine, the pipe, the server's two steps or the process's life:         *)
(*                                                                         *)
(*   - only verified keys are kept, one document for each address, and a   *)
(*     document's key material never changes;                              *)
(*   - a used key stays used;                                              *)
(*   - a run adds a key only while it is short of its target and has       *)
(*     counted the key it added before, and counts every key at most once. *)
(***************************************************************************)
EXTENDS Naturals

CONSTANTS
    Workers,    \* the runs that add keys
    Addrs,      \* addresses
    Seeds,      \* seeds
    AddressOf,  \* the address of each seed
    Matching    \* the addresses worth keeping

VARIABLES
    keys,       \* the documents kept
    credit,     \* credit[w]: keys w has counted
    uncounted,  \* uncounted[w]: w has added a key it has not counted
    limit       \* limit[w]: how many keys w wants; 0 is no limit

storeVars == <<keys, credit, uncounted, limit>>

-----------------------------------------------------------------------------
StoreInit ==
    /\ keys = {}
    /\ credit = [w \in Workers |-> 0]
    /\ uncounted = [w \in Workers |-> FALSE]
    /\ limit \in [Workers -> Nat]

Add(w, a, s) ==
    /\ a \in Matching /\ AddressOf[s] = a
    /\ \A k \in keys : k.public_key # a
    /\ ~uncounted[w]
    /\ limit[w] > 0 => credit[w] < limit[w]
    /\ keys' = keys \cup {[public_key |-> a, seed |-> s, isused |-> FALSE, by |-> w]}
    /\ uncounted' = [uncounted EXCEPT ![w] = TRUE]
    /\ UNCHANGED <<credit, limit>>

CountKey(w) ==
    /\ uncounted[w]
    /\ uncounted' = [uncounted EXCEPT ![w] = FALSE]
    /\ credit' = [credit EXCEPT ![w] = @ + 1]
    /\ UNCHANGED <<keys, limit>>

TakeKey ==
    \E k \in keys :
        /\ ~k.isused
        /\ keys' = (keys \ {k}) \cup
                {[public_key |-> k.public_key, seed |-> k.seed, isused |-> TRUE, by |-> k.by]}
        /\ UNCHANGED <<credit, uncounted, limit>>

StoreNext ==
    \/ \E w \in Workers : CountKey(w) \/ \E a \in Addrs, s \in Seeds : Add(w, a, s)
    \/ TakeKey

StoreSpec == StoreInit /\ [][StoreNext]_storeVars
=============================================================================
