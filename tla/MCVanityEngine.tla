--------------------------- MODULE MCVanityEngine ---------------------------
(***************************************************************************)
(* Small instances of VanityEngine: a target of 16 ticks and a limit of    *)
(* 64, as 0.5 s to 2 s, and attempts that cost 1 to 7 ticks, or 40 on a    *)
(* machine too slow even for one attempt.                                  *)
(***************************************************************************)
EXTENDS VanityEngine, TLC

CONSTANT l1

Machine(f, cs, ds) ==
    [gpus |-> Cardinality(DOMAIN cs), fixed |-> f, costs |-> cs, delays |-> ds]

(* No GPU, one or two; of varying or steady speed; tuned or fixed.         *)
MCSetups == {
    Machine(0, <<>>, {0, 5}),
    Machine(0, (0 :> {2, 3, 6}), {0, 5}),
    Machine(0, (0 :> {7}) @@ (1 :> {3, 6}), {0}),
    Machine(0, (0 :> {6}) @@ (1 :> {3}), {0, 6}),
    Machine(5, (0 :> {1}) @@ (1 :> {1}), {0}),
    Machine(0, (0 :> {5}) @@ (1 :> {2}), {0}),
    Machine(0, (0 :> {2}) @@ (1 :> {5}), {0}),
    Machine(0, (0 :> {3}) @@ (1 :> {3}), {0})}
    \cup {Machine(0, (0 :> {c}), {0}) : c \in {1, 3, 7, 40}}

(* A slow GPU before a fast one. *)
UnevenSetups == {Machine(0, (0 :> {7}) @@ (1 :> {1}), {0}),
                 Machine(0, (0 :> {2, 3, 6}), {0})}
=============================================================================
