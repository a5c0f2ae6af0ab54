---------------------------- MODULE MCGpuCtxPool ----------------------------
(***************************************************************************)
(* Small instances of GpuCtxPool: calls of one to three signatures, blocks *)
(* of two or four threads, signatures of two or four cells (in the code    *)
(* both are 64).                                                           *)
(***************************************************************************)
EXTENDS GpuCtxPool, TLC

CONSTANTS t1, t2, t3

Request(op, packets, sigs, own) ==
    [op |-> op, packets |-> packets, sigs |-> sigs, own |-> own]

(* Verifying only, as main.cu does, with calls of different sizes; one     *)
(* without packets returns at once.                                        *)
VerifyRequests == {Request("verify", 0, 1, TRUE), Request("verify", 1, 1, TRUE),
                   Request("verify", 1, 3, FALSE), Request("verify", 2, 2, TRUE)}

(* Signing and verifying on the same contexts.  A large verification, a    *)
(* signature and a smaller verification leave out smaller than the offsets *)
(* the last kernel serves.                                                 *)
MixedRequests == {Request("verify", 1, 3, FALSE), Request("verify", 2, 2, TRUE),
                  Request("sign", 1, 1, FALSE), Request("sign", 2, 2, TRUE)}

Callers == Permutations(Threads)
=============================================================================
