------------------------------ MODULE MCFinder ------------------------------
(***************************************************************************)
(* Small instances of Finder.  Two seeds derive matching addresses, a      *)
(* third derives one without the suffix; the engine prints each key, a key *)
(* with the wrong address, a truncated seed, a line to skip and a line     *)
(* that is not text.                                                       *)
(***************************************************************************)
EXTENDS Finder, TLC

CONSTANTS a1, a2, a3, s1, s2, s3, w1, w2

MCAddressOf == (s1 :> a1) @@ (s2 :> a2) @@ (s3 :> a3)

FoundLine(a, s) == [kind |-> "found", addr |-> a, seed |-> s]
OtherLine(k) == [kind |-> k, addr |-> NoAddr, seed |-> NoSeed]

MCEmits == {FoundLine(a1, s1), FoundLine(a2, s2), FoundLine(a3, s3),
            FoundLine(a2, s1), FoundLine(a1, NoSeed),
            OtherLine("other"), OtherLine("undecodable")}

(* Two runs that meet in the database: only the good keys matter. *)
MCPairEmits == {FoundLine(a1, s1), FoundLine(a2, s2)}

Config(t, d, s) == [target |-> t, dry |-> d, ssh |-> s]
MCConfigs == {Config(0, FALSE, TRUE), Config(1, FALSE, TRUE), Config(2, FALSE, FALSE),
              Config(1, TRUE, FALSE)}
MCPairConfigs == {Config(1, FALSE, FALSE), Config(2, FALSE, FALSE)}

(* Both runs have connected: how they get there, and what fails on the     *)
(* way, is explored with a single run.                                     *)
MCPairInit ==
    /\ DB!CollInit /\ Engine!EngInit
    /\ conf = (w1 :> Config(1, FALSE, FALSE)) @@ (w2 :> Config(1, FALSE, FALSE))
    /\ pc = [w \in Workers |-> "index"]
    /\ client = [w \in Workers |-> "open"]
    /\ tunnel = [w \in Workers |-> "none"]
    /\ phase = [w \in Workers |-> "before"]
    /\ caller = [w \in Workers |-> "none"]
    /\ exit = [w \in Workers |-> "none"]
    /\ cur = [w \in Workers |-> [addr |-> NoAddr, seed |-> NoSeed]]
    /\ seen = [w \in Workers |-> {}]
    /\ stored = [w \in Workers |-> 0]
    /\ sigint = [w \in Workers |-> FALSE]
    /\ sigints = [w \in Workers |-> 0]
MCPairSpec == MCPairInit /\ [][Next]_vars
=============================================================================
