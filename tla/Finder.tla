------------------------------- MODULE Finder -------------------------------
(***************************************************************************)
(* find_pump_keys.py: processes that start an engine, verify every key it  *)
(* reports, store the good ones and stop at a target.  Each worker is one  *)
(* run of the script with its own engine; all of them share one MongoDB    *)
(* collection.  Ctrl-C may come at any moment: Python runs the handler     *)
(* between two steps of main(), and what the SystemExit it raises unwinds  *)
(* depends on where main() was.                                            *)
(***************************************************************************)
EXTENDS Naturals, Sequences, FiniteSets

CONSTANTS
    Workers,        \* runs of the script
    Addrs,          \* base58 addresses
    Seeds,          \* 32-byte seeds
    NoAddr,         \* the address of no key
    NoSeed,         \* a word that is not the base58 text of 32 bytes
    AddressOf,      \* AddressOf[s]: ed25519 and base58 of seed s
    Matching,       \* the addresses that end with SUFFIX
    Emits,          \* the lines an engine may print
    PipeCap,        \* bound: lines a pipe holds
    Configs,        \* the environments a run may find
    MaxSigints      \* bound: interrupts one run receives

(* "other" is every line the loop skips: blank, status, malformed FOUND.   *)
Lines == [kind : {"found", "other", "undecodable"},
          addr : Addrs \cup {NoAddr}, seed : Seeds \cup {NoSeed}]

ASSUME FinderAssumption ==
    /\ NoAddr \notin Addrs /\ NoSeed \notin Seeds
    /\ AddressOf \in [Seeds -> Addrs]
    /\ Matching \subseteq Addrs
    /\ Emits \subseteq Lines
    /\ Configs \subseteq [target : Nat, dry : BOOLEAN, ssh : BOOLEAN]
    /\ PipeCap \in Nat \ {0}
    /\ MaxSigints \in Nat

VARIABLES
    coll, indexed, call,    \* the collection: see KeyCollection
    eng, doomed, pipe,      \* the engines: see EngineProcess
    conf,       \* conf[w]: TARGET_COUNT, DRY_RUN, SSH_HOST set
    pc,         \* pc[w]: the statement of main() that runs next
    phase,      \* phase[w]: before, in or after (finally) main's try block
    caller,     \* caller[w]: who runs shutdown(): handler or finally
    exit,       \* exit[w]: the exit status, pending once main() unwinds
    tunnel,     \* tunnel[w]: the SSH tunnel
    client,     \* client[w]: the MongoClient
    cur,        \* cur[w]: address and seed of the line in hand
    seen,       \* seen[w]: seen_addresses
    stored,     \* stored[w]: the counter compared with TARGET_COUNT
    sigint,     \* sigint[w]: an interrupt waits for the interpreter
    sigints     \* sigints[w]: interrupts received so far

DB == INSTANCE KeyCollection
Engine == INSTANCE EngineProcess

dbVars == <<coll, indexed, call>>
engVars == <<eng, doomed, pipe>>
ctrlVars == <<pc, phase, caller, exit>>
resVars == <<tunnel, client>>
loopVars == <<cur, seen, stored>>
sigVars == <<sigint, sigints>>
vars == <<dbVars, engVars, conf, ctrlVars, resVars, loopVars, sigVars>>

-----------------------------------------------------------------------------
Startup == {"tunnel", "connect", "ping", "index", "build", "popen", "arm"}
Loop == {"read", "verify", "dedup", "await", "count"}
Stopping == {"poll", "term", "wait", "kill"}
Locations == Startup \cup Loop \cup Stopping \cup {"armed", "close", "stop", "exited"}

CtrlTypeOK ==
    /\ pc \in [Workers -> Locations]
    /\ phase \in [Workers -> {"before", "try", "finally", "out"}]
    /\ caller \in [Workers -> {"none", "handler", "finally"}]
    /\ exit \in [Workers -> {"none", "0", "1", "130", "killed"}]

ResTypeOK ==
    /\ tunnel \in [Workers -> {"none", "open", "stopped"}]
    /\ client \in [Workers -> {"none", "open", "closed"}]

LoopTypeOK ==
    /\ cur \in [Workers -> [addr : Addrs \cup {NoAddr}, seed : Seeds \cup {NoSeed}]]
    /\ seen \in [Workers -> SUBSET Addrs]
    /\ stored \in [Workers -> Nat]

SigTypeOK ==
    /\ sigint \in [Workers -> BOOLEAN]
    /\ sigints \in [Workers -> Nat]

TypeOK ==
    /\ DB!CollTypeOK /\ Engine!EngTypeOK
    /\ conf \in [Workers -> Configs]
    /\ CtrlTypeOK /\ ResTypeOK /\ LoopTypeOK /\ SigTypeOK

Init ==
    /\ DB!CollInit
    /\ Engine!EngInit
    /\ conf \in [Workers -> Configs]
    /\ pc = [w \in Workers |-> "tunnel"]
    /\ phase = [w \in Workers |-> "before"]
    /\ caller = [w \in Workers |-> "none"]
    /\ exit = [w \in Workers |-> "none"]
    /\ tunnel = [w \in Workers |-> "none"]
    /\ client = [w \in Workers |-> "none"]
    /\ cur = [w \in Workers |-> [addr |-> NoAddr, seed |-> NoSeed]]
    /\ seen = [w \in Workers |-> {}]
    /\ stored = [w \in Workers |-> 0]
    /\ sigint = [w \in Workers |-> FALSE]
    /\ sigints = [w \in Workers |-> 0]

-----------------------------------------------------------------------------
(* Control.  Goto: the next statement.  Die: the process ends and nothing  *)
(* else runs.  Unwind: an exit or an exception leaves the try block.       *)
Goto(w, l) ==
    /\ pc' = [pc EXCEPT ![w] = l]
    /\ UNCHANGED <<phase, caller, exit>>

Die(w, status) ==
    /\ pc' = [pc EXCEPT ![w] = "exited"]
    /\ exit' = [exit EXCEPT ![w] = status]
    /\ UNCHANGED <<phase, caller>>

Unwind(w, status) ==
    /\ pc' = [pc EXCEPT ![w] = "poll"]
    /\ phase' = [phase EXCEPT ![w] = "finally"]
    /\ caller' = [caller EXCEPT ![w] = "finally"]
    /\ exit' = [exit EXCEPT ![w] = status]

-----------------------------------------------------------------------------
(* open_collection, build_command, Popen and signal.signal.  Every failure *)
(* here is an uncaught exception or sys.exit(1).                           *)
OpenTunnel(w) ==
    /\ pc[w] = "tunnel"
    /\ \/ /\ conf[w].dry
          /\ Goto(w, "build") /\ UNCHANGED tunnel
       \/ /\ ~conf[w].dry /\ ~conf[w].ssh
          /\ Goto(w, "connect") /\ UNCHANGED tunnel
       \/ /\ ~conf[w].dry /\ conf[w].ssh
          /\ \/ Goto(w, "connect") /\ tunnel' = [tunnel EXCEPT ![w] = "open"]
             \/ Die(w, "1") /\ UNCHANGED tunnel
    /\ UNCHANGED <<dbVars, engVars, conf, client, loopVars, sigVars>>

Connect(w) ==
    /\ pc[w] = "connect"
    /\ \/ Goto(w, "ping") /\ client' = [client EXCEPT ![w] = "open"]
       \/ Die(w, "1") /\ UNCHANGED client
    /\ UNCHANGED <<dbVars, engVars, conf, tunnel, loopVars, sigVars>>

Ping(w) ==
    /\ pc[w] = "ping"
    /\ Goto(w, "index") \/ Die(w, "1")
    /\ UNCHANGED <<dbVars, engVars, conf, resVars, loopVars, sigVars>>

MakeIndex(w) ==
    /\ pc[w] = "index"
    /\ \/ Goto(w, "build") /\ DB!CreateIndex
       \/ Die(w, "1") /\ UNCHANGED dbVars
    /\ UNCHANGED <<engVars, conf, resVars, loopVars, sigVars>>

BuildCommand(w) ==
    /\ pc[w] = "build"
    /\ Goto(w, "popen") \/ Die(w, "1")
    /\ UNCHANGED <<dbVars, engVars, conf, resVars, loopVars, sigVars>>

Popen(w) ==
    /\ pc[w] = "popen"
    /\ \/ Goto(w, "arm") /\ Engine!Spawn(w)
       \/ Die(w, "1") /\ UNCHANGED engVars
    /\ UNCHANGED <<dbVars, conf, resVars, loopVars, sigVars>>

InstallHandler(w) ==
    /\ pc[w] = "arm"
    /\ Goto(w, "armed")
    /\ UNCHANGED <<dbVars, engVars, conf, resVars, loopVars, sigVars>>

EnterTry(w) ==
    /\ pc[w] = "armed"
    /\ pc' = [pc EXCEPT ![w] = "read"]
    /\ phase' = [phase EXCEPT ![w] = "try"]
    /\ UNCHANGED <<caller, exit>>
    /\ UNCHANGED <<dbVars, engVars, conf, resVars, loopVars, sigVars>>

-----------------------------------------------------------------------------
(* The loop over the engine's lines. *)
Read(w) ==
    /\ pc[w] = "read"
    /\ pipe[w] # <<>>
    /\ Engine!TakeLine(w)
    /\ LET l == Head(pipe[w]) IN
          \/ /\ l.kind = "other"
             /\ Goto(w, "read") /\ UNCHANGED cur
          \/ /\ l.kind = "undecodable"
             /\ Unwind(w, "1") /\ UNCHANGED cur
          \/ /\ l.kind = "found"
             /\ cur' = [cur EXCEPT ![w] = [addr |-> l.addr, seed |-> l.seed]]
             /\ Goto(w, "verify")
    /\ UNCHANGED <<dbVars, conf, resVars, seen, stored, sigVars>>

ReadEof(w) ==
    /\ pc[w] = "read"
    /\ pipe[w] = <<>> /\ eng[w] = "dead"
    /\ Unwind(w, "0")
    /\ UNCHANGED <<dbVars, engVars, conf, resVars, loopVars, sigVars>>

(* verify_keypair: the seed has 32 bytes, derives the reported address,    *)
(* and the address ends with SUFFIX.                                       *)
Good(addr, seed) ==
    /\ seed \in Seeds
    /\ AddressOf[seed] = addr
    /\ addr \in Matching

(* Variants: the derivation is not repeated, or the seed is not decoded.   *)
VerifyTrusting(w) ==
    /\ pc[w] = "verify"
    /\ Goto(w, IF cur[w].seed \in Seeds /\ cur[w].addr \in Matching
               THEN "dedup" ELSE "read")
    /\ UNCHANGED <<dbVars, engVars, conf, resVars, loopVars, sigVars>>

VerifyAddressOnly(w) ==
    /\ pc[w] = "verify"
    /\ Goto(w, IF cur[w].addr \in Matching THEN "dedup" ELSE "read")
    /\ UNCHANGED <<dbVars, engVars, conf, resVars, loopVars, sigVars>>

Verify(w) ==
    /\ pc[w] = "verify"
    /\ Goto(w, IF Good(cur[w].addr, cur[w].seed) THEN "dedup" ELSE "read")
    /\ UNCHANGED <<dbVars, engVars, conf, resVars, loopVars, sigVars>>

Dedup(w) ==
    /\ pc[w] = "dedup"
    /\ IF cur[w].addr \in seen[w]
       THEN Goto(w, "read") /\ UNCHANGED <<seen, dbVars>>
       ELSE /\ seen' = [seen EXCEPT ![w] = @ \cup {cur[w].addr}]
            /\ IF conf[w].dry
               THEN Goto(w, "count") /\ UNCHANGED dbVars
               ELSE Goto(w, "await") /\ DB!Store(w, cur[w].addr, cur[w].seed)
    /\ UNCHANGED <<engVars, conf, resVars, cur, stored, sigVars>>

(* store() returns: True goes on to the counter, False to the next line.   *)
(* The variant takes every answer for a new key.                           *)
StoreReturnsTrue(w) ==
    /\ pc[w] = "await"
    /\ call[w].at \in {"new", "old"}
    /\ Goto(w, "count")
    /\ UNCHANGED <<dbVars, engVars, conf, resVars, loopVars, sigVars>>

StoreReturns(w) ==
    /\ pc[w] = "await"
    /\ \/ /\ call[w].at = "new"
          /\ Goto(w, "count") /\ UNCHANGED dbVars
       \/ /\ call[w].at = "old"
          /\ Goto(w, "read") /\ DB!Settle(w)
    /\ UNCHANGED <<engVars, conf, resVars, loopVars, sigVars>>

(* store() raises: a DuplicateKeyError, or the connection fails whatever   *)
(* the server does or did.  Variants: the exception is swallowed, or       *)
(* raised where no finally block sees it.                                  *)
StoreFailsSwallowed(w) ==
    /\ pc[w] = "await"
    /\ Goto(w, "read")
    /\ UNCHANGED <<dbVars, engVars, conf, resVars, loopVars, sigVars>>

StoreFailsOutside(w) ==
    /\ pc[w] = "await"
    /\ Die(w, "1")
    /\ UNCHANGED <<dbVars, engVars, conf, resVars, loopVars, sigVars>>

StoreFails(w) ==
    /\ pc[w] = "await"
    /\ Unwind(w, "1")
    /\ UNCHANGED <<dbVars, engVars, conf, resVars, loopVars, sigVars>>

(* if TARGET_COUNT and stored >= TARGET_COUNT (the variant: one too late). *)
ReachedLate(w) == conf[w].target > 0 /\ stored'[w] > conf[w].target
Reached(w) == conf[w].target > 0 /\ stored'[w] >= conf[w].target

Count(w) ==
    /\ pc[w] = "count"
    /\ stored' = [stored EXCEPT ![w] = @ + 1]
    /\ IF conf[w].dry THEN UNCHANGED dbVars ELSE DB!Settle(w)
    /\ IF Reached(w) THEN Unwind(w, "0") ELSE Goto(w, "read")
    /\ UNCHANGED <<engVars, conf, resVars, cur, seen, sigVars>>

-----------------------------------------------------------------------------
(* shutdown(), called by the handler or by the finally block.  The handler *)
(* goes on to sys.exit(130), whose SystemExit enters the finally block     *)
(* from the try block and ends the process from anywhere else.             *)
ShutdownReturns(w) ==
    IF caller[w] = "finally" THEN Goto(w, "close")
    ELSE IF phase[w] = "try" THEN Unwind(w, "130")
    ELSE Die(w, "130")

Poll(w) ==
    /\ pc[w] = "poll"
    /\ IF eng[w] = "dead" THEN ShutdownReturns(w) ELSE Goto(w, "term")
    /\ UNCHANGED <<dbVars, engVars, conf, resVars, loopVars, sigVars>>

Terminate(w) ==
    /\ pc[w] = "term"
    /\ Goto(w, "wait")
    /\ Engine!Signal(w)
    /\ UNCHANGED <<dbVars, conf, resVars, loopVars, sigVars>>

(* wait(timeout=10) returns when the engine is gone, or times out. *)
Wait(w) ==
    /\ pc[w] = "wait"
    /\ IF eng[w] = "dead" THEN ShutdownReturns(w) ELSE Goto(w, "kill")
    /\ UNCHANGED <<dbVars, engVars, conf, resVars, loopVars, sigVars>>

Kill(w) ==
    /\ pc[w] = "kill"
    /\ ShutdownReturns(w)
    /\ Engine!Signal(w)
    /\ UNCHANGED <<dbVars, conf, resVars, loopVars, sigVars>>

(* The rest of the finally block. *)
CloseClient(w) ==
    /\ pc[w] = "close"
    /\ Goto(w, "stop")
    /\ client' = [client EXCEPT ![w] = IF @ = "open" THEN "closed" ELSE @]
    /\ UNCHANGED <<dbVars, engVars, conf, tunnel, loopVars, sigVars>>

StopTunnel(w) ==
    /\ pc[w] = "stop"
    /\ pc' = [pc EXCEPT ![w] = "exited"]
    /\ phase' = [phase EXCEPT ![w] = "out"]
    /\ tunnel' = [tunnel EXCEPT ![w] = IF @ = "open" THEN "stopped" ELSE @]
    /\ UNCHANGED <<caller, exit>>
    /\ UNCHANGED <<dbVars, engVars, conf, client, loopVars, sigVars>>

-----------------------------------------------------------------------------
(* Ctrl-C in the terminal interrupts the engine too; kill -INT does not.   *)
Interrupt(w) ==
    /\ pc[w] # "exited"
    /\ sigints[w] < MaxSigints
    /\ sigints' = [sigints EXCEPT ![w] = @ + 1]
    /\ sigint' = [sigint EXCEPT ![w] = TRUE]
    /\ Engine!Signal(w) \/ UNCHANGED engVars
    /\ UNCHANGED <<dbVars, conf, ctrlVars, resVars, loopVars>>

(* Before signal.signal a KeyboardInterrupt ends the script, afterwards    *)
(* the handler runs - also inside a shutdown() that is under way, which    *)
(* its SystemExit then abandons.  (The variant quits at once if a          *)
(* shutdown() is under way.)                                               *)
DeliverHurried(w) ==
    /\ sigint[w]
    /\ pc[w] # "exited"
    /\ sigint' = [sigint EXCEPT ![w] = FALSE]
    /\ IF pc[w] \in Startup \cup Stopping
       THEN Die(w, "130")
       ELSE /\ pc' = [pc EXCEPT ![w] = "poll"]
            /\ caller' = [caller EXCEPT ![w] = "handler"]
            /\ UNCHANGED <<phase, exit>>
    /\ UNCHANGED <<dbVars, engVars, conf, resVars, loopVars, sigints>>

Deliver(w) ==
    /\ sigint[w]
    /\ pc[w] # "exited"
    /\ sigint' = [sigint EXCEPT ![w] = FALSE]
    /\ IF pc[w] \in Startup
       THEN Die(w, "130")
       ELSE /\ pc' = [pc EXCEPT ![w] = "poll"]
            /\ caller' = [caller EXCEPT ![w] = "handler"]
            /\ UNCHANGED <<phase, exit>>
    /\ UNCHANGED <<dbVars, engVars, conf, resVars, loopVars, sigints>>

(* The process is killed: SIGTERM has no handler, SIGKILL cannot have one. *)
Killed(w) ==
    /\ pc[w] # "exited"
    /\ Die(w, "killed")
    /\ UNCHANGED <<dbVars, engVars, conf, resVars, loopVars, sigVars>>

-----------------------------------------------------------------------------
Script(w) ==
    \/ OpenTunnel(w) \/ Connect(w) \/ Ping(w) \/ MakeIndex(w)
    \/ BuildCommand(w) \/ Popen(w) \/ InstallHandler(w) \/ EnterTry(w)
    \/ Read(w) \/ ReadEof(w) \/ Verify(w) \/ Dedup(w)
    \/ StoreReturns(w) \/ StoreFails(w) \/ Count(w)
    \/ Poll(w) \/ Terminate(w) \/ Wait(w) \/ Kill(w)
    \/ CloseClient(w) \/ StopTunnel(w)

scriptVars == <<conf, ctrlVars, resVars, loopVars, sigVars>>

ServerStep(w) == DB!Server(w) /\ UNCHANGED <<scriptVars, engVars>>

WalletStep == DB!Use /\ UNCHANGED <<scriptVars, engVars>>

PrintStep(w) ==
    Engine!PrintLine(w, pc[w] = "exited") /\ UNCHANGED <<scriptVars, dbVars>>

CrashStep(w) == Engine!End(w) /\ UNCHANGED <<scriptVars, dbVars>>

FallStep(w) == Engine!Fall(w) /\ UNCHANGED <<scriptVars, dbVars>>

BrokenPipeStep(w) ==
    Engine!BreakPipe(w, pc[w] = "exited") /\ UNCHANGED <<scriptVars, dbVars>>

AllDone ==
    /\ \A w \in Workers : pc[w] = "exited"
    /\ UNCHANGED vars

Next ==
    \/ \E w \in Workers :
          \/ Script(w) \/ Interrupt(w) \/ Deliver(w) \/ Killed(w)
          \/ ServerStep(w) \/ PrintStep(w) \/ CrashStep(w)
          \/ FallStep(w) \/ BrokenPipeStep(w)
    \/ WalletStep
    \/ AllDone

(* The interpreter runs and delivers signals; the server answers; a signal *)
(* takes effect.  Nothing makes a user type Ctrl-C, a process die, a       *)
(* broken pipe end an engine or a wallet take a key.                       *)
Fairness ==
    \A w \in Workers :
        /\ WF_vars(Script(w)) /\ WF_vars(Deliver(w)) /\ WF_vars(ServerStep(w))
        /\ WF_vars(FallStep(w))

Spec == Init /\ [][Next]_vars
FairSpec == Spec /\ Fairness
-----------------------------------------------------------------------------
(* Properties.                                                             *)

(* Every document holds a key that verify_keypair accepted: the address    *)
(* its seed derives, with the suffix - whatever the engine printed, and    *)
(* however late the server carries out a request.                          *)
StoredKeysVerified == \A d \in coll : Good(d.public_key, d.seed)

(* "One document per address": no interleaving of the runs' upserts        *)
(* inserts an address twice.                                               *)
OneDocPerAddress ==
    \A d, e \in coll : d.public_key = e.public_key => d = e

(* The documents a run has inserted are the keys it counted, and one more  *)
(* while (or forever if it dies there) the count lags behind the insert.   *)
Inserted(w) == {d \in coll : d.by = w}
InsertsAccounted ==
    \A w \in Workers : ~conf[w].dry =>
        Cardinality(Inserted(w)) = stored[w] + IF call[w].at = "new" THEN 1 ELSE 0

(* No run inserts more keys than its TARGET_COUNT, whatever fails.         *)
NoOvershoot ==
    \A w \in Workers : conf[w].target > 0 =>
        Cardinality(Inserted(w)) <= conf[w].target

(* An address skipped as seen is in the database: seen_addresses grows     *)
(* before store() is called, so a failed store must end the run.           *)
SeenIsStored ==
    \A w \in Workers :
        ~conf[w].dry /\ (pc[w] \in {"read", "verify", "dedup"} \/ exit[w] = "0")
            => \A a \in seen[w] : DB!Holds(a)

(* Once the loop was entered, a run that ends by itself - target reached,  *)
(* engine gone, exception - has closed the client, stopped the tunnel and  *)
(* signalled or outlived its engine; only interrupts and kills may skip it.*)
Released(w) ==
    /\ client[w] # "open" /\ tunnel[w] # "open"
    /\ eng[w] = "dead" \/ doomed[w]
ExitReleases ==
    \A w \in Workers :
        pc[w] = "exited" /\ eng[w] # "none" /\ exit[w] \in {"0", "1"} => Released(w)

(* Once the handler is installed, an interrupt never leaves the engine     *)
(* running unsignalled: not the first one, and not one whose SystemExit    *)
(* abandons a shutdown() under way before it has terminated anything.      *)
(* (Before that Python's own handler ends the script and lets it run on.)  *)
InterruptStopsEngine ==
    \A w \in Workers :
        pc[w] = "exited" /\ exit[w] = "130" /\ caller[w] # "none"
            => eng[w] = "dead" \/ doomed[w]

(* open_collection's contract: whoever it has returned to (its last step   *)
(* makes the index) closes the client and stops the tunnel when done.  For *)
(* a single run that nobody interrupts or kills.                           *)
CallerCleansUp ==
    \A w \in Workers :
        pc[w] = "exited" /\ indexed /\ sigints[w] = 0 /\ exit[w] # "killed"
            => client[w] # "open" /\ tunnel[w] # "open"

(* No step changes a document's key material or makes a used key unused,   *)
(* and none removes a document.                                            *)
DocsWriteOnce ==
    [][\A d \in coll : \E e \in coll' :
          /\ e.public_key = d.public_key /\ e.seed = d.seed /\ e.by = d.by
          /\ d.isused => e.isused]_vars

(* A run ends once its target is reached, once its engine is gone, and     *)
(* once it is interrupted - whatever the pipe holds, even if the interrupt *)
(* lands in a shutdown under way.                                          *)
MustEnd(w) ==
    \/ sigint[w]
    \/ eng[w] = "dead"
    \/ conf[w].target > 0 /\ stored[w] >= conf[w].target
RunEnds == \A w \in Workers : MustEnd(w) ~> pc[w] = "exited"

(* The runs, their engines and the server together keep KeyStore's         *)
(* promises.                                                               *)
Promised == INSTANCE KeyStore WITH
    keys <- coll,
    credit <- [w \in Workers |-> IF conf[w].dry THEN 0 ELSE stored[w]],
    uncounted <- [w \in Workers |-> call[w].at = "new"],
    limit <- [w \in Workers |-> conf[w].target]
ImplementsKeyStore == Promised!StoreSpec
=============================================================================
