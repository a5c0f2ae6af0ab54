---------------------------- MODULE FinderProofs ----------------------------
(***************************************************************************)
(* What Finder guarantees for every set of runs, keys, configurations and  *)
(* bounds.  None of the safety properties is inductive; IInv strengthens   *)
(* them with what each location of main() implies about the run's own      *)
(* call, engine and resources.                                             *)
(***************************************************************************)
EXTENDS Finder, FiniteSetTheorems, SequenceTheorems, TLAPS

Searching == {"read", "verify", "dedup"}
Ending == Stopping \cup {"close", "stop", "exited"}

(* A request is only ever made for a verified key, by a run that is not    *)
(* dry, has the index and is short of its target; it is settled before the *)
(* run reads another line.                                                 *)
CallInv(w) ==
    /\ call[w].at # "idle" =>
          /\ indexed /\ ~conf[w].dry
          /\ Good(call[w].addr, call[w].seed)
          /\ conf[w].target > 0 => stored[w] < conf[w].target
    /\ pc[w] \in Startup \cup {"armed"} =>
          call[w].at = "idle" /\ stored[w] = 0 /\ seen[w] = {}
    /\ pc[w] \in Searching => call[w].at = "idle"
    /\ pc[w] = "count" /\ ~conf[w].dry => call[w].at = "new"
    /\ pc[w] \in {"build", "popen", "arm", "armed"} \cup Loop /\ ~conf[w].dry => indexed
    /\ pc[w] \in Loop => (conf[w].target > 0 => stored[w] < conf[w].target)
    /\ pc[w] = "await" => ~conf[w].dry
    /\ pc[w] \in {"dedup", "await", "count"} => Good(cur[w].addr, cur[w].seed)

(* The documents are verified and unique, and there are none before the    *)
(* index exists.                                                           *)
DocsInv ==
    /\ StoredKeysVerified
    /\ OneDocPerAddress
    /\ ~indexed => coll = {}

(* Every address seen is held, but for the one whose call is under way.    *)
SeenInv(w) ==
    /\ call[w].at \in {"old", "new"} => DB!Holds(call[w].addr)
    /\ ~conf[w].dry /\ pc[w] \in {"await", "count"} => cur[w].addr = call[w].addr
    /\ ~conf[w].dry /\ pc[w] \in Searching => \A a \in seen[w] : DB!Holds(a)
    /\ ~conf[w].dry /\ pc[w] \in {"await", "count"} =>
          \A a \in seen[w] : a = cur[w].addr \/ DB!Holds(a)
    /\ ~conf[w].dry /\ exit[w] = "0" => \A a \in seen[w] : DB!Holds(a)
    /\ exit[w] # "none" => pc[w] \in Ending

(* Where the run is says what it holds: the engine runs from Popen on, and *)
(* each step of the finally block has released one thing more.             *)
Gone(w) == eng[w] = "dead" \/ doomed[w]
HeldInv(w) ==
    /\ pc[w] \in Startup \ {"arm"} => eng[w] = "none"
    /\ pc[w] \in {"arm", "armed", "close", "stop"} \cup Loop \cup Stopping => eng[w] # "none"
    /\ pc[w] \in {"wait", "kill", "close", "stop"} => Gone(w)
    /\ pc[w] = "stop" => client[w] # "open"
    /\ phase[w] = "out" => client[w] # "open" /\ tunnel[w] # "open" /\ Gone(w)
    /\ phase[w] = "out" => pc[w] = "exited"
    /\ pc[w] = "exited" /\ exit[w] \in {"0", "1"} => phase[w] = "out" \/ eng[w] = "none"
    /\ pc[w] \in Startup => caller[w] = "none"
    /\ pc[w] = "exited" /\ exit[w] = "130" /\ caller[w] # "none" => Gone(w)

IInv ==
    /\ TypeOK
    /\ DocsInv
    /\ \A w \in Workers : CallInv(w) /\ SeenInv(w) /\ HeldInv(w)
-----------------------------------------------------------------------------
(* Steps of one run: what they do to its control variables.                *)
CtrlOthers(w) ==
    \A v \in Workers \ {w} :
        /\ pc'[v] = pc[v] /\ phase'[v] = phase[v]
        /\ caller'[v] = caller[v] /\ exit'[v] = exit[v]

(* Goto, Die and Unwind, pointwise. *)
LEMMA GotoMoves ==
  ASSUME CtrlTypeOK, NEW w \in Workers, NEW l \in Locations, Goto(w, l)
  PROVE  /\ CtrlTypeOK' /\ CtrlOthers(w)
         /\ pc'[w] = l /\ phase' = phase /\ caller' = caller /\ exit' = exit
  BY DEF CtrlTypeOK, CtrlOthers, Goto

(* An exit without the finally clause, pointwise. *)
LEMMA DieMoves ==
  ASSUME CtrlTypeOK, NEW w \in Workers, NEW s \in {"1", "130", "killed"}, Die(w, s)
  PROVE  /\ CtrlTypeOK' /\ CtrlOthers(w)
         /\ pc'[w] = "exited" /\ exit'[w] = s /\ phase' = phase /\ caller' = caller
  BY DEF CtrlTypeOK, CtrlOthers, Die, Locations

(* An exit through it, pointwise. *)
LEMMA UnwindMoves ==
  ASSUME CtrlTypeOK, NEW w \in Workers, NEW s \in {"0", "1", "130"}, Unwind(w, s)
  PROVE  /\ CtrlTypeOK' /\ CtrlOthers(w)
         /\ pc'[w] = "poll" /\ phase'[w] = "finally" /\ caller'[w] = "finally"
         /\ exit'[w] = s
  BY DEF CtrlTypeOK, CtrlOthers, Unwind, Locations, Stopping

(* A run's own step keeps the control variables typed and is not seen by others. *)
LEMMA CtrlStep ==
  ASSUME CtrlTypeOK, NEW w \in Workers, Script(w) \/ Interrupt(w) \/ Deliver(w) \/ Killed(w)
  PROVE  CtrlTypeOK' /\ CtrlOthers(w)
<1> USE DEF Locations, Startup, Loop, Stopping
<1>1. CASE OpenTunnel(w) \/ Connect(w) \/ Ping(w) \/ MakeIndex(w) \/ BuildCommand(w) \/ Popen(w) \/ Killed(w)
  BY <1>1, GotoMoves, DieMoves DEF OpenTunnel, Connect, Ping, MakeIndex, BuildCommand, Popen, Killed
<1>2. CASE InstallHandler(w) \/ Verify(w) \/ Dedup(w) \/ StoreReturns(w) \/ Terminate(w) \/ CloseClient(w)
  BY <1>2, GotoMoves DEF InstallHandler, Verify, Dedup, StoreReturns, Terminate, CloseClient
<1>3. CASE Read(w) \/ ReadEof(w) \/ StoreFails(w) \/ Count(w)
  BY <1>3, GotoMoves, UnwindMoves DEF Read, ReadEof, StoreFails, Count
<1>4. CASE Poll(w) \/ Wait(w) \/ Kill(w)
  BY <1>4, GotoMoves, DieMoves, UnwindMoves DEF Poll, Wait, Kill, ShutdownReturns
<1>5. CASE EnterTry(w) \/ StopTunnel(w)
  BY <1>5 DEF EnterTry, StopTunnel, CtrlTypeOK, CtrlOthers
<1>6. CASE Interrupt(w)
  BY <1>6 DEF Interrupt, CtrlTypeOK, CtrlOthers, ctrlVars
<1>7. CASE Deliver(w)
  <2>1. CASE pc[w] \in Startup
    BY <1>7, <2>1, DieMoves DEF Deliver
  <2>2. CASE pc[w] \notin Startup
    BY <1>7, <2>2 DEF Deliver, CtrlTypeOK, CtrlOthers
  <2> QED BY <2>1, <2>2
<1> QED
  BY <1>1, <1>2, <1>3, <1>4, <1>5, <1>6, <1>7 DEF Script

-----------------------------------------------------------------------------
(* ... to its resources, its loop variables, its signals and its engine.   *)
Own(w) == Script(w) \/ Interrupt(w) \/ Deliver(w) \/ Killed(w)

ResOthers(w) ==
    \A v \in Workers \ {w} : tunnel'[v] = tunnel[v] /\ client'[v] = client[v]

(* The same of the tunnel and the client. *)
LEMMA ResStep ==
  ASSUME ResTypeOK, NEW w \in Workers, Own(w)
  PROVE  ResTypeOK' /\ ResOthers(w)
<1>1. CASE OpenTunnel(w) \/ Connect(w) \/ CloseClient(w) \/ StopTunnel(w)
  BY <1>1 DEF OpenTunnel, Connect, CloseClient, StopTunnel, ResTypeOK, ResOthers
<1>2. CASE UNCHANGED resVars
  BY <1>2 DEF resVars, ResTypeOK, ResOthers
<1> QED
  BY <1>1, <1>2 DEF Own, Script, Ping, MakeIndex, BuildCommand, Popen, InstallHandler,
     EnterTry, Read, ReadEof, Verify, Dedup, StoreReturns, StoreFails, Count, Poll,
     Terminate, Wait, Kill, Interrupt, Deliver, Killed

LoopOthers(w) ==
    \A v \in Workers \ {w} :
        cur'[v] = cur[v] /\ seen'[v] = seen[v] /\ stored'[v] = stored[v]

(* The same of the loop's variables; an address seen is always an address. *)
LEMMA LoopStep ==
  ASSUME LoopTypeOK, Engine!EngTypeOK, NEW w \in Workers, Own(w),
         pc[w] = "dedup" => Good(cur[w].addr, cur[w].seed)
  PROVE  LoopTypeOK' /\ LoopOthers(w)
<1>1. CASE Read(w)
  <2>1. Head(pipe[w]) \in Lines
    <3>1. pipe[w] \in Seq(Emits) /\ pipe[w] # <<>>
      BY <1>1 DEF Read, Engine!EngTypeOK
    <3>2. Head(pipe[w]) \in Emits
      BY <3>1, HeadTailProperties
    <3> QED
      BY <3>2, FinderAssumption
  <2>2. /\ UNCHANGED <<seen, stored>>
        /\ \/ cur' = cur
           \/ \E l \in Lines : cur' = [cur EXCEPT ![w] = [addr |-> l.addr, seed |-> l.seed]]
    BY <1>1, <2>1 DEF Read
  <2> QED
    BY <2>2 DEF LoopTypeOK, LoopOthers, Lines
<1>2. CASE Dedup(w)
  BY <1>2, FinderAssumption DEF Dedup, Good, LoopTypeOK, LoopOthers
<1>3. CASE Count(w)
  BY <1>3 DEF Count, LoopTypeOK, LoopOthers
<1>4. CASE UNCHANGED loopVars
  BY <1>4 DEF loopVars, LoopTypeOK, LoopOthers
<1> QED
  BY <1>1, <1>2, <1>3, <1>4 DEF Own, Script, OpenTunnel, Connect, Ping, MakeIndex,
     BuildCommand, Popen, InstallHandler, EnterTry, ReadEof, Verify, StoreReturns,
     StoreFails, Poll, Terminate, Wait, Kill, CloseClient, StopTunnel,
     Interrupt, Deliver, Killed

(* The same of the interrupts. *)
LEMMA SigStep ==
  ASSUME SigTypeOK, NEW w \in Workers, Own(w)
  PROVE  SigTypeOK'
<1>1. CASE Interrupt(w)
  <2>1. /\ sigints' = [sigints EXCEPT ![w] = @ + 1]
        /\ sigint' = [sigint EXCEPT ![w] = TRUE]
    BY <1>1 DEF Interrupt
  <2> QED
    BY <2>1 DEF SigTypeOK
<1>3. CASE Deliver(w)
  <2>1. sigint' = [sigint EXCEPT ![w] = FALSE] /\ UNCHANGED sigints
    BY <1>3 DEF Deliver
  <2> QED
    BY <2>1 DEF SigTypeOK
<1>2. CASE UNCHANGED sigVars
  BY <1>2 DEF sigVars, SigTypeOK
<1> QED
  BY <1>1, <1>2, <1>3 DEF Own, Script, OpenTunnel, Connect, Ping, MakeIndex,
     BuildCommand, Popen, InstallHandler, EnterTry, Read, ReadEof, Verify, Dedup,
     StoreReturns, StoreFails, Count, Poll, Terminate, Wait, Kill, CloseClient,
     StopTunnel, Killed

EngOthers(w) ==
    \A v \in Workers \ {w} : eng'[v] = eng[v] /\ doomed'[v] = doomed[v]

(* Steps of a run or of its engine leave the other engines alone. *)
LEMMA EngStep ==
  ASSUME Engine!EngTypeOK, NEW w \in Workers,
         Own(w) \/ PrintStep(w) \/ CrashStep(w) \/ FallStep(w) \/ BrokenPipeStep(w)
  PROVE  Engine!EngTypeOK' /\ EngOthers(w)
<1>1. ASSUME Engine!Signal(w) PROVE Engine!EngTypeOK' /\ EngOthers(w)
  BY <1>1 DEF Engine!Signal, Engine!EngTypeOK, EngOthers
<1>2. ASSUME UNCHANGED engVars PROVE Engine!EngTypeOK' /\ EngOthers(w)
  BY <1>2 DEF engVars, Engine!EngTypeOK, EngOthers
<1>3. CASE Popen(w)
  BY <1>3, <1>2 DEF Popen, Engine!Spawn, Engine!EngTypeOK, EngOthers
<1>4. CASE Read(w)
  BY <1>4 DEF Read, Engine!TakeLine, Engine!EngTypeOK, EngOthers
<1>5. CASE Terminate(w) \/ Kill(w) \/ Interrupt(w)
  BY <1>1, <1>2, <1>5 DEF Terminate, Kill, Interrupt
<1>6. CASE PrintStep(w)
  BY <1>6 DEF PrintStep, Engine!PrintLine, Engine!EngTypeOK, EngOthers
<1>7. CASE CrashStep(w) \/ FallStep(w) \/ BrokenPipeStep(w)
  BY <1>7 DEF CrashStep, FallStep, BrokenPipeStep, Engine!Fall, Engine!BreakPipe,
     Engine!End, Engine!EngTypeOK, EngOthers
<1> QED
  BY <1>2, <1>3, <1>4, <1>5, <1>6, <1>7 DEF Own, Script, OpenTunnel, Connect, Ping,
     MakeIndex, BuildCommand, InstallHandler, EnterTry, ReadEof, Verify, Dedup,
     StoreReturns, StoreFails, Count, Poll, Wait, CloseClient, StopTunnel, Deliver, Killed

-----------------------------------------------------------------------------
(* ... and to the collection.                                              *)
CallOthers(w) == \A v \in Workers \ {w} : call'[v] = call[v]

(* Documents and the index only accumulate. *)
Grows == /\ indexed => indexed'
         /\ \A a : DB!Holds(a) => DB!Holds(a)'

(* The three ways a call's record changes, pointwise. *)
LEMMA SetCallMoves ==
  ASSUME DB!CollTypeOK, NEW w \in Workers, NEW s \in DB!CallStates, DB!SetCall(w, s)
  PROVE  /\ call' \in [Workers -> DB!Calls] /\ CallOthers(w)
         /\ call'[w].at = s
         /\ call'[w].addr = call[w].addr /\ call'[w].seed = call[w].seed
  BY DEF DB!CollTypeOK, DB!Calls, DB!SetCall, CallOthers

(* Sending a store, pointwise. *)
LEMMA StoreMoves ==
  ASSUME DB!CollTypeOK, LoopTypeOK, NEW w \in Workers, DB!Store(w, cur[w].addr, cur[w].seed)
  PROVE  /\ DB!CollTypeOK' /\ CallOthers(w) /\ UNCHANGED <<coll, indexed>>
         /\ call'[w].at = "sent"
         /\ call'[w].addr = cur[w].addr /\ call'[w].seed = cur[w].seed
  BY DEF DB!CollTypeOK, DB!Calls, DB!CallStates, DB!Store, CallOthers, LoopTypeOK

(* Taking a store's answer or error, pointwise. *)
LEMMA SettleMoves ==
  ASSUME DB!CollTypeOK, NEW w \in Workers, DB!Settle(w)
  PROVE  /\ DB!CollTypeOK' /\ CallOthers(w) /\ UNCHANGED <<coll, indexed>>
         /\ call'[w].at = "idle"
<1>1. "idle" \in DB!CallStates
  BY DEF DB!CallStates
<1> QED
  BY <1>1, SetCallMoves DEF DB!Settle, DB!CollTypeOK

(* A run's own step writes no document: only the server does. *)
LEMMA CollStep ==
  ASSUME DB!CollTypeOK, LoopTypeOK, NEW w \in Workers, Own(w)
  PROVE  DB!CollTypeOK' /\ CallOthers(w) /\ coll' = coll /\ (indexed => indexed')
<1>1. ASSUME UNCHANGED dbVars
      PROVE  DB!CollTypeOK' /\ CallOthers(w) /\ coll' = coll /\ (indexed => indexed')
  BY <1>1 DEF dbVars, DB!CollTypeOK, CallOthers
<1>2. CASE MakeIndex(w)
  BY <1>1, <1>2 DEF MakeIndex, DB!CreateIndex, DB!CollTypeOK, CallOthers
<1>3. CASE Dedup(w)
  BY <1>1, <1>3, StoreMoves DEF Dedup
<1>4. CASE StoreReturns(w) \/ Count(w)
  BY <1>1, <1>4, SettleMoves DEF StoreReturns, Count
<1> QED
  BY <1>1, <1>2, <1>3, <1>4 DEF Own, Script, OpenTunnel, Connect, Ping,
     BuildCommand, Popen, InstallHandler, EnterTry, Read, ReadEof, Verify,
     StoreFails, Poll, Terminate, Wait, Kill, CloseClient, StopTunnel,
     Interrupt, Deliver, Killed

(* The server serves one call and only adds documents. *)
LEMMA ServerMoves ==
  ASSUME DB!CollTypeOK, NEW w \in Workers, DB!Server(w),
         Good(call[w].addr, call[w].seed)
  PROVE  DB!CollTypeOK' /\ CallOthers(w) /\ Grows /\ UNCHANGED indexed
<1>1. {"sent", "inserting", "old", "new", "dup"} \subseteq DB!CallStates
  BY DEF DB!CallStates
<1>2. CASE DB!Match(w)
  BY <1>1, <1>2, SetCallMoves DEF DB!Match, DB!OnMatch, DB!CollTypeOK, Grows, DB!Holds
<1>3. CASE DB!Insert(w)
  <2>1. DB!NewDoc(w) \in DB!Docs
    BY FinderAssumption DEF DB!NewDoc, DB!Docs, Good
  <2>2. coll' = coll \cup {DB!NewDoc(w)} /\ UNCHANGED indexed /\ DB!SetCall(w, "new")
    BY <1>3 DEF DB!Insert
  <2>3. call' \in [Workers -> DB!Calls] /\ CallOthers(w)
    BY <1>1, <2>2, SetCallMoves
  <2> QED
    BY <2>1, <2>2, <2>3 DEF DB!CollTypeOK, Grows, DB!Holds
<1>4. CASE DB!Refuse(w)
  BY <1>1, <1>4, SetCallMoves DEF DB!Refuse, DB!CollTypeOK, Grows, DB!Holds
<1> QED
  BY <1>2, <1>3, <1>4 DEF DB!Server

Used(d) == [public_key |-> d.public_key, seed |-> d.seed, isused |-> TRUE, by |-> d.by]

(* A wallet's use keeps the collection typed and every address held. *)
LEMMA UseMoves ==
  ASSUME DB!CollTypeOK, NEW d \in coll, coll' = (coll \ {d}) \cup {Used(d)},
         UNCHANGED <<indexed, call>>
  PROVE  DB!CollTypeOK' /\ Grows
<1>1. d \in DB!Docs
  BY DEF DB!CollTypeOK
<1>2. Used(d) \in DB!Docs /\ Used(d).public_key = d.public_key
  BY <1>1 DEF Used, DB!Docs
<1> QED
  BY <1>2 DEF DB!CollTypeOK, Grows, DB!Holds

(* Every step keeps the types; IInv is needed for the server's insert. *)
LEMMA TypeStep == IInv /\ [Next]_vars => TypeOK'
<1> SUFFICES ASSUME IInv, [Next]_vars PROVE TypeOK'
  OBVIOUS
<1>1. /\ DB!CollTypeOK /\ Engine!EngTypeOK /\ conf \in [Workers -> Configs]
      /\ CtrlTypeOK /\ ResTypeOK /\ LoopTypeOK /\ SigTypeOK
  BY DEF IInv, TypeOK
<1>2. ASSUME NEW w \in Workers, Own(w) PROVE TypeOK'
  <2>1. pc[w] = "dedup" => Good(cur[w].addr, cur[w].seed)
    BY DEF IInv, CallInv
  <2>2. UNCHANGED conf
    BY <1>2 DEF Own, Script, OpenTunnel, Connect, Ping, MakeIndex,
     BuildCommand, Popen, InstallHandler, EnterTry, Read, ReadEof, Verify, Dedup,
     StoreReturns, StoreFails, Count, Poll, Terminate, Wait, Kill, CloseClient,
     StopTunnel, Interrupt, Deliver, Killed
  <2> QED
    BY <1>1, <1>2, <2>1, <2>2, CtrlStep, ResStep, LoopStep, SigStep, EngStep, CollStep
    DEF TypeOK, Own
<1>3. ASSUME NEW w \in Workers,
             PrintStep(w) \/ CrashStep(w) \/ FallStep(w) \/ BrokenPipeStep(w)
      PROVE  TypeOK'
  <2>1. UNCHANGED <<scriptVars, dbVars>>
    BY <1>3 DEF PrintStep, CrashStep, FallStep, BrokenPipeStep
  <2>2. Engine!EngTypeOK'
    BY <1>1, <1>3, EngStep
  <2> QED
    BY <1>1, <2>1, <2>2 DEF TypeOK, scriptVars, dbVars, ctrlVars, resVars, loopVars,
       sigVars, CtrlTypeOK, ResTypeOK, LoopTypeOK, SigTypeOK, DB!CollTypeOK
<1>4. ASSUME UNCHANGED <<scriptVars, engVars>>, DB!CollTypeOK' PROVE TypeOK'
  BY <1>1, <1>4 DEF TypeOK, scriptVars, engVars, ctrlVars, resVars, loopVars,
     sigVars, CtrlTypeOK, ResTypeOK, LoopTypeOK, SigTypeOK, Engine!EngTypeOK
<1>5. ASSUME NEW w \in Workers, ServerStep(w) PROVE TypeOK'
  <2>1. Good(call[w].addr, call[w].seed)
    BY <1>5 DEF ServerStep, DB!Server, DB!Match, DB!Insert, DB!Refuse, IInv, CallInv
  <2> QED
    BY <1>1, <1>4, <1>5, <2>1, ServerMoves DEF ServerStep
<1>6. ASSUME WalletStep PROVE TypeOK'
  BY <1>1, <1>4, <1>6, UseMoves DEF WalletStep, DB!Use, Used
<1>7. ASSUME UNCHANGED vars PROVE TypeOK'
  BY <1>1, <1>4, <1>7 DEF vars, dbVars, scriptVars, DB!CollTypeOK
<1> QED
  BY <1>2, <1>3, <1>5, <1>6, <1>7 DEF Next, Own, AllDone

-----------------------------------------------------------------------------
(* Each invariant of a run under the run's own steps.                      *)
(* The parts of TypeOK, for citing. *)
LEMMA Typed ==
  ASSUME IInv
  PROVE  /\ DB!CollTypeOK /\ Engine!EngTypeOK /\ conf \in [Workers -> Configs]
         /\ CtrlTypeOK /\ ResTypeOK /\ LoopTypeOK /\ SigTypeOK
  BY DEF IInv, TypeOK

(* What a run holds at each location, after a step of its own. *)
LEMMA HeldOwn ==
  ASSUME IInv, NEW w \in Workers, Own(w)
  PROVE  HeldInv(w)'
<1> USE Typed DEF Locations, Startup, Loop, Stopping
<1>0. HeldInv(w)
  BY DEF IInv
<1>1. CASE OpenTunnel(w)
  BY <1>0, <1>1, GotoMoves, DieMoves DEF OpenTunnel, HeldInv, Gone, engVars
<1>2. CASE Connect(w)
  BY <1>0, <1>2, GotoMoves, DieMoves DEF Connect, HeldInv, Gone, engVars
<1>3. CASE Ping(w) \/ MakeIndex(w) \/ BuildCommand(w)
  BY <1>0, <1>3, GotoMoves, DieMoves DEF Ping, MakeIndex, BuildCommand, HeldInv, Gone,
     engVars, resVars
<1>4. CASE Popen(w)
  <2>1. CASE Goto(w, "arm") /\ Engine!Spawn(w)
    BY <1>0, <1>4, <2>1, GotoMoves DEF Popen, Engine!Spawn, Engine!EngTypeOK, HeldInv, Gone,
       resVars
  <2>2. CASE Die(w, "1") /\ UNCHANGED engVars
    BY <1>0, <1>4, <2>2, DieMoves DEF Popen, HeldInv, Gone, engVars, resVars
  <2> QED
    BY <1>4, <2>1, <2>2 DEF Popen
<1>5. CASE InstallHandler(w) \/ Verify(w) \/ StoreReturns(w) \/ Dedup(w)
  BY <1>0, <1>5, GotoMoves DEF InstallHandler, Verify, StoreReturns, Dedup, HeldInv, Gone,
     engVars, resVars
<1>6. CASE EnterTry(w)
  BY <1>0, <1>6 DEF EnterTry, CtrlTypeOK, HeldInv, Gone, engVars, resVars
<1>7. CASE Read(w)
  <2>1. pc[w] = "read" /\ UNCHANGED <<eng, doomed, resVars>>
    BY <1>7 DEF Read, Engine!TakeLine
  <2>2. Goto(w, "read") \/ Goto(w, "verify") \/ Unwind(w, "1")
    BY <1>7 DEF Read
  <2> QED
    BY <1>0, <2>1, <2>2, GotoMoves, UnwindMoves DEF HeldInv, Gone, resVars
<1>8. CASE ReadEof(w) \/ StoreFails(w) \/ Count(w)
  BY <1>0, <1>8, GotoMoves, UnwindMoves DEF ReadEof, StoreFails, Count, HeldInv, Gone,
     engVars, resVars
<1>9. ASSUME pc[w] \in {"poll", "wait", "kill"}, ShutdownReturns(w), Gone(w)',
             eng'[w] = eng[w], UNCHANGED resVars
      PROVE  HeldInv(w)'
  BY <1>0, <1>9, GotoMoves, DieMoves, UnwindMoves DEF ShutdownReturns, HeldInv, Gone, resVars
<1>10. CASE Poll(w) \/ Wait(w)
  <2>1. pc[w] \in {"poll", "wait"} /\ UNCHANGED engVars /\ UNCHANGED resVars
    BY <1>10 DEF Poll, Wait
  <2>2. CASE eng[w] = "dead" /\ ShutdownReturns(w)
    BY <1>9, <2>1, <2>2 DEF Gone, engVars
  <2>3. CASE Poll(w) /\ Goto(w, "term")
    BY <1>0, <2>1, <2>3, GotoMoves DEF Poll, HeldInv, Gone, engVars, resVars
  <2>4. CASE Wait(w) /\ Goto(w, "kill")
    BY <1>0, <2>1, <2>4, GotoMoves DEF Wait, HeldInv, Gone, engVars, resVars
  <2> QED
    BY <1>10, <2>2, <2>3, <2>4 DEF Poll, Wait
<1>11. ASSUME Engine!Signal(w), eng[w] # "none" PROVE Gone(w)' /\ UNCHANGED eng
  BY <1>11 DEF Engine!Signal, Engine!EngTypeOK, Gone
<1>12. CASE Terminate(w)
  BY <1>0, <1>11, <1>12, GotoMoves DEF Terminate, HeldInv, resVars
<1>13. CASE Kill(w)
  BY <1>0, <1>9, <1>11, <1>13 DEF Kill, HeldInv
<1>14. CASE CloseClient(w)
  BY <1>0, <1>14, GotoMoves DEF CloseClient, ResTypeOK, HeldInv, Gone, engVars
<1>15. CASE StopTunnel(w)
  BY <1>0, <1>15 DEF StopTunnel, ResTypeOK, CtrlTypeOK, HeldInv, Gone, engVars
<1>16. CASE Interrupt(w)
  <2>1. UNCHANGED <<ctrlVars, resVars, eng>> /\ (Gone(w) => Gone(w)')
    BY <1>16 DEF Interrupt, Engine!Signal, Engine!EngTypeOK, Gone, engVars
  <2> QED
    BY <1>0, <2>1 DEF HeldInv, ctrlVars, resVars
<1>17. CASE Deliver(w)
  <2>1. CASE pc[w] \in Startup
    <3>1. Die(w, "130") /\ caller[w] = "none"
      BY <1>0, <1>17, <2>1 DEF Deliver, HeldInv
    <3> QED
      BY <1>0, <1>17, <3>1, DieMoves DEF Deliver, HeldInv, Gone, engVars, resVars
  <2>2. CASE pc[w] \notin Startup
    BY <1>0, <1>17, <2>2 DEF Deliver, CtrlTypeOK, HeldInv, Gone, engVars, resVars
  <2> QED
    BY <1>17, <2>1, <2>2 DEF Deliver
<1>18. CASE Killed(w)
  BY <1>0, <1>18, DieMoves DEF Killed, HeldInv, Gone, engVars, resVars
<1> QED
  BY <1>1, <1>2, <1>3, <1>4, <1>5, <1>6, <1>7, <1>8, <1>10, <1>12, <1>13, <1>14, <1>15,
     <1>16, <1>17, <1>18 DEF Own, Script

(* What an own step leaves of the facts CallInv and SeenInv are about.     *)
(* What a run's location says of its call, after a step of its own. *)
LEMMA CallOwn ==
  ASSUME IInv, NEW w \in Workers, Own(w)
  PROVE  CallInv(w)'
<1> USE Typed DEF Locations, Startup, Loop, Stopping, Searching
<1>0. CallInv(w)
  BY DEF IInv
<1>1. ASSUME UNCHANGED <<dbVars, conf, seen, stored>>,
             pc'[w] \in Stopping \cup {"close", "stop", "exited"}
      PROVE  CallInv(w)'
  BY <1>0, <1>1 DEF CallInv, dbVars, Good
<1>2. CASE OpenTunnel(w) \/ Connect(w) \/ Ping(w) \/ BuildCommand(w) \/ Popen(w) \/ InstallHandler(w)
  <2>1. UNCHANGED <<dbVars, conf, loopVars>>
    BY <1>2 DEF OpenTunnel, Connect, Ping, BuildCommand, Popen, InstallHandler
  <2>2. CASE pc'[w] = "exited"
    BY <1>1, <2>1, <2>2 DEF loopVars
  <2>3. /\ pc[w] \in Startup
        /\ \/ pc'[w] \in {"connect", "ping", "index", "exited"}
           \/ pc'[w] = "build" /\ conf[w].dry
           \/ pc'[w] \in {"popen", "arm", "armed"} /\ pc[w] \in {"build", "popen", "arm"}
    BY <1>2, GotoMoves, DieMoves DEF OpenTunnel, Connect, Ping, BuildCommand, Popen, InstallHandler
  <2> QED
    BY <1>0, <2>1, <2>2, <2>3 DEF CallInv, dbVars, loopVars, Good
<1>3. CASE MakeIndex(w)
  <2>1. CASE Die(w, "1") /\ UNCHANGED dbVars
    BY <1>1, <1>3, <2>1, DieMoves DEF MakeIndex, loopVars
  <2>2. CASE Goto(w, "build") /\ DB!CreateIndex
    BY <1>0, <1>3, <2>2, GotoMoves DEF MakeIndex, DB!CreateIndex, loopVars, CallInv, Good
  <2> QED
    BY <1>3, <2>1, <2>2 DEF MakeIndex
<1>4. CASE EnterTry(w)
  <2>1. pc'[w] = "read" /\ pc[w] = "armed" /\ UNCHANGED <<dbVars, conf, loopVars>>
    BY <1>4 DEF EnterTry, CtrlTypeOK
  <2>2. conf[w].target > 0 => stored[w] < conf[w].target
    BY <1>0, <2>1, FinderAssumption DEF CallInv
  <2> QED
    BY <1>0, <2>1, <2>2 DEF CallInv, dbVars, loopVars, Good
<1>5. CASE Read(w)
  <2>1. pc[w] = "read" /\ UNCHANGED <<dbVars, conf, seen, stored>>
    BY <1>5 DEF Read
  <2>2. Goto(w, "read") \/ Goto(w, "verify") \/ Unwind(w, "1")
    BY <1>5 DEF Read
  <2> QED
    BY <1>0, <1>1, <2>1, <2>2, GotoMoves, UnwindMoves DEF CallInv, dbVars, Good
<1>6. CASE Verify(w)
  BY <1>0, <1>6, GotoMoves DEF Verify, CallInv, dbVars, loopVars, Good
<1>7. CASE Dedup(w)
  <2>1. CASE cur[w].addr \in seen[w]
    BY <1>0, <1>7, <2>1, GotoMoves DEF Dedup, CallInv, dbVars, Good
  <2>2. CASE cur[w].addr \notin seen[w] /\ conf[w].dry
    BY <1>0, <1>7, <2>2, GotoMoves DEF Dedup, CallInv, dbVars, Good
  <2>3. CASE cur[w].addr \notin seen[w] /\ ~conf[w].dry
    BY <1>0, <1>7, <2>3, GotoMoves, StoreMoves DEF Dedup, CallInv, Good
  <2> QED
    BY <2>1, <2>2, <2>3
<1>8. CASE StoreReturns(w)
  BY <1>0, <1>8, GotoMoves, SettleMoves DEF StoreReturns, CallInv, dbVars, loopVars, Good
<1>9. CASE ReadEof(w) \/ StoreFails(w)
  BY <1>1, <1>9, UnwindMoves DEF ReadEof, StoreFails, loopVars
<1>10. CASE Count(w)
  <2>1. /\ pc[w] = "count" /\ stored'[w] = stored[w] + 1 /\ UNCHANGED <<conf, cur, seen>>
        /\ indexed' = indexed
        /\ IF conf[w].dry THEN UNCHANGED call ELSE call'[w].at = "idle"
    BY <1>10, SettleMoves DEF Count, LoopTypeOK, dbVars
  <2>2. CASE Reached(w)
    <3>1. pc'[w] = "poll"
      BY <1>10, <2>2, UnwindMoves DEF Count
    <3> QED
      BY <1>0, <2>1, <3>1 DEF CallInv
  <2>3. CASE ~Reached(w)
    <3>1. pc'[w] = "read"
      BY <1>10, <2>3, GotoMoves DEF Count
    <3>2. conf[w].target > 0 => stored'[w] < conf[w].target
      BY <2>1, <2>3, FinderAssumption DEF Reached, LoopTypeOK
    <3> QED
      BY <1>0, <2>1, <3>1, <3>2 DEF CallInv
  <2> QED
    BY <2>2, <2>3
<1>11. CASE Poll(w) \/ Wait(w) \/ Kill(w)
  <2>1. UNCHANGED <<dbVars, conf, loopVars>>
    BY <1>11 DEF Poll, Wait, Kill
  <2>2. pc'[w] \in Stopping \cup {"close", "stop", "exited"}
    BY <1>11, GotoMoves, DieMoves, UnwindMoves DEF Poll, Wait, Kill, ShutdownReturns
  <2> QED
    BY <1>1, <2>1, <2>2 DEF loopVars
<1>12. CASE Terminate(w) \/ CloseClient(w) \/ StopTunnel(w) \/ Killed(w)
  <2>1. UNCHANGED <<dbVars, conf, loopVars>>
    BY <1>12 DEF Terminate, CloseClient, StopTunnel, Killed
  <2>2. pc'[w] \in Stopping \cup {"close", "stop", "exited"}
    BY <1>12, GotoMoves, DieMoves DEF Terminate, CloseClient, StopTunnel, Killed, CtrlTypeOK
  <2> QED
    BY <1>1, <2>1, <2>2 DEF loopVars
<1>13. CASE Interrupt(w)
  BY <1>0, <1>13 DEF Interrupt, CallInv, ctrlVars, dbVars, loopVars, Good
<1>14. CASE Deliver(w)
  <2>1. UNCHANGED <<dbVars, conf, loopVars>>
    BY <1>14 DEF Deliver
  <2>2. pc'[w] \in {"poll", "exited"}
    BY <1>14, DieMoves DEF Deliver, CtrlTypeOK
  <2> QED
    BY <1>1, <2>1, <2>2 DEF loopVars
<1> QED
  BY <1>2, <1>3, <1>4, <1>5, <1>6, <1>7, <1>8, <1>9, <1>10, <1>11, <1>12, <1>13, <1>14
  DEF Own, Script

(* Holds depends on the documents alone. *)
LEMMA HoldsSame == ASSUME UNCHANGED coll, NEW a PROVE DB!Holds(a)' <=> DB!Holds(a)
  BY DEF DB!Holds

(* What a run has seen is held or under way, after a step of its own. *)
LEMMA SeenOwn ==
  ASSUME IInv, NEW w \in Workers, Own(w)
  PROVE  SeenInv(w)'
<1> USE Typed DEF Locations, Startup, Loop, Stopping, Searching, Ending
<1>0. SeenInv(w) /\ CallInv(w)
  BY DEF IInv
<1>a. UNCHANGED coll
  BY CollStep
<1>b. \A a : DB!Holds(a)' <=> DB!Holds(a)
  BY <1>a, HoldsSame
<1>1. ASSUME UNCHANGED <<call, conf, seen, cur>>, pc[w] \notin Ending,
             pc'[w] \in Startup \cup {"armed"}, exit' = exit
      PROVE  SeenInv(w)'
  BY <1>0, <1>1, <1>b DEF SeenInv, CallInv
<1>2. ASSUME UNCHANGED <<call, conf, seen, cur>>, pc'[w] \in Ending,
             exit'[w] = "0" => exit[w] = "0"
      PROVE  SeenInv(w)'
  BY <1>0, <1>2, <1>b DEF SeenInv
<1>3. CASE OpenTunnel(w) \/ Connect(w) \/ Ping(w) \/ BuildCommand(w) \/ Popen(w)
           \/ InstallHandler(w)
  <2>1. UNCHANGED <<call, conf, seen, cur>> /\ pc[w] \in Startup
    BY <1>3 DEF OpenTunnel, Connect, Ping, BuildCommand, Popen, InstallHandler, dbVars, loopVars
  <2>2. \/ pc'[w] = "exited" /\ exit'[w] = "1"
        \/ pc'[w] \in Startup \cup {"armed"} /\ exit' = exit
    BY <1>3, GotoMoves, DieMoves DEF OpenTunnel, Connect, Ping, BuildCommand, Popen, InstallHandler
  <2> QED
    BY <1>1, <1>2, <2>1, <2>2
<1>4. CASE MakeIndex(w)
  <2>1. UNCHANGED <<call, conf, seen, cur>> /\ pc[w] \in Startup
    BY <1>4 DEF MakeIndex, DB!CreateIndex, dbVars, loopVars
  <2>2. \/ pc'[w] = "exited" /\ exit'[w] = "1"
        \/ pc'[w] = "build" /\ exit' = exit
    BY <1>4, GotoMoves, DieMoves DEF MakeIndex
  <2> QED
    BY <1>1, <1>2, <2>1, <2>2
<1>5. CASE EnterTry(w)
  <2>1. /\ pc'[w] = "read" /\ pc[w] = "armed" /\ exit' = exit
        /\ UNCHANGED <<call, conf, seen, cur>>
    BY <1>5 DEF EnterTry, CtrlTypeOK, dbVars, loopVars
  <2> QED
    BY <1>0, <2>1 DEF SeenInv, CallInv
<1>6. CASE Read(w)
  <2>1. pc[w] = "read" /\ UNCHANGED <<call, conf, seen>>
    BY <1>6 DEF Read, dbVars
  <2>2. Goto(w, "read") \/ Goto(w, "verify") \/ Unwind(w, "1")
    BY <1>6 DEF Read
  <2> QED
    BY <1>0, <1>b, <2>1, <2>2, GotoMoves, UnwindMoves DEF SeenInv
<1>7. CASE Verify(w)
  <2>1. pc[w] = "verify" /\ UNCHANGED <<call, conf, seen, cur>>
    BY <1>7 DEF Verify, dbVars, loopVars
  <2>2. pc'[w] \in {"dedup", "read"} /\ exit' = exit
    BY <1>7, GotoMoves DEF Verify
  <2> QED
    BY <1>0, <1>b, <2>1, <2>2 DEF SeenInv
<1>8. CASE Dedup(w)
  <2>1. pc[w] = "dedup" /\ UNCHANGED <<conf, cur>>
    BY <1>8 DEF Dedup
  <2>2. CASE cur[w].addr \in seen[w]
    BY <1>0, <1>8, <1>b, <2>1, <2>2, GotoMoves DEF Dedup, SeenInv, dbVars
  <2>3. CASE cur[w].addr \notin seen[w]
    <3>1. seen'[w] = seen[w] \cup {cur[w].addr}
      BY <1>8, <2>3 DEF Dedup, LoopTypeOK
    <3>2. CASE conf[w].dry
      BY <1>0, <1>8, <1>b, <2>1, <2>3, <3>1, <3>2, GotoMoves DEF Dedup, SeenInv, CallInv, dbVars
    <3>3. CASE ~conf[w].dry
      <4>1. /\ pc'[w] = "await" /\ exit' = exit
            /\ call'[w].at = "sent" /\ call'[w].addr = cur[w].addr
        BY <1>8, <2>3, <3>3, GotoMoves, StoreMoves DEF Dedup
      <4> QED
        BY <1>0, <1>b, <2>1, <3>1, <4>1 DEF SeenInv
    <3> QED
      BY <3>2, <3>3
  <2> QED
    BY <2>2, <2>3
<1>9. CASE StoreReturns(w)
  <2>1. pc[w] = "await" /\ UNCHANGED <<conf, cur, seen>>
    BY <1>9 DEF StoreReturns, loopVars
  <2>2. CASE call[w].at = "new" /\ Goto(w, "count") /\ UNCHANGED dbVars
    BY <1>0, <1>b, <2>1, <2>2, GotoMoves DEF SeenInv, dbVars
  <2>3. CASE call[w].at = "old" /\ Goto(w, "read") /\ DB!Settle(w)
    <3>1. pc'[w] = "read" /\ exit' = exit /\ call'[w].at = "idle"
      BY <2>3, GotoMoves, SettleMoves
    <3>2. \A a \in seen[w] : DB!Holds(a)
      BY <1>0, <2>1, <2>3 DEF SeenInv, CallInv
    <3> QED
      BY <1>0, <1>b, <2>1, <3>1, <3>2 DEF SeenInv
  <2> QED
    BY <1>9, <2>2, <2>3 DEF StoreReturns
<1>10. CASE ReadEof(w)
  BY <1>0, <1>10, <1>b, UnwindMoves DEF ReadEof, SeenInv, dbVars, loopVars
<1>11. CASE StoreFails(w)
  <2>1. pc'[w] = "poll" /\ exit'[w] = "1" /\ UNCHANGED <<call, conf, seen, cur>>
    BY <1>11, UnwindMoves DEF StoreFails, dbVars, loopVars
  <2> QED
    BY <1>2, <2>1
<1>12. CASE Count(w)
  <2>1. /\ pc[w] = "count" /\ UNCHANGED <<conf, cur, seen>>
        /\ IF conf[w].dry THEN UNCHANGED call ELSE call'[w].at = "idle"
    BY <1>12, SettleMoves DEF Count, dbVars
  <2>2. ~conf[w].dry => \A a \in seen[w] : DB!Holds(a)
    BY <1>0, <2>1 DEF SeenInv, CallInv
  <2>3. \/ pc'[w] = "poll" /\ exit'[w] = "0"
        \/ pc'[w] = "read" /\ exit' = exit
    BY <1>12, GotoMoves, UnwindMoves DEF Count
  <2> QED
    BY <1>0, <1>b, <2>1, <2>2, <2>3 DEF SeenInv, CallInv
<1>13. CASE Poll(w) \/ Wait(w) \/ Kill(w)
  <2>1. UNCHANGED <<call, conf, seen, cur>>
    BY <1>13 DEF Poll, Wait, Kill, dbVars, loopVars
  <2>2. pc'[w] \in Ending /\ (exit'[w] = "0" => exit[w] = "0")
    BY <1>13, GotoMoves, DieMoves, UnwindMoves DEF Poll, Wait, Kill, ShutdownReturns
  <2> QED
    BY <1>2, <2>1, <2>2
<1>14. CASE Terminate(w) \/ CloseClient(w) \/ StopTunnel(w) \/ Killed(w) \/ Deliver(w)
  <2>1. UNCHANGED <<call, conf, seen, cur>>
    BY <1>14 DEF Terminate, CloseClient, StopTunnel, Killed, Deliver, dbVars, loopVars
  <2>2. pc'[w] \in Ending /\ (exit'[w] = "0" => exit[w] = "0")
    BY <1>14, GotoMoves, DieMoves
    DEF Terminate, CloseClient, StopTunnel, Killed, Deliver, CtrlTypeOK
  <2> QED
    BY <1>2, <2>1, <2>2
<1>15. CASE Interrupt(w)
  BY <1>0, <1>15, <1>b DEF Interrupt, SeenInv, ctrlVars, dbVars, loopVars
<1> QED
  BY <1>3, <1>4, <1>5, <1>6, <1>7, <1>8, <1>9, <1>10, <1>11, <1>12, <1>13, <1>14, <1>15
  DEF Own, Script

(* A step that leaves a run's own variables alone keeps its invariants.    *)
Untouched(v) ==
    /\ pc'[v] = pc[v] /\ phase'[v] = phase[v] /\ caller'[v] = caller[v] /\ exit'[v] = exit[v]
    /\ tunnel'[v] = tunnel[v] /\ client'[v] = client[v]
    /\ cur'[v] = cur[v] /\ seen'[v] = seen[v] /\ stored'[v] = stored[v]
    /\ conf' = conf

(* A step that changes nothing a run's invariants speak of keeps them. *)
LEMMA Elsewhere ==
  ASSUME NEW v \in Workers, CallInv(v), SeenInv(v), HeldInv(v), Untouched(v), Grows,
         call'[v] = call[v], eng'[v] = eng[v], doomed'[v] = doomed[v]
  PROVE  CallInv(v)' /\ SeenInv(v)' /\ HeldInv(v)'
<1>1. CallInv(v)'
  BY DEF CallInv, Untouched, Grows, Good
<1>2. SeenInv(v)'
  BY DEF SeenInv, Untouched, Grows
<1>3. HeldInv(v)'
  BY DEF HeldInv, Gone, Untouched
<1> QED
  BY <1>1, <1>2, <1>3

(* A step of one run keeps every run's invariants. *)
LEMMA OwnStep ==
  ASSUME IInv, NEW w \in Workers, Own(w)
  PROVE  /\ DocsInv'
         /\ \A v \in Workers : CallInv(v)' /\ SeenInv(v)' /\ HeldInv(v)'
<1>1. coll' = coll /\ (indexed => indexed') /\ UNCHANGED conf
  BY Typed, CollStep DEF Own, Script, OpenTunnel, Connect, Ping, MakeIndex,
     BuildCommand, Popen, InstallHandler, EnterTry, Read, ReadEof, Verify, Dedup,
     StoreReturns, StoreFails, Count, Poll, Terminate, Wait, Kill, CloseClient,
     StopTunnel, Interrupt, Deliver, Killed
<1>2. DocsInv'
  BY <1>1 DEF IInv, DocsInv, StoredKeysVerified, OneDocPerAddress, Good
<1>3. Grows
  BY <1>1 DEF Grows, DB!Holds
<1>4. ASSUME NEW v \in Workers, v # w PROVE CallInv(v)' /\ SeenInv(v)' /\ HeldInv(v)'
  <2>1. pc[w] = "dedup" => Good(cur[w].addr, cur[w].seed)
    BY DEF IInv, CallInv
  <2>2. Untouched(v) /\ call'[v] = call[v] /\ eng'[v] = eng[v] /\ doomed'[v] = doomed[v]
    BY <1>1, <1>4, <2>1, Typed, CtrlStep, ResStep, LoopStep, CollStep, EngStep
    DEF Own, Untouched, CtrlOthers, ResOthers, LoopOthers, CallOthers, EngOthers
  <2> QED
    BY <1>3, <2>2, Elsewhere DEF IInv
<1> QED
  BY <1>2, <1>4, CallOwn, SeenOwn, HeldOwn

-----------------------------------------------------------------------------
(* Steps of the server, the wallets and the engines; the invariant.        *)
(* The server and the wallets keep documents verified and unique. *)
LEMMA ServerDocs ==
  ASSUME IInv, NEW w \in Workers, DB!Server(w)
  PROVE  DocsInv'
<1>1. call[w].at # "idle"
  BY DEF DB!Server, DB!Match, DB!Insert, DB!Refuse
<1>2. Good(call[w].addr, call[w].seed) /\ indexed
  BY <1>1 DEF IInv, CallInv
<1>3. CASE UNCHANGED <<coll, indexed>>
  BY <1>3 DEF IInv, DocsInv, StoredKeysVerified, OneDocPerAddress, Good
<1>4. CASE DB!Insert(w)
  <2>1. /\ coll' = coll \cup {DB!NewDoc(w)} /\ indexed' = indexed
        /\ \A d \in coll : d.public_key # call[w].addr
    BY <1>2, <1>4 DEF DB!Insert, DB!Holds
  <2>2. /\ DB!NewDoc(w).public_key = call[w].addr
        /\ DB!NewDoc(w).seed = call[w].seed
    BY DEF DB!NewDoc
  <2> QED
    BY <1>2, <2>1, <2>2 DEF IInv, DocsInv, StoredKeysVerified, OneDocPerAddress, Good
<1> QED
  BY <1>3, <1>4 DEF DB!Server, DB!Match, DB!OnMatch, DB!Refuse

(* A wallet's use keeps documents verified and unique. *)
LEMMA UseDocs ==
  ASSUME IInv, NEW d \in coll, coll' = (coll \ {d}) \cup {Used(d)}, UNCHANGED indexed
  PROVE  DocsInv'
<1>1. Used(d).public_key = d.public_key /\ Used(d).seed = d.seed
  BY DEF Used
<1> QED
  BY <1>1 DEF IInv, DocsInv, StoredKeysVerified, OneDocPerAddress, Good

(* The server's step keeps the invariants of the run it serves. *)
LEMMA ServerOwn ==
  ASSUME IInv, NEW w \in Workers, DB!Server(w), UNCHANGED <<scriptVars, engVars>>
  PROVE  CallInv(w)' /\ SeenInv(w)' /\ HeldInv(w)'
<1> USE Typed
<1>0. CallInv(w) /\ SeenInv(w) /\ HeldInv(w)
  BY DEF IInv
<1>1. call[w].at \in {"sent", "inserting"}
  BY DEF DB!Server, DB!Match, DB!Insert, DB!Refuse
<1>2. Good(call[w].addr, call[w].seed)
  BY <1>0, <1>1 DEF CallInv
<1>3. DB!CollTypeOK' /\ Grows /\ UNCHANGED indexed
  BY <1>2, ServerMoves
<1>4. /\ call'[w].at \in {"sent", "inserting", "old", "new", "dup"}
      /\ call'[w].addr = call[w].addr /\ call'[w].seed = call[w].seed
  BY SetCallMoves DEF DB!Server, DB!Match, DB!Insert, DB!Refuse, DB!CallStates
<1>5. call'[w].at \in {"old", "new"} => DB!Holds(call[w].addr)'
  <2>1. CASE DB!Match(w)
    <3>1. CASE DB!Holds(call[w].addr)
      BY <1>4, <2>1, <3>1 DEF DB!Match, DB!OnMatch, DB!Holds
    <3>2. CASE ~DB!Holds(call[w].addr)
      <4>1. DB!SetCall(w, "inserting") /\ "inserting" \in DB!CallStates
        BY <2>1, <3>2 DEF DB!Match, DB!CallStates
      <4>2. call'[w].at = "inserting"
        BY <4>1, SetCallMoves
      <4> QED
        BY <4>2
    <3> QED
      BY <3>1, <3>2
  <2>2. CASE DB!Insert(w)
    <3>1. DB!NewDoc(w) \in coll'
      BY <2>2 DEF DB!Insert
    <3>2. DB!NewDoc(w).public_key = call'[w].addr
      BY <1>4 DEF DB!NewDoc
    <3> QED
      BY <3>1, <3>2 DEF DB!Holds
  <2>3. CASE DB!Refuse(w)
    BY <2>3, SetCallMoves DEF DB!Refuse, DB!CallStates
  <2> QED
    BY <2>1, <2>2, <2>3 DEF DB!Server
<1>6. CallInv(w)'
  BY <1>0, <1>1, <1>3, <1>4 DEF CallInv, scriptVars, ctrlVars, loopVars, Good, Startup, Loop, Searching
<1>7. SeenInv(w)'
  BY <1>0, <1>3, <1>4, <1>5 DEF SeenInv, Grows, scriptVars, ctrlVars, loopVars
<1>8. HeldInv(w)'
  BY <1>0 DEF HeldInv, Gone, scriptVars, ctrlVars, resVars, engVars
<1> QED
  BY <1>6, <1>7, <1>8

(* An engine's step keeps the invariants of its run. *)
LEMMA EngineOwn ==
  ASSUME IInv, NEW w \in Workers,
         PrintStep(w) \/ CrashStep(w) \/ FallStep(w) \/ BrokenPipeStep(w)
  PROVE  CallInv(w)' /\ SeenInv(w)' /\ HeldInv(w)'
<1> USE Typed
<1>0. CallInv(w) /\ SeenInv(w) /\ HeldInv(w)
  BY DEF IInv
<1>1. UNCHANGED <<scriptVars, dbVars>>
  BY DEF PrintStep, CrashStep, FallStep, BrokenPipeStep
<1>2. /\ doomed'[w] = doomed[w]
      /\ eng'[w] = eng[w] \/ (eng[w] = "running" /\ eng'[w] = "dead")
  BY DEF PrintStep, CrashStep, FallStep, BrokenPipeStep, Engine!PrintLine, Engine!Fall,
     Engine!BreakPipe, Engine!End, Engine!EngTypeOK
<1>3. CallInv(w)'
  BY <1>0, <1>1 DEF CallInv, scriptVars, ctrlVars, loopVars, dbVars, Good
<1>4. SeenInv(w)'
  BY <1>0, <1>1 DEF SeenInv, scriptVars, ctrlVars, loopVars, dbVars, DB!Holds
<1>5. HeldInv(w)'
  BY <1>0, <1>1, <1>2 DEF HeldInv, Gone, scriptVars, ctrlVars, resVars, Startup
<1> QED
  BY <1>3, <1>4, <1>5

(* IInv is an inductive invariant. *)
LEMMA InitInv == Init => IInv
<1> SUFFICES ASSUME Init PROVE IInv
  OBVIOUS
<1> USE FinderAssumption
<1>1. TypeOK
  <2>1. CtrlTypeOK
    BY DEF Init, CtrlTypeOK, Locations, Startup
  <2>2. ResTypeOK /\ SigTypeOK
    BY DEF Init, ResTypeOK, SigTypeOK
  <2>3. LoopTypeOK
    BY DEF Init, LoopTypeOK
  <2>4. DB!CollTypeOK
    BY DEF Init, DB!CollInit, DB!CollTypeOK, DB!NoCall, DB!Calls, DB!CallStates
  <2>5. Engine!EngTypeOK
    BY DEF Init, Engine!EngInit, Engine!EngTypeOK
  <2>6. conf \in [Workers -> Configs]
    BY DEF Init
  <2> QED
    BY <2>1, <2>2, <2>3, <2>4, <2>5, <2>6 DEF TypeOK
<1>2. DocsInv
  BY DEF Init, DB!CollInit, DocsInv, StoredKeysVerified, OneDocPerAddress
<1>3. ASSUME NEW w \in Workers PROVE CallInv(w) /\ SeenInv(w) /\ HeldInv(w)
  <2>1. /\ pc[w] = "tunnel" /\ phase[w] = "before" /\ exit[w] = "none" /\ caller[w] = "none"
        /\ seen[w] = {} /\ stored[w] = 0 /\ call[w].at = "idle" /\ eng[w] = "none"
    BY DEF Init, DB!CollInit, DB!NoCall, Engine!EngInit
  <2> QED
    BY <2>1 DEF CallInv, SeenInv, HeldInv, Startup, Loop, Stopping, Searching
<1> QED
  BY <1>1, <1>2, <1>3 DEF IInv

(* IInv is kept by every step. *)
LEMMA StepInv == IInv /\ [Next]_vars => IInv'
<1> SUFFICES ASSUME IInv, [Next]_vars PROVE IInv'
  OBVIOUS
<1>1. TypeOK'
  BY TypeStep
<1>2. ASSUME NEW w \in Workers, Own(w) PROVE IInv'
  BY <1>1, <1>2, OwnStep DEF IInv
<1>3. ASSUME UNCHANGED scriptVars, Grows,
             NEW w \in Workers,
             CallOthers(w), EngOthers(w), CallInv(w)' /\ SeenInv(w)' /\ HeldInv(w)'
      PROVE  \A v \in Workers : CallInv(v)' /\ SeenInv(v)' /\ HeldInv(v)'
  <2> SUFFICES ASSUME NEW v \in Workers, v # w
               PROVE  CallInv(v)' /\ SeenInv(v)' /\ HeldInv(v)'
    BY <1>3
  <2>1. /\ Untouched(v)
        /\ call'[v] = call[v] /\ eng'[v] = eng[v] /\ doomed'[v] = doomed[v]
    BY <1>3 DEF Untouched, scriptVars, ctrlVars, resVars, loopVars, CallOthers, EngOthers
  <2> QED
    BY <1>3, <2>1, Elsewhere DEF IInv
<1>4. ASSUME NEW w \in Workers, ServerStep(w) PROVE IInv'
  <2>1. DB!Server(w) /\ UNCHANGED <<scriptVars, engVars>>
    BY <1>4 DEF ServerStep
  <2>2. Good(call[w].addr, call[w].seed)
    BY <2>1 DEF DB!Server, DB!Match, DB!Insert, DB!Refuse, IInv, CallInv
  <2>3. Grows /\ CallOthers(w)
    BY <2>1, <2>2, Typed, ServerMoves
  <2>4. EngOthers(w)
    BY <2>1 DEF engVars, EngOthers
  <2> QED
    BY <1>1, <1>3, <2>1, <2>3, <2>4, ServerDocs, ServerOwn DEF IInv
<1>5. ASSUME NEW w \in Workers,
             PrintStep(w) \/ CrashStep(w) \/ FallStep(w) \/ BrokenPipeStep(w)
      PROVE  IInv'
  <2>1. UNCHANGED <<scriptVars, dbVars>>
    BY <1>5 DEF PrintStep, CrashStep, FallStep, BrokenPipeStep
  <2>2. EngOthers(w)
    BY <1>5, Typed, EngStep
  <2>3. Grows /\ CallOthers(w) /\ DocsInv'
    BY <2>1 DEF dbVars, Grows, DB!Holds, CallOthers, IInv, DocsInv, StoredKeysVerified,
       OneDocPerAddress, Good
  <2> QED
    BY <1>1, <1>3, <1>5, <2>1, <2>2, <2>3, EngineOwn DEF IInv
<1>6. ASSUME UNCHANGED <<scriptVars, engVars, call>>, Grows, DocsInv' PROVE IInv'
  <2> SUFFICES ASSUME NEW v \in Workers PROVE CallInv(v)' /\ SeenInv(v)' /\ HeldInv(v)'
    BY <1>1, <1>6 DEF IInv
  <2>1. /\ Untouched(v)
        /\ call'[v] = call[v] /\ eng'[v] = eng[v] /\ doomed'[v] = doomed[v]
    BY <1>6 DEF Untouched, scriptVars, ctrlVars, resVars, loopVars, engVars
  <2> QED
    BY <1>6, <2>1, Elsewhere DEF IInv
<1>7. ASSUME WalletStep PROVE IInv'
  <2>1. PICK d \in coll : coll' = (coll \ {d}) \cup {Used(d)} /\ UNCHANGED <<indexed, call>>
    BY <1>7 DEF WalletStep, DB!Use, Used
  <2> QED
    BY <1>6, <1>7, <2>1, Typed, UseMoves, UseDocs DEF WalletStep
<1>8. ASSUME UNCHANGED vars PROVE IInv'
  BY <1>6, <1>8 DEF vars, dbVars, scriptVars, Grows, DB!Holds, IInv, DocsInv,
     StoredKeysVerified, OneDocPerAddress, Good
<1> QED
  BY <1>2, <1>4, <1>5, <1>7, <1>8 DEF Next, Own, AllDone

(* The inductive invariant holds in every reachable state. *)
THEOREM Invariance == Spec => []IInv
  BY InitInv, StepInv, PTL DEF Spec

(* Type correctness: in particular verify_keypair keeps malformed words out of
   seen_addresses and out of the database. *)
THEOREM TypeCorrect == Spec => []TypeOK
<1>1. IInv => TypeOK
  BY DEF IInv
<1> QED
  BY <1>1, Invariance, PTL

-----------------------------------------------------------------------------
(* Counting: how many documents a run has inserted.                        *)
(* The counters: what a run has inserted, and what it has counted.         *)
CountInv(w) ==
    /\ IsFiniteSet(Inserted(w))
    /\ conf[w].dry => Inserted(w) = {}
    /\ ~conf[w].dry =>
          Cardinality(Inserted(w)) = stored[w] + IF call[w].at = "new" THEN 1 ELSE 0
    /\ conf[w].target > 0 => stored[w] <= conf[w].target

(* The two ways an own step leaves a run's answer and counter.             *)
Idles(w) ==
    /\ stored'[w] = stored[w]
    /\ call'[w].at = "new" <=> call[w].at = "new"
Counts(w) ==
    /\ stored'[w] = stored[w] + 1
    /\ conf[w].target > 0 => stored'[w] <= conf[w].target
    /\ IF conf[w].dry THEN call'[w] = call[w]
       ELSE call[w].at = "new" /\ call'[w].at = "idle"

(* A run's own step counts a key, or changes neither answer nor counter. *)
LEMMA OwnTally ==
  ASSUME IInv, NEW w \in Workers, Own(w)
  PROVE  /\ UNCHANGED <<coll, conf>>
         /\ \A v \in Workers \ {w} : stored'[v] = stored[v] /\ call'[v] = call[v]
         /\ Idles(w) \/ Counts(w)
<1> USE Typed
<1>0. CallInv(w)
  BY DEF IInv
<1>1. UNCHANGED <<coll, conf>>
  BY CollStep DEF Own, Script, OpenTunnel, Connect, Ping, MakeIndex,
     BuildCommand, Popen, InstallHandler, EnterTry, Read, ReadEof, Verify, Dedup,
     StoreReturns, StoreFails, Count, Poll, Terminate, Wait, Kill, CloseClient,
     StopTunnel, Interrupt, Deliver, Killed
<1>2. \A v \in Workers \ {w} : stored'[v] = stored[v] /\ call'[v] = call[v]
  <2>1. pc[w] = "dedup" => Good(cur[w].addr, cur[w].seed)
    BY <1>0 DEF CallInv
  <2> QED
    BY <2>1, LoopStep, CollStep DEF LoopOthers, CallOthers
<1>3. ASSUME UNCHANGED <<call, stored>> PROVE Idles(w) \/ Counts(w)
  BY <1>3 DEF Idles
<1>4. ASSUME Dedup(w) PROVE Idles(w) \/ Counts(w)
  <2>1. pc[w] = "dedup" /\ stored' = stored
    BY <1>4 DEF Dedup
  <2>2. call[w].at = "idle"
    BY <1>0, <2>1 DEF CallInv, Searching
  <2>3. UNCHANGED dbVars \/ DB!Store(w, cur[w].addr, cur[w].seed)
    BY <1>4 DEF Dedup
  <2>4. call'[w].at \in {"idle", "sent"}
    BY <2>2, <2>3, StoreMoves DEF dbVars
  <2> QED
    BY <2>1, <2>2, <2>4 DEF Idles
<1>5. ASSUME StoreReturns(w) PROVE Idles(w) \/ Counts(w)
  <2>1. stored' = stored
    BY <1>5 DEF StoreReturns, loopVars
  <2>2. UNCHANGED dbVars \/ (call[w].at = "old" /\ DB!Settle(w))
    BY <1>5 DEF StoreReturns
  <2>3. call' = call \/ (call[w].at = "old" /\ call'[w].at = "idle")
    BY <2>2, SettleMoves DEF dbVars
  <2> QED
    BY <2>1, <2>3 DEF Idles
<1>6. ASSUME Count(w) PROVE Idles(w) \/ Counts(w)
  <2>1. pc[w] = "count" /\ stored'[w] = stored[w] + 1 /\ stored[w] \in Nat
    <3>1. pc[w] = "count" /\ stored' = [stored EXCEPT ![w] = @ + 1]
      BY <1>6 DEF Count
    <3> QED
      BY <3>1 DEF LoopTypeOK
  <2>2. conf[w].target > 0 => stored'[w] <= conf[w].target
    <3>1. conf[w].target \in Nat
      BY FinderAssumption
    <3> QED
      BY <1>0, <2>1, <3>1 DEF CallInv, Loop
  <2>3. IF conf[w].dry THEN call'[w] = call[w]
        ELSE call[w].at = "new" /\ call'[w].at = "idle"
    <3>1. IF conf[w].dry THEN UNCHANGED dbVars ELSE DB!Settle(w)
      BY <1>6 DEF Count
    <3>2. ~conf[w].dry => call[w].at = "new"
      BY <1>0, <2>1 DEF CallInv
    <3> QED
      BY <3>1, <3>2, SettleMoves DEF dbVars
  <2> QED
    BY <2>1, <2>2, <2>3 DEF Counts
<1>7. ASSUME MakeIndex(w) PROVE Idles(w) \/ Counts(w)
  BY <1>3, <1>7 DEF MakeIndex, DB!CreateIndex, dbVars, loopVars
<1> QED
  BY <1>1, <1>2, <1>3, <1>4, <1>5, <1>6, <1>7 DEF Own, Script, OpenTunnel, Connect, Ping,
     BuildCommand, Popen, InstallHandler, EnterTry, Read, ReadEof, Verify,
     StoreFails, Poll, Terminate, Wait, Kill, CloseClient, StopTunnel,
     Interrupt, Deliver, Killed, dbVars, loopVars

(* Each kind of step keeps the counts. *)
LEMMA CountOwn ==
  ASSUME IInv, \A v \in Workers : CountInv(v), NEW w \in Workers, Own(w)
  PROVE  \A v \in Workers : CountInv(v)'
<1> SUFFICES ASSUME NEW v \in Workers PROVE CountInv(v)'
  OBVIOUS
<1>1. Inserted(v)' = Inserted(v) /\ UNCHANGED conf
  BY OwnTally DEF Inserted
<1>2. CASE stored'[v] = stored[v] /\ (call'[v].at = "new" <=> call[v].at = "new")
  BY <1>1, <1>2 DEF CountInv
<1>3. CASE Counts(v)
  BY <1>1, <1>3, Typed DEF CountInv, Counts, LoopTypeOK
<1> QED
  BY <1>2, <1>3, OwnTally DEF Idles

(* The server's insert is counted with the call it answers. *)
LEMMA CountServer ==
  ASSUME IInv, \A v \in Workers : CountInv(v), NEW w \in Workers, ServerStep(w)
  PROVE  \A v \in Workers : CountInv(v)'
<1> USE Typed
<1> SUFFICES ASSUME NEW v \in Workers PROVE CountInv(v)'
  OBVIOUS
<1>1. DB!Server(w) /\ UNCHANGED <<conf, stored>>
  BY DEF ServerStep, scriptVars, loopVars
<1>2. call[w].at \in {"sent", "inserting"} /\ Good(call[w].addr, call[w].seed)
  BY <1>1 DEF DB!Server, DB!Match, DB!Insert, DB!Refuse, IInv, CallInv
<1>3. CASE DB!Insert(w)
  <2>1. /\ coll' = coll \cup {DB!NewDoc(w)} /\ ~DB!Holds(call[w].addr)
        /\ call'[w].at = "new" /\ call[w].at # "new" /\ CallOthers(w)
    BY <1>2, <1>3, SetCallMoves DEF DB!Insert, IInv, CallInv, DB!CallStates
  <2>2. DB!NewDoc(w).by = w /\ DB!NewDoc(w).public_key = call[w].addr
    BY DEF DB!NewDoc
  <2>3. DB!NewDoc(w) \notin coll
    BY <2>1, <2>2 DEF DB!Holds
  <2>4. CASE v = w
    <3>1. Inserted(v)' = Inserted(v) \cup {DB!NewDoc(w)} /\ DB!NewDoc(w) \notin Inserted(v)
      BY <2>1, <2>2, <2>3, <2>4 DEF Inserted
    <3>2. /\ IsFiniteSet(Inserted(v)')
          /\ Cardinality(Inserted(v)') = Cardinality(Inserted(v)) + 1
      BY <3>1, FS_AddElement DEF CountInv
    <3>3. ~conf[v].dry
      BY <1>2, <2>4 DEF IInv, CallInv
    <3>4. Cardinality(Inserted(v)) = stored[v] /\ stored[v] \in Nat
      BY <2>1, <2>4, <3>3 DEF CountInv, LoopTypeOK
    <3> QED
      BY <1>1, <2>1, <2>4, <3>2, <3>3, <3>4 DEF CountInv
  <2>5. CASE v # w
    <3>1. Inserted(v)' = Inserted(v) /\ call'[v] = call[v]
      BY <2>1, <2>2, <2>5 DEF Inserted, CallOthers
    <3> QED
      BY <1>1, <3>1 DEF CountInv
  <2> QED
    BY <2>4, <2>5
<1>4. CASE DB!Match(w) \/ DB!Refuse(w)
  <2>1. /\ coll' = coll /\ CallOthers(w)
        /\ call'[w].at # "new" /\ call[w].at # "new"
    BY <1>2, <1>4, SetCallMoves DEF DB!Match, DB!OnMatch, DB!Refuse, DB!CallStates
  <2> QED
    BY <1>1, <2>1 DEF CountInv, Inserted, CallOthers
<1> QED
  BY <1>1, <1>3, <1>4 DEF DB!Server

(* A wallet's use counts for nobody. *)
LEMMA CountWallet ==
  ASSUME IInv, \A v \in Workers : CountInv(v), WalletStep
  PROVE  \A v \in Workers : CountInv(v)'
<1> SUFFICES ASSUME NEW v \in Workers PROVE CountInv(v)'
  OBVIOUS
<1>1. UNCHANGED <<conf, stored, call>>
  BY DEF WalletStep, DB!Use, scriptVars, loopVars
<1>2. PICK d \in coll : ~d.isused /\ coll' = (coll \ {d}) \cup {Used(d)}
  BY DEF WalletStep, DB!Use, Used
<1>3. Used(d).public_key = d.public_key /\ Used(d).by = d.by /\ Used(d).isused
  BY DEF Used
<1>4. Used(d) \notin coll
  <2> SUFFICES ASSUME Used(d) \in coll PROVE FALSE
    OBVIOUS
  <2>1. Used(d) = d
    BY <1>3 DEF IInv, DocsInv, OneDocPerAddress
  <2> QED
    BY <1>2, <1>3, <2>1
<1>5. CASE d.by = v
  <2>1. /\ d \in Inserted(v) /\ Used(d) \notin Inserted(v) \ {d}
        /\ Inserted(v)' = (Inserted(v) \ {d}) \cup {Used(d)}
    BY <1>2, <1>3, <1>4, <1>5 DEF Inserted
  <2>2. IsFiniteSet(Inserted(v))
    BY DEF CountInv
  <2>3. /\ IsFiniteSet(Inserted(v) \ {d})
        /\ Cardinality(Inserted(v) \ {d}) = Cardinality(Inserted(v)) - 1
    BY <2>1, <2>2, FS_RemoveElement
  <2>4. /\ IsFiniteSet(Inserted(v)')
        /\ Cardinality(Inserted(v)') = Cardinality(Inserted(v) \ {d}) + 1
    BY <2>1, <2>3, FS_AddElement
  <2>5. Cardinality(Inserted(v)) \in Nat
    BY <2>2, FS_CardinalityType
  <2>6. Cardinality(Inserted(v)') = Cardinality(Inserted(v)) /\ Inserted(v) # {}
    BY <2>1, <2>3, <2>4, <2>5
  <2> QED
    BY <1>1, <2>4, <2>6 DEF CountInv
<1>6. CASE d.by # v
  <2>1. Inserted(v)' = Inserted(v)
    BY <1>2, <1>3, <1>6 DEF Inserted
  <2> QED
    BY <1>1, <2>1 DEF CountInv
<1> QED
  BY <1>5, <1>6

Counted == \A w \in Workers : CountInv(w)

(* Counted is inductive relative to IInv. *)
LEMMA InitCounted == Init => Counted
<1> SUFFICES ASSUME Init, NEW w \in Workers PROVE CountInv(w)
  BY DEF Counted
<1>1. Inserted(w) = {} /\ stored[w] = 0 /\ call[w].at = "idle"
  BY DEF Init, DB!CollInit, DB!NoCall, Inserted
<1>2. IsFiniteSet({}) /\ Cardinality({}) = 0
  BY FS_EmptySet
<1>3. conf[w].target \in Nat
  BY FinderAssumption DEF Init
<1> QED
  BY <1>1, <1>2, <1>3 DEF CountInv

(* Counted is kept by every step from IInv. *)
LEMMA StepCounted == IInv /\ Counted /\ [Next]_vars => Counted'
<1> SUFFICES ASSUME IInv, Counted, [Next]_vars PROVE Counted'
  OBVIOUS
<1>1. CASE UNCHANGED <<coll, conf, stored, call>>
  BY <1>1 DEF Counted, CountInv, Inserted
<1>2. ASSUME NEW w \in Workers, Own(w) PROVE Counted'
  BY <1>2, CountOwn DEF Counted
<1>3. ASSUME NEW w \in Workers, ServerStep(w) PROVE Counted'
  BY <1>3, CountServer DEF Counted
<1>4. CASE WalletStep
  BY <1>4, CountWallet DEF Counted
<1>5. ASSUME NEW w \in Workers,
             PrintStep(w) \/ CrashStep(w) \/ FallStep(w) \/ BrokenPipeStep(w)
      PROVE  Counted'
  BY <1>1, <1>5 DEF PrintStep, CrashStep, FallStep, BrokenPipeStep, scriptVars, dbVars, loopVars
<1>6. CASE UNCHANGED vars
  BY <1>1, <1>6 DEF vars, dbVars, loopVars
<1> QED
  BY <1>2, <1>3, <1>4, <1>5, <1>6 DEF Next, Own, AllDone

(* The counts hold in every reachable state. *)
LEMMA CountedInvariance == Spec => []Counted
  BY Invariance, InitCounted, StepCounted, PTL DEF Spec

(* verify_keypair guards the database: every document holds a key it accepted,
   whatever engines print and however runs, server and failures interleave. *)
THEOREM NothingUnverified == Spec => []StoredKeysVerified
<1>1. IInv => StoredKeysVerified
  BY DEF IInv, DocsInv
<1> QED
  BY <1>1, Invariance, PTL

(* The unique index created by open_collection and store()'s upsert keep one
   document for each address, for any number of concurrent runs. *)
THEOREM AddressesUnique == Spec => []OneDocPerAddress
<1>1. IInv => OneDocPerAddress
  BY DEF IInv, DocsInv
<1> QED
  BY <1>1, Invariance, PTL

(* What the loop skips as seen is in the database: a failing store() ends the
   run before it could skip the address. *)
THEOREM SeenIsNeverLost == Spec => []SeenIsStored
<1>1. IInv => SeenIsStored
  BY DEF IInv, SeenInv, SeenIsStored, Searching
<1> QED
  BY <1>1, Invariance, PTL

(* A run that was in the loop and ends by itself has closed the client, stopped
   the tunnel and ended or outlived its engine. *)
THEOREM ExitsRelease == Spec => []ExitReleases
<1>1. IInv => ExitReleases
  BY DEF IInv, HeldInv, ExitReleases, Released, Gone
<1> QED
  BY <1>1, Invariance, PTL

(* An interrupt that the handler takes never leaves the engine running
   unsignalled, wherever in main() and in whichever shutdown() it lands. *)
THEOREM InterruptsStopEngine == Spec => []InterruptStopsEngine
<1>1. IInv => InterruptStopsEngine
  BY DEF IInv, HeldInv, InterruptStopsEngine, Gone
<1> QED
  BY <1>1, Invariance, PTL

(* stored is the number of documents the run inserted, up to an answer it has
   not counted yet. *)
THEOREM CountsAgree == Spec => []InsertsAccounted
<1>1. Counted => InsertsAccounted
  BY DEF Counted, CountInv, InsertsAccounted
<1> QED
  BY <1>1, CountedInvariance, PTL

(* No run inserts more than TARGET_COUNT documents. *)
THEOREM TargetsHold == Spec => []NoOvershoot
<1>1. IInv /\ Counted => NoOvershoot
  <2> SUFFICES ASSUME IInv, Counted, NEW w \in Workers, conf[w].target > 0
               PROVE  Cardinality(Inserted(w)) <= conf[w].target
    BY DEF NoOvershoot
  <2>1. CountInv(w) /\ CallInv(w) /\ stored[w] \in Nat /\ conf[w].target \in Nat
    BY Typed, FinderAssumption DEF IInv, Counted, LoopTypeOK
  <2>2. CASE conf[w].dry
    BY <2>1, <2>2, FS_EmptySet DEF CountInv
  <2>3. CASE ~conf[w].dry /\ call[w].at = "new"
    BY <2>1, <2>3 DEF CountInv, CallInv
  <2>4. CASE ~conf[w].dry /\ call[w].at # "new"
    BY <2>1, <2>4 DEF CountInv
  <2> QED
    BY <2>2, <2>3, <2>4
<1> QED
  BY <1>1, Invariance, CountedInvariance, PTL

-----------------------------------------------------------------------------
(* Documents are written once; the refinement of KeyStore.                 *)
(* One step of the collection's documents: they stay, one is added, or one *)
(* is marked used.                                                         *)
LEMMA WriteOnceStep ==
  ASSUME IInv, [Next]_vars
  PROVE  \A d \in coll : \E e \in coll' :
            /\ e.public_key = d.public_key /\ e.seed = d.seed /\ e.by = d.by
            /\ d.isused => e.isused
<1> USE Typed
<1> SUFFICES ASSUME NEW d \in coll
             PROVE  \E e \in coll' : /\ e.public_key = d.public_key /\ e.seed = d.seed /\ e.by = d.by
                                     /\ d.isused => e.isused
  OBVIOUS
<1>1. d \in DB!Docs
  BY DEF DB!CollTypeOK
<1>2. CASE d \in coll'
  BY <1>1, <1>2 DEF DB!Docs
<1>3. ASSUME NEW w \in Workers, Own(w) PROVE d \in coll'
  BY <1>3, OwnTally
<1>4. ASSUME NEW w \in Workers, ServerStep(w) PROVE d \in coll'
  BY <1>4 DEF ServerStep, DB!Server, DB!Match, DB!OnMatch, DB!Insert, DB!Refuse
<1>5. ASSUME NEW w \in Workers,
             PrintStep(w) \/ CrashStep(w) \/ FallStep(w) \/ BrokenPipeStep(w)
      PROVE  d \in coll'
  BY <1>5 DEF PrintStep, CrashStep, FallStep, BrokenPipeStep, dbVars
<1>6. CASE WalletStep
  <2>1. PICK u \in coll : ~u.isused /\ coll' = (coll \ {u}) \cup {Used(u)}
    BY <1>6 DEF WalletStep, DB!Use, Used
  <2>2. CASE u # d
    BY <1>2, <2>1, <2>2
  <2>3. CASE u = d
    <3>1. Used(d) \in coll' /\ Used(d).isused
          /\ Used(d).public_key = d.public_key /\ Used(d).seed = d.seed /\ Used(d).by = d.by
      BY <2>1, <2>3 DEF Used
    <3> QED
      BY <3>1
  <2> QED
    BY <2>2, <2>3
<1>7. CASE UNCHANGED vars
  BY <1>2, <1>7 DEF vars, dbVars
<1> QED
  BY <1>2, <1>3, <1>4, <1>5, <1>6, <1>7 DEF Next, Own, AllDone, vars, dbVars

(* $setOnInsert: no step changes key material, resets isused or removes a
   document. *)
THEOREM DocumentsWriteOnce == Spec => DocsWriteOnce
<1>1. IInv /\ [Next]_vars =>
        [\A d \in coll : \E e \in coll' :
            /\ e.public_key = d.public_key /\ e.seed = d.seed /\ e.by = d.by
            /\ d.isused => e.isused]_vars
  BY WriteOnceStep
<1> QED
  BY <1>1, Invariance, PTL DEF Spec, DocsWriteOnce

-----------------------------------------------------------------------------
(* The refinement mapping, by name. *)
credit == [w \in Workers |-> IF conf[w].dry THEN 0 ELSE stored[w]]
uncounted == [w \in Workers |-> call[w].at = "new"]
limit == [w \in Workers |-> conf[w].target]

(* Initial states and steps map to KeyStore's. *)
LEMMA InitPromised == Init => Promised!StoreInit
<1> SUFFICES ASSUME Init PROVE Promised!StoreInit
  OBVIOUS
<1>1. coll = {}
  BY DEF Init, DB!CollInit
<1>2. \A w \in Workers : stored[w] = 0 /\ call[w].at # "new"
  BY DEF Init, DB!CollInit, DB!NoCall
<1>3. credit = [w \in Workers |-> 0]
  BY <1>2 DEF credit
<1>4. uncounted = [w \in Workers |-> FALSE]
  BY <1>2, Zenon DEF uncounted
<1>5. limit \in [Workers -> Nat]
  BY FinderAssumption DEF Init, limit
<1> QED
  BY <1>1, <1>3, <1>4, <1>5 DEF Promised!StoreInit, credit, uncounted, limit

(* Every step maps to a step of KeyStore or to a stutter. *)
LEMMA StepPromised ==
  ASSUME IInv, [Next]_vars
  PROVE  [Promised!StoreNext]_(Promised!storeVars)
<1> USE Typed
<1> SUFFICES Promised!StoreNext \/ UNCHANGED <<coll, credit, uncounted, limit>>
  BY DEF Promised!storeVars, credit, uncounted, limit
<1>1. CASE UNCHANGED <<coll, conf, stored, call>>
  BY <1>1 DEF credit, uncounted, limit
<1>2. ASSUME NEW w \in Workers, Own(w)
      PROVE  Promised!StoreNext \/ UNCHANGED <<coll, credit, uncounted, limit>>
  <2>1. /\ UNCHANGED <<coll, conf>>
        /\ \A v \in Workers \ {w} : stored'[v] = stored[v] /\ call'[v] = call[v]
        /\ Idles(w) \/ Counts(w)
    BY <1>2, OwnTally
  <2>2. UNCHANGED <<coll, limit>>
    BY <2>1 DEF limit
  <2>3. CASE Idles(w)
    <3>1. \A v \in Workers : stored'[v] = stored[v] /\ (call'[v].at = "new" <=> call[v].at = "new")
      BY <2>1, <2>3 DEF Idles
    <3>2. credit' = credit
      BY <2>1, <3>1 DEF credit
    <3>3. uncounted' = uncounted
      BY <3>1, Zenon DEF uncounted
    <3> QED
      BY <2>2, <3>2, <3>3
  <2>4. CASE Counts(w) /\ conf[w].dry
    <3>1. \A v \in Workers : call'[v] = call[v] /\ (~conf[v].dry => stored'[v] = stored[v])
      BY <2>1, <2>4 DEF Counts
    <3>2. credit' = credit
      BY <2>1, <3>1 DEF credit
    <3>3. uncounted' = uncounted
      BY <3>1, Zenon DEF uncounted
    <3> QED
      BY <2>2, <3>2, <3>3
  <2>5. CASE Counts(w) /\ ~conf[w].dry
    <3>1. stored'[w] = stored[w] + 1 /\ call[w].at = "new" /\ call'[w].at # "new"
      BY <2>5 DEF Counts
    <3>2. uncounted[w]
      BY <3>1 DEF uncounted
    <3>3. uncounted' = [uncounted EXCEPT ![w] = FALSE]
      BY <2>1, <3>1 DEF uncounted
    <3>4. credit' = [credit EXCEPT ![w] = @ + 1]
      BY <2>1, <2>5, <3>1 DEF credit
    <3>5. Promised!CountKey(w)
      BY <2>2, <3>2, <3>3, <3>4 DEF Promised!CountKey, credit, uncounted, limit
    <3> QED
      BY <3>5 DEF Promised!StoreNext
  <2> QED
    BY <2>1, <2>3, <2>4, <2>5
<1>3. ASSUME NEW w \in Workers, ServerStep(w)
      PROVE  Promised!StoreNext \/ UNCHANGED <<coll, credit, uncounted, limit>>
  <2>1. DB!Server(w) /\ UNCHANGED <<conf, stored>>
    BY <1>3 DEF ServerStep, scriptVars, loopVars
  <2>2. call[w].at \in {"sent", "inserting"}
    BY <2>1 DEF DB!Server, DB!Match, DB!Insert, DB!Refuse
  <2>3. /\ indexed /\ ~conf[w].dry /\ Good(call[w].addr, call[w].seed)
        /\ conf[w].target > 0 => stored[w] < conf[w].target
    BY <2>2 DEF IInv, CallInv
  <2>4. UNCHANGED <<credit, limit>>
    BY <2>1 DEF credit, limit
  <2>5. CASE DB!Insert(w)
    <3>1. /\ coll' = coll \cup {DB!NewDoc(w)} /\ ~DB!Holds(call[w].addr)
          /\ call'[w].at = "new" /\ call[w].at # "new" /\ CallOthers(w)
      BY <2>2, <2>3, <2>5, SetCallMoves DEF DB!Insert, DB!CallStates
    <3>2. uncounted' = [uncounted EXCEPT ![w] = TRUE]
      BY <3>1 DEF uncounted, CallOthers
    <3>3. ~uncounted[w]
      BY <3>1 DEF uncounted
    <3>4. limit[w] > 0 => credit[w] < limit[w]
      BY <2>3 DEF limit, credit
    <3>5. PICK a \in Addrs, s \in Seeds : a = call[w].addr /\ s = call[w].seed
      BY <2>3, FinderAssumption DEF Good
    <3>6. Promised!Add(w, a, s)
      <4>1. a \in Matching /\ AddressOf[s] = a /\ \A k \in coll : k.public_key # a
        BY <2>3, <3>1, <3>5 DEF Good, DB!Holds
      <4>2. coll' = coll \cup {[public_key |-> a, seed |-> s, isused |-> FALSE, by |-> w]}
        BY <3>1, <3>5 DEF DB!NewDoc
      <4> QED
        BY <2>4, <3>2, <3>3, <3>4, <4>1, <4>2, Zenon
        DEF Promised!Add, credit, uncounted, limit
    <3> QED
      BY <3>6, Zenon DEF Promised!StoreNext
  <2>6. CASE DB!Match(w) \/ DB!Refuse(w)
    <3>1. coll' = coll
      BY <2>6 DEF DB!Match, DB!OnMatch, DB!Refuse
    <3>2. \E s \in {"sent", "inserting", "old", "dup"} : DB!SetCall(w, s)
      BY <2>6 DEF DB!Match, DB!Refuse
    <3>3. CallOthers(w) /\ call'[w].at # "new"
      BY <3>2, SetCallMoves DEF DB!CallStates
    <3>4. \A v \in Workers : call'[v].at = "new" <=> call[v].at = "new"
      BY <2>2, <3>3 DEF CallOthers
    <3>5. uncounted' = uncounted
      BY <3>4, Zenon DEF uncounted
    <3> QED
      BY <2>4, <3>1, <3>5
  <2> QED
    BY <2>1, <2>5, <2>6 DEF DB!Server
<1>4. CASE WalletStep
  <2>1. UNCHANGED <<conf, stored, call>> /\ DB!Use
    BY <1>4 DEF WalletStep, DB!Use, scriptVars, loopVars
  <2>2. UNCHANGED <<credit, uncounted, limit>>
    BY <2>1 DEF credit, uncounted, limit
  <2>3. Promised!TakeKey
    BY <2>1, <2>2 DEF DB!Use, Promised!TakeKey, credit, uncounted, limit
  <2> QED
    BY <2>3 DEF Promised!StoreNext
<1>5. ASSUME NEW w \in Workers,
             PrintStep(w) \/ CrashStep(w) \/ FallStep(w) \/ BrokenPipeStep(w)
      PROVE  UNCHANGED <<coll, conf, stored, call>>
  BY <1>5 DEF PrintStep, CrashStep, FallStep, BrokenPipeStep, scriptVars, dbVars, loopVars
<1>6. CASE UNCHANGED vars
  BY <1>1, <1>6 DEF vars, dbVars, loopVars
<1> QED
  BY <1>1, <1>2, <1>3, <1>4, <1>5, <1>6 DEF Next, Own, AllDone

(* The runs, their engines and the server together implement KeyStore. *)
THEOREM Refinement == Spec => ImplementsKeyStore
<1>1. IInv /\ [Next]_vars => [Promised!StoreNext]_(Promised!storeVars)
  BY StepPromised
<1> QED
  BY <1>1, InitPromised, Invariance, PTL DEF Spec, ImplementsKeyStore, Promised!StoreSpec
=============================================================================
