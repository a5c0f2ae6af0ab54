--------------------------- MODULE EngineProcess ---------------------------
(***************************************************************************)
(* The engine binary as the orchestrator sees it: a child process that     *)
(* prints lines into a pipe forever (vanity_run never returns) until a     *)
(* signal, a broken pipe or a fault of its own ends it.                    *)
(***************************************************************************)
EXTENDS Naturals, Sequences

CONSTANTS
    Workers,    \* the orchestrators; each starts at most one engine
    Emits,      \* the lines an engine may print
    PipeCap     \* bound: lines the stdout pipe holds

VARIABLES
    eng,        \* eng[w]: the process: none, running or dead
    doomed,     \* doomed[w]: a fatal signal was sent to it
    pipe        \* pipe[w]: lines printed and not yet read

-----------------------------------------------------------------------------
EngTypeOK ==
    /\ eng \in [Workers -> {"none", "running", "dead"}]
    /\ doomed \in [Workers -> BOOLEAN]
    /\ pipe \in [Workers -> Seq(Emits)]

EngInit ==
    /\ eng = [w \in Workers |-> "none"]
    /\ doomed = [w \in Workers |-> FALSE]
    /\ pipe = [w \in Workers |-> <<>>]

Spawn(w) ==
    /\ eng' = [eng EXCEPT ![w] = "running"]
    /\ UNCHANGED <<doomed, pipe>>

(* terminate() and kill(), and the terminal's Ctrl-C: nothing happens to a *)
(* process that is gone.                                                   *)
Signal(w) ==
    /\ doomed' = [doomed EXCEPT ![w] = @ \/ eng[w] = "running"]
    /\ UNCHANGED <<eng, pipe>>

(* The orchestrator takes the next line. *)
TakeLine(w) ==
    /\ pipe' = [pipe EXCEPT ![w] = Tail(@)]
    /\ UNCHANGED <<eng, doomed>>

(* vanity_run prints a FOUND line or a status line and flushes it; a full  *)
(* pipe blocks it.                                                         *)
PrintLine(w, readerGone) ==
    /\ eng[w] = "running" /\ ~readerGone
    /\ Len(pipe[w]) < PipeCap
    /\ \E l \in Emits : pipe' = [pipe EXCEPT ![w] = Append(@, l)]
    /\ UNCHANGED <<eng, doomed>>

End(w) ==
    /\ eng[w] = "running"
    /\ eng' = [eng EXCEPT ![w] = "dead"]
    /\ UNCHANGED <<doomed, pipe>>

(* The fatal signal takes effect. *)
Fall(w) == doomed[w] /\ End(w)

(* Printing into a pipe whose reader is gone may end it: of SIGPIPE on     *)
(* POSIX.  Windows sends no signal, and vanity_run ignores what printf and *)
(* fflush return.                                                          *)
BreakPipe(w, readerGone) == readerGone /\ End(w)
=============================================================================
